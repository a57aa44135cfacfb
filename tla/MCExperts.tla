------------------------------ MODULE MCExperts ------------------------------
(*****************************************************************************)
(* A layer of experts, for TLC: routing (ExpertRouter), the dispatch of      *)
(* the routed experts to the device and the CPU (MoeDispatch), the worker    *)
(* thread of the CPU half (CpuMoeWorker), and the bandwidth profile that     *)
(* sizes the halves (BenchProfile).                                          *)
(*                                                                           *)
(* A behaviour exercises one of them and the others rest, so that the        *)
(* states add up; fairness is asked of the part that is exercised.           *)
(*****************************************************************************)
EXTENDS CpuMoeWorker, Sequences

CONSTANTS
  Parts,         \* the parts a behaviour may exercise
  Boxes,         \* of BenchProfile: the cards,
  BenchDtypes,   \* what --dtype is given,
  BenchFormats,  \* the formats of the models served,
  BenchModels,   \* whether --model is given,
  BenchEnvs,     \* whether the servers are told a path,
  BenchOuts,     \* whether --out names it, for each of these,
  MaxBenches     \* and the bound on benches

VARIABLES
  part,
  raising_slot, raising_worker, raising_caller, raising_buffers, raising_filled,
  raising_raised, raising_shutdown,
  dispatch_config, dispatch_pc, dispatch_call, dispatch_cpuHalf,
  dispatch_fetched, dispatch_sums,
  bench_env, bench_card, bench_disk, bench_bench, bench_last, bench_benches,
  bench_server,
  router_family, router_bias, router_aff, router_picks, router_weights,
  router_next, router_shared, router_out

-----------------------------------------------------------------------------
\* Every path of both blocks.  Paths whose sums are those of the reference (no
\* split, one thread), and hybrid splits and threaded sums.
BaseBlock == [arch |-> "qwen3_moe", backend |-> "offload", spec |-> <<"unset", 0>>,
         fetch |-> 0, maxFetch |-> -1, packed |-> FALSE, native |-> TRUE, threads |-> 1]

Specs == {<<"unset", 0>>, <<"count", 1>>, <<"count", 2>>, <<"count", 3>>, <<"percent", 50>>,
          <<"ids", {0, 2}>>}

\* Paths whose sums are those of the reference: no split, one thread.
ExactBlocks ==
  {[BaseBlock EXCEPT !.arch = a, !.backend = b, !.packed = q] :
     a \in {"qwen3_moe", "qwen3_5_moe", "other"}, b \in {"fused", "offload"}, q \in BOOLEAN}
  \union
  {[BaseBlock EXCEPT !.arch = a, !.backend = "cpu", !.spec = s, !.native = n] :
     a \in {"qwen3_moe", "qwen3_5_moe", "other"},
     s \in Specs \union {<<"auto", 0>>, <<"count", 9>>, <<"percent", 99>>},
     n \in BOOLEAN}
  \union
  {[BaseBlock EXCEPT !.arch = a, !.backend = "cpu", !.spec = s, !.packed = TRUE] :
     a \in {"qwen3_moe", "qwen3_5_moe", "other"}, s \in {<<"unset", 0>>, <<"count", 2>>}}
  \union
  {[BaseBlock EXCEPT !.arch = a, !.backend = "hybrid", !.spec = s] :
     a \in {"qwen3_moe", "qwen3_5_moe"}, s \in Specs}

\* Hybrid splits and threaded sums.
SplittingBlocks ==
  {[BaseBlock EXCEPT !.arch = a, !.backend = "hybrid", !.spec = s, !.fetch = f, !.maxFetch = m] :
     a \in {"qwen3_moe", "qwen3_5_moe"}, s \in {<<"unset", 0>>, <<"ids", {0}>>},
     f \in {10, 50, 100}, m \in {-1, 0, 1, 2}}
  \union
  {[BaseBlock EXCEPT !.backend = "cpu", !.spec = <<"auto", 0>>, !.threads = n] : n \in {-1, 0, 2, 3, 9}}

\* Two cards of one name, of which one does not tell its uuid, and another.
Fast == [name |-> "B70", uuid |-> 1, cpu |-> 9, pcie |-> 3]
Mute == [name |-> "B70", uuid |-> 0, cpu |-> 4, pcie |-> 3]
Other == [name |-> "A770", uuid |-> 3, cpu |-> 9, pcie |-> 4]

SomeCards == {Fast, Mute, Other}

\* The profile is written where the servers look.
OutWhereRead == [e \in BOOLEAN |-> {e}]

\* No number at all, no overlapped pair, and everything.
SomeMeasurements == {{}, {"cpu", "pcie"}, {"cpu", "pcie", "overlap"}}

\* Best group by two and best expert in different groups, ties, and a peak.
FourAffinities == {<<5, 1, 3, 4>>, <<2, 2, 2, 2>>, <<1, 2, 3, 1>>, <<4, 4, 1, 6>>, <<1, 1, 6, 1>>}
FourBiases == {<<0, 0, 0, 0>>, <<-3, 2, 0, 0>>, <<0, 0, -2, 3>>}
AllFamilies ==
  {"glm4_moe", "deepseek_v4", "glm_moe_dsa", "deepseek_v2_lite", "lfm2_moe", "mellum",
   "olmoe", "gpt_oss", "qwen2_moe", "qwen4_exp", "qwen3_moe", "qwen3_5_moe",
   "qwen3_moe_captured", "qwen3_5_moe_captured"}

-----------------------------------------------------------------------------
Raising == INSTANCE CpuMoeWorker WITH
  Callers <- {"r1", "r2"}, MaxForwards <- 2, XpuMayRaise <- TRUE,
  slot <- raising_slot, worker <- raising_worker, caller <- raising_caller,
  buffers <- raising_buffers, filled <- raising_filled,
  raised <- raising_raised, shutdown <- raising_shutdown
Exact == INSTANCE MoeDispatch WITH
  Configs <- ExactBlocks, NumLayers <- 3, NumExperts <- 4, TopK <- 2,
  NumTokens <- 2, Hardware <- 4, config <- dispatch_config, pc <- dispatch_pc,
  call <- dispatch_call, cpuHalf <- dispatch_cpuHalf,
  fetched <- dispatch_fetched, sums <- dispatch_sums
Split == INSTANCE MoeDispatch WITH
  Configs <- SplittingBlocks, NumLayers <- 3, NumExperts <- 5, TopK <- 3,
  NumTokens <- 2, Hardware <- 4, config <- dispatch_config, pc <- dispatch_pc,
  call <- dispatch_call, cpuHalf <- dispatch_cpuHalf,
  fetched <- dispatch_fetched, sums <- dispatch_sums
Bench == INSTANCE BenchProfile WITH
  Cards <- Boxes, Dtypes <- BenchDtypes, Formats <- BenchFormats,
  ModelShapes <- BenchModels, Outs <- BenchOuts, Envs <- BenchEnvs,
  Measurements <- SomeMeasurements, env <- bench_env, card <- bench_card,
  disk <- bench_disk, bench <- bench_bench, last <- bench_last,
  benches <- bench_benches, server <- bench_server
Router == INSTANCE ExpertRouter WITH
  Experts <- 1 .. 4, GroupSize <- 2, TopK <- 2, TopkGroup <- 1,
  Families <- AllFamilies, Affinities <- FourAffinities, Biases <- FourBiases,
  Tokens <- {"t1", "t2"}, Scale <- 3, family <- router_family,
  bias <- router_bias, aff <- router_aff, picks <- router_picks,
  weights <- router_weights, next <- router_next, shared <- router_shared,
  out <- router_out

raisingVars ==
  <<raising_slot, raising_worker, raising_caller, raising_buffers,
  raising_filled, raising_raised, raising_shutdown>>
moeDispatchVars ==
  <<dispatch_config, dispatch_pc, dispatch_call, dispatch_cpuHalf,
  dispatch_fetched, dispatch_sums>>
benchProfileVars ==
  <<bench_env, bench_card, bench_disk, bench_bench, bench_last, bench_benches,
  bench_server>>
expertRouterVars ==
  <<router_family, router_bias, router_aff, router_picks, router_weights,
  router_next, router_shared, router_out>>
allVars == <<part, vars, raisingVars, moeDispatchVars, benchProfileVars, expertRouterVars>>

ASSUME ExpertsAssumption ==
  /\ Exact!MoeDispatchAssumption
  /\ Split!MoeDispatchAssumption
  /\ Bench!BenchProfileAssumption
  /\ Router!ExpertRouterAssumption

\* One part is exercised; the others rest in one of their initial states.
SuiteInit ==
  /\ part \in Parts
  /\ Init
  /\ Raising!Init
  /\ \/ part \notin {"split"} /\ Exact!Init
        /\ (part # "exact" => dispatch_config = BaseBlock)
     \/ part = "split" /\ Split!Init
  /\ Bench!Init
  /\ part # "bench" =>
       bench_card = (CHOOSE c \in Boxes : TRUE) /\ bench_env = (CHOOSE e \in BenchEnvs : TRUE)
  /\ Router!Init
  /\ part # "router" => router_family.loop = "dense" /\ ~router_family.shared /\ router_aff = [t \in {"t1", "t2"} |-> <<2, 2, 2, 2>>]

StepCpuMoeWorker ==
  /\ part = "worker"
  /\ Next
  /\ UNCHANGED <<part, raisingVars, moeDispatchVars, benchProfileVars, expertRouterVars>>
StepRaising ==
  /\ part = "raising"
  /\ Raising!Next
  /\ UNCHANGED <<part, vars, moeDispatchVars, benchProfileVars, expertRouterVars>>
StepMoeDispatch ==
  /\ \/ part = "exact" /\ Exact!Next
     \/ part = "split" /\ Split!Next
  /\ UNCHANGED <<part, raisingVars, vars, benchProfileVars, expertRouterVars>>
StepBenchProfile ==
  /\ part = "bench"
  /\ Bench!Next
  /\ UNCHANGED <<part, raisingVars, vars, moeDispatchVars, expertRouterVars>>
StepExpertRouter ==
  /\ part = "router"
  /\ Router!Next
  /\ UNCHANGED <<part, raisingVars, vars, moeDispatchVars, benchProfileVars>>

\* A finite component may stop; the others may never block.
Stops ==
  /\ part \in {"worker", "raising", "exact", "split", "bench", "router"}
  /\ UNCHANGED allVars

SuiteNext ==
  \/ StepCpuMoeWorker
  \/ StepRaising
  \/ StepMoeDispatch
  \/ StepBenchProfile
  \/ StepExpertRouter
  \/ Stops

SuiteSpec == SuiteInit /\ [][SuiteNext]_allVars

(***************************************************************************)
(* The worker and the threads inside a forward run; new forwards, spurious *)
(* wakeups and an exit are not owed.                                       *)
(***************************************************************************)
SuiteFairSpec ==
  /\ SuiteSpec
  /\ WF_vars(part = "worker" /\ Work)
  /\ \A c \in Callers : WF_vars(part = "worker" /\ Step(c))
  /\ WF_raisingVars(part = "raising" /\ Raising!Work)
  /\ \A c \in {"r1", "r2"} : WF_raisingVars(part = "raising" /\ Raising!Step(c))

-----------------------------------------------------------------------------
(***************************************************************************)
(* Where no XPU half raises, every forward ends, however many threads      *)
(* share the worker, and the process can exit.  Where one does, forwards   *)
(* end until the first raise and the exit still ends; from then on the     *)
(* slot is taken for good, and the worker may run on the buffers of the    *)
(* job that was left, though of no other; no forward takes a foreign       *)
(* result or loses its job (cpu_moe.cpp, the blocks' _forward_hybrid).     *)
(***************************************************************************)
WorkerServes ==
  /\ []TypeOK
  /\ ForwardsEnd
  /\ WorkerJoins
  /\ [](Raising!ResultIsMine /\ Raising!NoLostJob)
  /\ [](Raising!BuffersKept /\ Raising!RaiseKeepsTheSlot)
  /\ Raising!ForwardsEndUntilARaise
  /\ Raising!WorkerJoins

\* "The caller must keep every buffer passed here alive until the matching
\* freetoken_cpu_moe_wait() call returns", of callers whose XPU half may raise.
RaisingKeepsBuffers == Raising!BuffersAlive

(***************************************************************************)
(* On every path each routed expert is added to its row once, with the     *)
(* router's weight except in the CPU half of qwen3_5_moe; without a split  *)
(* the sum is the reference's term by term; layers that were asked for the *)
(* CPU in a form the blocks read are computed there; a split fetches no    *)
(* CPU expert in decode and no more than a positive cap, and leaves        *)
(* neither half empty (the MoE blocks of qwen3_moe and qwen3_5_moe, moe/). *)
(***************************************************************************)
DispatchIsReference ==
  /\ part = "exact" =>
       /\ Exact!TypeOK
       /\ Exact!EveryRoutedOnce
       /\ Exact!RouterWeights
       /\ Exact!SameSum
       /\ Exact!ReadListsHonoured
  /\ part = "split" =>
       /\ Split!EveryRoutedOnce
       /\ Split!WeightsButTheCpuHalf
       /\ Split!ReadListsHonoured
       /\ Split!CpuHalfNotFetchedInDecode
       /\ Split!PositiveCapIsKept
       /\ Split!NeitherHalfEmpty

(***************************************************************************)
(* Hybrid is chosen only on a whole measurement of a card of this name     *)
(* (two cards of one name are not told apart in the shared files) and of   *)
(* the very key the served format is looked up by; the last bench, one     *)
(* without a number or of another format included, decides what the next   *)
(* server picks; the fraction is the writer's where the overlapped pair    *)
(* was measured, and else between the writer's and a half                  *)
(* (moe/bench_profile.py, moe/benchbw.py).                                 *)
(***************************************************************************)
HybridIsMeasured ==
  /\ Bench!TypeOK
  /\ Bench!HybridIsMeasured
  /\ Bench!BenchIsConsulted
  /\ Bench!Mxfp4NeedsItsKey
  /\ Bench!FractionIsWrittenIfOverlapped

(***************************************************************************)
(* In every architecture a token's experts lie in its best groups, the     *)
(* bias only chooses, and the loop over the experts adds up the weighted   *)
(* outputs of the chosen (the routers and expert loops of models/).        *)
(***************************************************************************)
RoutedSumIsReference ==
  /\ Router!TypeOK
  /\ Router!GroupLimited
  /\ Router!BiasOnlyChooses
  /\ Router!OutIsWeightedSum
=============================================================================
