------------------------------ MODULE MCStartup ------------------------------
(*****************************************************************************)
(* What happens before the first request, for TLC: the kernels are           *)
(* compiled or found (KernelCache), the dense parameters and the experts     *)
(* are loaded (ModelLoad), and a checkpoint's experts are streamed into      *)
(* banks (ExpertBanks).                                                      *)
(*                                                                           *)
(* A behaviour exercises one of the three and the others rest, so that the   *)
(* states add up.                                                            *)
(*****************************************************************************)
EXTENDS ModelLoad, TLC

CONSTANTS
  Parts,      \* the parts a behaviour may exercise
  Loaders,    \* the threads that load the CPU kernel
  LoaderProcess,  \* the process each of them belongs to
  Edits,      \* the build inputs that may change
  MaxEdits,   \* bound on such changes
  MaxCrashes, \* bound on processes that die
  MaxFailed   \* a compile may fail while no more temporaries than this were made

VARIABLES
  part,
  banks_checkpoint, banks_left, banks_rowShape, banks_buffer, banks_banks,
  banks_status,
  kernel_world, kernel_disk, kernel_thread, kernel_nextTmp, kernel_crashes

-----------------------------------------------------------------------------
\* Checkpoints of two or three layers with two experts.
Two == {1, 2}
AllBackends == {"auto", "fused", "cpu"}

\* Three threads of two processes.
TwoProcesses == <<1, 1, 2>>

Stored(root, ffn, param) == [root |-> root, ffn |-> ffn, param |-> param]

\* The tensors of a checkpoint of n layers, spelled in its way.
DenseTensors(n, root, ffn, dense, head) ==
  {Stored(root, "mlp", Embed)} \cup {Stored(root, "mlp", Param("block", l, 0)) : l \in 0 .. n - 1}
    \cup {Stored(root, ffn, Param("mlp", l, 0)) : l \in dense}
    \cup (IF head THEN {Stored("", "mlp", LmHead)} ELSE {})
ExpertTensorsOf(layers, root, ffn) ==
  {Stored(root, ffn, Param("expert", l, e)) : l \in layers, e \in Two}

\* Two shards: the embedding and the head with the experts, and the rest.
ShardsOf(ts) ==
  LET first == {t \in ts : t.param.kind \in {"embed", "lm_head", "expert"}}
  IN <<first, ts \ first>>

Checkpoint(by, n, first, dense, moe, tied, head, root, ffn, more) ==
  [reader |-> by, layers |-> n, first_dense |-> first, dense |-> dense, packed |-> FALSE,
   is_moe |-> moe, tied |-> tied, complete |-> TRUE,
   shards |-> ShardsOf(DenseTensors(n, root, ffn,
                                  IF moe THEN dense ELSE 0 .. n - 1, head)
                       \cup (IF moe THEN ExpertTensorsOf((0 .. n - 1) \ dense, root, ffn)
                             ELSE {})
                       \cup more)]

\* The vision tower and an MTP head with experts of its own.
Multimodal == {Stored("visual", "mlp", Param("block", 0, 0)),
               Stored("mtp", "mlp", Param("block", 0, 0)),
               Stored("mtp", "mlp", Param("expert", 0, 1)), Stored("mtp", "mlp", Param("expert", 0, 2))}

Qwen3Moe == Checkpoint(Qwen3MoeReader, 2, 0, {}, TRUE, TRUE, FALSE, "model", "mlp", {})
Qwen35 == Checkpoint(Qwen35Reader, 2, 0, {}, TRUE, FALSE, TRUE, "language", "mlp", Multimodal)
Glm4 == Checkpoint(Glm4Reader, 3, 1, {0}, TRUE, FALSE, TRUE, "model", "mlp", {})
Lfm2 == Checkpoint(Lfm2Reader, 2, 1, {0}, TRUE, TRUE, FALSE, "model", "feed_forward",
                   {Stored("model", "feed_forward", Param("expert_bias", 1, 0))})
Dense == Checkpoint(Qwen3Reader, 2, 0, {}, FALSE, TRUE, FALSE, "model", "mlp", {})
\* The trailing MTP block of a GGUF file is numbered as one more layer.
GgufWith(first, dense) ==
  [Checkpoint(GgufReader, 2, first, dense, TRUE, FALSE, TRUE, "model", "mlp",
              {Stored("mtp", "mlp", Param("block", 2, 0)),
               Stored("mtp", "mlp", Param("expert", 2, 1)), Stored("mtp", "mlp", Param("expert", 2, 2))})
     EXCEPT !.packed = TRUE]
\* Complete too: quantized, with a leading dense layer, and with one behind.
Packed(c) == [c EXCEPT !.packed = TRUE]
Qwen2Moe == Checkpoint(Qwen2MoeReader, 2, 0, {1}, TRUE, TRUE, FALSE, "model", "mlp", {})
Incomplete == [Checkpoint(Qwen3MoeReader, 2, 0, {}, TRUE, TRUE, FALSE, "model", "mlp", {})
                 EXCEPT !.complete = FALSE,
                        !.shards = [i \in {1, 2} |-> {t \in @[i] : t.param # Param("expert", 1, 2)}]]

Supported == {Qwen3Moe, Qwen35, Glm4, Lfm2, Dense, GgufWith(0, {}), Packed(Qwen3Moe)}
Refused == {GgufWith(1, {0}), Packed(Glm4), Qwen2Moe, Incomplete}
Shipped == Supported \cup Refused

\* Experts in shards that cut layers and experts: complete, a tensor short, of
\* another format, of another layer, or with a side value that differs.
Fp8Parts == {"weight", "weight_scale_inv"}
GptqParts == {"qweight", "qzeros", "scales", "g_idx"}
Int8Parts == {"weight_packed", "weight_scale", "weight_shape"}
\* The GGUF block sizes of Q4_K, Q5_K and Q6_K.
Bytes(type) == IF type = 12 THEN 144 ELSE IF type = 13 THEN 176 ELSE 210

T(layer, proj, expert, piece, side) ==
  [layer |-> layer, proj |-> proj, expert |-> expert, part |-> piece, side |-> side]

Single(layer, experts, parts) ==
  {T(layer, p, e, piece, 7) : p \in {"gate", "up", "down"}, e \in experts, piece \in parts}
WholeLayer(layer, bank) == T(layer, bank, -1, "weight", 7)

Source(method, layers, firstDense, rows, shards) ==
  [method |-> method, bits |-> 8, gguf |-> FALSE, layers |-> layers, experts |-> 2,
   firstDense |-> firstDense, gateRows |-> rows, block |-> 2, shards |-> shards]

\* Two layers, the second expert of the first in a later shard than its rest.
Straddled(parts) ==
  <<Single(0, {0}, parts), Single(1, {0}, parts),
    {t \in Single(0, {1}, parts) : t.proj = "gate"} \cup {t \in Single(1, {1}, parts) : t.proj # "up"},
    {t \in Single(0, {1}, parts) : t.proj # "gate"} \cup {t \in Single(1, {1}, parts) : t.proj = "up"}>>

\* One layer, a projection to a shard, the last of which may be changed.
ByProjection(parts, last) ==
  <<{t \in Single(0, {0, 1}, parts) : t.proj = "up"},
    {t \in Single(0, {0, 1}, parts) : t.proj = "down"}, last>>

Gates(parts, side) ==
  {T(0, "gate", e, piece, IF e = 1 THEN side ELSE 7) : e \in {0, 1}, piece \in parts}

Mxfp4(count) ==
  {T(l, b, -1, piece, IF l = 1 /\ piece = "scales" THEN count ELSE 2) :
     l \in {0, 1}, b \in {"gate_up", "down"}, piece \in {"blocks", "scales"}}

GgufSource(types, projs) ==
  [Source("none", 2, 0, 2, <<{T(l, p, -1, "raw", types[l + 1]) : l \in {0, 1}, p \in projs}>>)
     EXCEPT !.gguf = TRUE]

PlainSources ==
  {Source("none", 2, 0, 2, Straddled({"weight"})),
   Source("none", 2, 1, 2, <<Single(1, {0, 1}, {"weight"})>>),
   Source("none", 2, 0, 2, <<Single(0, {0, 1}, {"weight"})>>),
   Source("awq", 1, 0, 2, <<Single(0, {0}, {"qweight"})>>),
   Source("none", 1, 0, 2, <<Single(0, {0, 1}, {"weight"}), {WholeLayer(1, "down")}>>),
   Source("none", 1, 0, 2, <<Single(0, {0}, {"weight"})>>),
   Source("none", 2, 0, 2, <<{WholeLayer(l, b) : l \in {0, 1}, b \in {"gate_up", "down"}}>>)}

PartSources ==
  {Source("fp8", 2, 0, r, Straddled(Fp8Parts)) : r \in {2, 3}}
  \cup {Source("gptq", 1, 0, 2, ByProjection(GptqParts, Gates(GptqParts, s))) : s \in {7, 8}}
  \cup {Source("compressed-tensors", 1, 0, 2, ByProjection(Int8Parts, Gates(Int8Parts, s))) : s \in {7, 8}}
  \cup {[Source("compressed-tensors", 1, 0, 2, ByProjection(Int8Parts, {})) EXCEPT !.bits = 4]}
  \cup {Source("gptq", 1, 0, 2, ByProjection(GptqParts, {T(0, "gate", 0, "scales", 7)}))}
  \cup {Source("mxfp4", 2, 0, 2, <<Mxfp4(n)>>) : n \in {1, 2}}
  \cup {GgufSource(ts, ps) : ts \in {<<12, 12>>, <<12, 14>>, <<13, 12>>},
                       ps \in {{"gate", "up", "down"}, {"gate", "up"}}}

\* Quantized and complete behind a leading dense layer, a projection to a shard.
BehindDense(method, ts) ==
  Source(method, 2, 1, 2,
         [i \in 1..3 |-> {t \in ts : t.proj = <<"gate", "up", "down">>[i]}])
DenseFirstSources ==
  {BehindDense("fp8", Single(1, {0, 1}, Fp8Parts)),
   BehindDense("gptq", Single(1, {0, 1}, GptqParts)),
   BehindDense("compressed-tensors", Single(1, {0, 1}, Int8Parts)),
   Source("mxfp4", 2, 1, 2, <<{t \in Mxfp4(2) : t.layer = 1}>>),
   [BehindDense("none", {T(1, p, -1, "raw", 12) : p \in {"gate", "up", "down"}})
      EXCEPT !.gguf = TRUE]}

-----------------------------------------------------------------------------
Banks == INSTANCE ExpertBanks WITH
  Checkpoints <- PlainSources \cup PartSources \cup DenseFirstSources, RowBytes <- Bytes,
  checkpoint <- banks_checkpoint, left <- banks_left,
  rowShape <- banks_rowShape, buffer <- banks_buffer, banks <- banks_banks,
  status <- banks_status
Kernel == INSTANCE KernelCache WITH
  Threads <- Loaders, ProcessOf <- LoaderProcess, Kernels <- {"cpu_moe"},
  Compiler <- "path", Inputs <- Edits, MaxChanges <- MaxEdits, MaxFails <- MaxFailed,
  world <- kernel_world, disk <- kernel_disk, thread <- kernel_thread,
  nextTmp <- kernel_nextTmp, crashes <- kernel_crashes

expertBanksVars ==
  <<banks_checkpoint, banks_left, banks_rowShape, banks_buffer, banks_banks,
  banks_status>>
kernelCacheVars ==
  <<kernel_world, kernel_disk, kernel_thread, kernel_nextTmp, kernel_crashes>>
allVars == <<part, vars, expertBanksVars, kernelCacheVars>>

ASSUME StartupAssumption ==
  /\ \A c \in Checkpoints : ShipsItsModel(c)
  /\ Backends \subseteq {"auto", "fused", "offload", "cpu", "hybrid"}
  /\ Kernel!KernelCacheAssumption

\* One part is exercised; the others rest in one of their initial states.
SuiteInit ==
  /\ part \in Parts
  /\ Init
  /\ part # "load" => checkpoint = (CHOOSE c \in Checkpoints : TRUE) /\ ~dummy /\ left = checkpoint.shards
  /\ Banks!Init
  /\ part # "banks" => banks_checkpoint = CHOOSE c \in PlainSources : TRUE
  /\ Kernel!Init

StepModelLoad ==
  /\ part = "load"
  /\ Next
  /\ UNCHANGED <<part, expertBanksVars, kernelCacheVars>>
StepExpertBanks ==
  /\ part = "banks"
  /\ Banks!Next
  /\ UNCHANGED <<part, vars, kernelCacheVars>>
StepKernelCache ==
  /\ part = "kernels"
  /\ Kernel!Next
  /\ UNCHANGED <<part, vars, expertBanksVars>>

\* A finite component may stop; the others may never block.
Stops ==
  /\ part \in {"load", "banks", "kernels"}
  /\ UNCHANGED allVars

SuiteNext ==
  \/ StepModelLoad
  \/ StepExpertBanks
  \/ StepKernelCache
  \/ Stops

SuiteSpec == SuiteInit /\ [][SuiteNext]_allVars

-----------------------------------------------------------------------------
(***************************************************************************)
(* A model that is handed out holds its checkpoint and nothing else, made  *)
(* up where the user asked for dummy experts and then reproducibly; a      *)
(* complete checkpoint loads if its dense layers are those the streamer of *)
(* its format leaves out, and otherwise is refused (models/loader.py,      *)
(* models/weight.py and the iter_weights).                                 *)
(***************************************************************************)
ModelIsItsCheckpoint ==
  /\ TypeOK
  /\ NothingIsRandom
  /\ DummyIsReproducible
  /\ CompleteLoads
  /\ OtherDenseLayersRefused

(***************************************************************************)
(* However the shards cut it, every row of a bank is the expert of that    *)
(* place, a layer is released as soon as it is fused, side tensors are     *)
(* those of every expert, and a checkpoint with every expert loads, unless *)
(* it is quantized and its first layers are dense: then it is refused      *)
(* (models/weight.py).                                                     *)
(***************************************************************************)
BanksHoldTheirExperts ==
  /\ Banks!TypeOK
  /\ Banks!RowsInPlace
  /\ Banks!LoadedIsComplete
  /\ Banks!ReleasedWhenFused
  /\ Banks!SideIsShared
  /\ Banks!ScaleRowsMatch
  /\ Banks!RawRowsFit
  /\ Banks!LoadsUnlessDenseFirst

(***************************************************************************)
(* Threads and processes that build the CPU kernel at the same time, and   *)
(* die building it, never load a partial file, install only what they      *)
(* compiled, leave no temporary behind and fail only with their own        *)
(* compiler; a module once there stays (kernel/cpu_moe.py).                *)
(***************************************************************************)
KernelsAreWhole ==
  /\ [](/\ Kernel!TypeOK
        /\ Kernel!NoPartialModule
        /\ Kernel!InstallsOwnWork
        /\ Kernel!TemporariesAreCleared
        /\ Kernel!EveryLoadSucceeds)
  /\ Kernel!WarmStaysWarm
=============================================================================
