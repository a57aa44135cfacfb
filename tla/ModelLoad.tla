------------------------------- MODULE ModelLoad -------------------------------
(***************************************************************************)
(* models/loader.py: from a checkpoint to a model whose forward reads      *)
(* nothing but what the checkpoint says.  load_model resolves the backend, *)
(* builds the model, streams the dense tensors through the architecture's  *)
(* iter_weights into the parameters of the same name, builds the expert    *)
(* banks from a second pass, and copies them into the model's experts or   *)
(* attaches the offload cache to them.  With dummy=True it reads nothing   *)
(* and makes the banks up.                                                 *)
(*                                                                         *)
(* A parameter is named by [kind, layer, expert]; a tensor of a checkpoint *)
(* is the parameter it is meant for and how its name is spelled.  What the *)
(* streamers do inside one layer is ExpertBanks' subject; here a bank is   *)
(* the layer whose experts it holds.                                       *)
(***************************************************************************)
EXTENDS Integers, Sequences, FiniteSets, SequencesExt

CONSTANTS
  Checkpoints,  \* the checkpoints, as described by CheckpointAssumption
  ExpertIds,    \* the experts of a layer
  Backends      \* what --moe-backend asks for

Param(kind, layer, expert) == [kind |-> kind, layer |-> layer, expert |-> expert]
Embed == Param("embed", 0, 0)
LmHead == Param("lm_head", 0, 0)

(***************************************************************************)
(* The iter_weights of the architectures: which namespaces it drops, which *)
(* spellings it normalises, whether it ties lm_head to the embedding, and  *)
(* whether the blocks can run without resident experts.                    *)
(***************************************************************************)
Reader(capable, ties, drops, renames) ==
  [capable |-> capable, ties |-> ties, drops |-> drops, renames |-> renames]

Qwen3MoeReader == Reader(TRUE, TRUE, {}, {})
Qwen35Reader   == Reader(TRUE, FALSE, {"visual", "mtp"}, {"language"})
GgufReader     == Reader(TRUE, FALSE, {"mtp"}, {})
Lfm2Reader     == Reader(FALSE, TRUE, {}, {"feed_forward"})
Qwen3Reader    == Reader(FALSE, TRUE, {}, {})
Qwen2MoeReader == Qwen3Reader
OlmoeReader    == Qwen3Reader
MellumReader   == Qwen3Reader
Glm4Reader     == Qwen3Reader
DeepseekV4Reader == Qwen3Reader
DeepseekV2LiteReader == Qwen3Reader
GlmMoeDsaReader == Qwen3Reader
GptOssReader   == Qwen3Reader
Qwen4ExpReader == Qwen3Reader

\* tied: config.json declares the tie; dense: the layers without experts;
\* first_dense: first_k_dense_replace; packed: its experts are quantized, in
\* safetensors or GGUF; shards: the tensors file by file.
ASSUME CheckpointAssumption ==
  \A c \in Checkpoints :
    /\ c.layers \in Nat \ {0}
    /\ c.dense \subseteq 0 .. c.layers - 1
    /\ c.first_dense \in 0 .. c.layers
    /\ c.tied \in BOOLEAN /\ c.is_moe \in BOOLEAN /\ c.packed \in BOOLEAN

VARIABLES
  checkpoint,  \* the checkpoint, with its architecture's reader
  dummy,       \* load_model(dummy=...)
  backend,     \* moe_backend, resolved
  left,        \* the shards still to stream
  params,      \* the model's parameters, each with what it holds
  sawHead,     \* saw_lm_head
  rng,         \* what the next torch.randn depends on: the process or the config
  banks,       \* the banks in MoE-layer order
  cacheBanks,  \* what the offload cache is attached to; <<>> without one
  status

vars == <<checkpoint, dummy, backend, left, params, sawHead, rng, banks,
          cacheBanks, status>>

reader == checkpoint.reader
Layers(c) == 0 .. c.layers - 1

Holds(what, of) == [what |-> what, of |-> of]
Random == Holds("random", Embed)
ZeroFill == Holds("zero", Embed)
Loaded(p) == Holds("loaded", p)
Made(p) == IF rng = "config" THEN Holds("made up", p) ELSE Random

(***************************************************************************)
(* The model.                                                              *)
(***************************************************************************)
Hosted == {"offload", "cpu", "hybrid"}

\* A bug: it is not asked whether the architecture can be offloaded.
OffloadSlip == checkpoint.is_moe /\ backend \in Hosted

\* offload: the blocks are built without experts, which the cache serves.
Offload == checkpoint.is_moe /\ backend \in Hosted /\ reader.capable

\* Whether a block has experts is the model's own rule.
MoeBlocks(c) == IF c.is_moe THEN Layers(c) \ c.dense ELSE {}
ExpertParams(l) == {Param("expert", l, e) : e \in ExpertIds}
ResidentExperts ==
  IF reader.capable /\ backend \in Hosted THEN {}
  ELSE UNION {ExpertParams(l) : l \in MoeBlocks(checkpoint)}

DenseParams(c) ==
  {Embed, LmHead} \cup {Param("block", l, 0) : l \in Layers(c)}
    \cup {Param("mlp", l, 0) : l \in Layers(c) \ MoeBlocks(c)}

\* _moe_layers, the loader's rule: all but the leading dense layers.
MoeLayers(c) == c.first_dense .. c.layers - 1
Compacted ==
  [i \in 1 .. Cardinality(MoeLayers(checkpoint)) |-> checkpoint.first_dense + i - 1]

\* The streamers' rule: plain banks start behind the leading dense layers, the
\* packed ones, of GGUF too, are demanded of every layer.
FirstBank(c) == IF c.packed THEN 0 ELSE c.first_dense
StreamedLayers(c) == FirstBank(c) .. c.layers - 1
Streamed ==
  [i \in 1 .. Cardinality(StreamedLayers(checkpoint)) |-> FirstBank(checkpoint) + i - 1]

(***************************************************************************)
(* Streaming.                                                              *)
(***************************************************************************)
IsExpert(t) == t.param.kind = "expert"

\* iter_weights: namespaces that are not served are dropped, spellings are
\* brought to the model's.
Kept(c, t) == t.root \notin c.reader.drops
Renamed(c, t) ==
  [t EXCEPT !.root = IF @ \in c.reader.renames THEN "model" ELSE @,
            !.ffn = IF @ \in c.reader.renames THEN "mlp" ELSE @]

\* _place_dense strips one "model." and _place writes what it finds under
\* that name; any other name is passed over.
Places(t) == t.root \in {"model", ""} /\ t.ffn = "mlp"

Place(t) ==
  IF Places(t) /\ t.param \in DOMAIN params
    THEN [params EXCEPT ![t.param] = Loaded(t.param)] ELSE params

\* The expert tensors of the whole checkpoint, as the bank streamers see them:
\* they read the layer out of the name.
ExpertTensors(c) ==
  {Renamed(c, t) : t \in {u \in UNION Range(c.shards) : Kept(c, u) /\ IsExpert(u)}}
HasBank(c, l) ==
  \A e \in ExpertIds : \E t \in ExpertTensors(c) : t.param = Param("expert", l, e)
SeenLayers(c) == {t.param.layer : t \in ExpertTensors(c)}

\* A name of another tree in the layer's place is taken for the layer's own.
Intruders(c, l) ==
  {t \in ExpertTensors(c) : t.param.layer = l /\ t.root \notin {"model", ""}}

(***************************************************************************)
(* What it takes that a checkpoint is one of its architecture: there is a  *)
(* tensor for every dense parameter, under a name that gets there, or a    *)
(* declared tie that the reader knows for the head; no block without       *)
(* experts, such as those before first_dense, has tensors of them, and no  *)
(* other tree's are taken for the model's; and what is called complete has *)
(* the experts of every block that is to have some.  Nothing of this is    *)
(* checked of the dense parameters (_place).                               *)
(***************************************************************************)
Parameters == [kind : STRING, layer : Int, expert : Int]
Tensors == [root : STRING, ffn : STRING, param : Parameters]
Read(c) == {t \in UNION Range(c.shards) : Kept(c, t) /\ ~IsExpert(t)}

ShipsItsModel(c) ==
  /\ c.shards \in Seq(SUBSET Tensors)
  /\ \A p \in DenseParams(c) :
       \/ \E t \in Read(c) : t.param = p /\ Places(Renamed(c, t))
       \/ /\ p = LmHead /\ c.tied /\ c.reader.ties
          /\ \A t \in Read(c) : t.param # LmHead
  /\ MoeBlocks(c) \subseteq MoeLayers(c)
  /\ SeenLayers(c) \subseteq MoeBlocks(c)
  /\ \A l \in MoeLayers(c) : Intruders(c, l) = {}
  /\ c.complete =>
       SeenLayers(c) = MoeBlocks(c) /\ \A l \in MoeBlocks(c) : HasBank(c, l)

TypeOK ==
  /\ checkpoint \in Checkpoints
  /\ dummy \in BOOLEAN
  /\ backend \in {"fused", "offload", "cpu", "hybrid"}
  /\ DOMAIN params = DenseParams(checkpoint) \cup ResidentExperts
  /\ sawHead \in BOOLEAN
  /\ rng \in {"process", "config"}
  /\ status \in {"built", "dense", "banks", "placed", "loaded", "refused"}

(***************************************************************************)
(* load_model.                                                             *)
(***************************************************************************)
\* "auto" offloads what has experts, or runs hybrid when a profile says so.
Resolve(asked, moe) ==
  IF asked # "auto" THEN {asked} ELSE IF moe THEN {"offload", "hybrid"} ELSE {"fused"}

Init ==
  /\ checkpoint \in Checkpoints
  /\ dummy \in BOOLEAN
  /\ backend \in UNION {Resolve(b, checkpoint.is_moe) : b \in Backends}
  /\ left = checkpoint.shards
  /\ params = [p \in DenseParams(checkpoint) \cup ResidentExperts |-> Random]
  /\ sawHead = FALSE
  /\ rng = "process"
  /\ banks = <<>>
  /\ cacheBanks = <<>>
  /\ status = "built"

\* _seed_dummy_experts and dummy_moe_expert_sources.
Seed == rng' = "config"

SeedDummyExperts ==
  /\ status = "built" /\ dummy
  /\ IF checkpoint.is_moe
       THEN /\ params' = [p \in DOMAIN params |-> ZeroFill]
            /\ Seed
            /\ status' = "dense"
       ELSE /\ status' = "loaded"
            /\ UNCHANGED <<params, rng>>
  /\ UNCHANGED <<checkpoint, dummy, backend, left, sawHead, banks, cacheBanks>>

MakeUpBanks ==
  /\ status = "dense" /\ dummy
  /\ banks' = [i \in 1 .. Len(Compacted) |->
                 [e \in ExpertIds |-> Made(Param("expert", Compacted[i], e))]]
  /\ status' = "banks"
  /\ UNCHANGED <<checkpoint, dummy, backend, left, params, sawHead, rng, cacheBanks>>

\* The dense pass: a tensor of the shard that is open.
StreamDense ==
  /\ status = "built" /\ ~dummy
  /\ left # <<>> /\ Head(left) # {}
  /\ \E t \in Head(left) :
       LET u == Renamed(checkpoint, t)
       IN /\ left' = [left EXCEPT ![1] = @ \ {t}]
          /\ IF Kept(checkpoint, t) /\ ~IsExpert(t)
               THEN /\ params' = Place(u)
                    /\ sawHead' = (sawHead \/ u.param = LmHead)
               ELSE UNCHANGED <<params, sawHead>>
  /\ UNCHANGED <<checkpoint, dummy, backend, rng, banks, cacheBanks, status>>

NextShard ==
  /\ status = "built" /\ ~dummy
  /\ left # <<>> /\ Head(left) = {}
  /\ left' = Tail(left)
  /\ UNCHANGED <<checkpoint, dummy, backend, params, sawHead, rng, banks,
                 cacheBanks, status>>

\* The end of iter_weights: a tied checkpoint without lm_head.weight.
Tie == reader.ties /\ checkpoint.tied /\ ~sawHead /\ params[Embed] = Loaded(Embed)

EndDense ==
  /\ status = "built" /\ ~dummy
  /\ left = <<>>
  /\ params' = IF Tie THEN [params EXCEPT ![LmHead] = Loaded(Embed)] ELSE params
  /\ status' = IF checkpoint.is_moe THEN "dense" ELSE "loaded"
  /\ UNCHANGED <<checkpoint, dummy, backend, left, sawHead, rng, banks, cacheBanks>>

\* load_moe_expert_sources: the layers found must be the layers expected.
StreamBanks ==
  /\ status = "dense" /\ ~dummy
  /\ IF /\ SeenLayers(checkpoint) = StreamedLayers(checkpoint)
        /\ \A l \in StreamedLayers(checkpoint) : HasBank(checkpoint, l)
       THEN /\ banks' = [i \in 1 .. Len(Streamed) |->
                           [e \in ExpertIds |->
                              IF Intruders(checkpoint, Streamed[i]) = {}
                                THEN Loaded(Param("expert", Streamed[i], e))
                                ELSE Holds("either", Param("expert", Streamed[i], e))]]
            /\ status' = "banks"
       ELSE /\ status' = "refused"
            /\ UNCHANGED banks
  /\ UNCHANGED <<checkpoint, dummy, backend, left, params, sawHead, rng, cacheBanks>>

\* Banks are in MoE-layer order: the ith belongs to the ith layer with experts.
BankOf(l) == banks[l - checkpoint.first_dense + 1]

\* _place_expert_weights and its siblings for packed banks.
PlaceExperts ==
  /\ status = "banks" /\ ~Offload
  /\ params' = [p \in DOMAIN params |->
                  IF p.kind = "expert" /\ p.layer \in MoeLayers(checkpoint)
                    THEN BankOf(p.layer)[p.expert] ELSE params[p]]
  /\ status' = "loaded"
  /\ UNCHANGED <<checkpoint, dummy, backend, left, sawHead, rng, banks, cacheBanks>>

\* _attach_offload_cache, with the model's moe_layer_id.
AttachOffloadCache ==
  /\ status = "banks" /\ Offload
  /\ cacheBanks' = [l \in MoeLayers(checkpoint) |-> BankOf(l)]
  /\ status' = "loaded"
  /\ UNCHANGED <<checkpoint, dummy, backend, left, params, sawHead, rng, banks>>

Next ==
  \/ SeedDummyExperts \/ MakeUpBanks
  \/ StreamDense \/ NextShard \/ EndDense \/ StreamBanks
  \/ PlaceExperts \/ AttachOffloadCache

Spec == Init /\ [][Next]_vars

--------------------------------------------------------------------------------
\* What the forward reads for an expert: the module, or the cache.
ReadsExpert(l, e) ==
  IF ResidentExperts # {} THEN params[Param("expert", l, e)] ELSE cacheBanks[l][e]

(***************************************************************************)
(* A model that is handed out holds nothing but its checkpoint: every      *)
(* dense parameter its own tensor, lm_head the embedding where the two are *)
(* tied, and every expert its own layer's, wherever the backend keeps it   *)
(* (load_model: "with its dense parameters populated on device").          *)
(***************************************************************************)
NothingIsRandom ==
  status = "loaded" /\ ~dummy =>
    /\ \A p \in DenseParams(checkpoint) :
         \/ params[p] = Loaded(p)
         \/ p = LmHead /\ checkpoint.tied /\ params[p] = Loaded(Embed)
    /\ \A l \in MoeBlocks(checkpoint), e \in ExpertIds :
         ReadsExpert(l, e) = Loaded(Param("expert", l, e))

(***************************************************************************)
(* Two processes that load the same dummy MoE model get the same weights:  *)
(* none is left as the process's random state made it                      *)
(* (_seed_dummy_experts).                                                  *)
(***************************************************************************)
DummyIsReproducible ==
  status = "loaded" /\ dummy /\ checkpoint.is_moe =>
    /\ \A p \in DOMAIN params : params[p].what \in {"zero", "made up"}
    /\ \A l \in MoeBlocks(checkpoint), e \in ExpertIds :
         ReadsExpert(l, e).what = "made up"

\* The dense blocks are those the streamer of the format leaves out.
DenseAsStreamed(c) == c.is_moe => MoeBlocks(c) = StreamedLayers(c)

(***************************************************************************)
(* A checkpoint that holds all its model's tensors is loaded, with any     *)
(* backend asked for, if its dense layers are those its streamer leaves    *)
(* out: the leading ones of a plain checkpoint, none of a packed one (the  *)
(* fallback to the fused path of the architectures that have no other, and *)
(* the streamers' expected layers).                                        *)
(***************************************************************************)
CompleteLoads ==
  checkpoint.complete /\ DenseAsStreamed(checkpoint) => status # "refused"

(***************************************************************************)
(* Any other is refused before its banks are numbered, never loaded with   *)
(* the experts of one layer in another's place: a packed checkpoint with   *)
(* leading dense layers, and one with dense layers behind them             *)
(* (stream_moe_expert_sources_fp8 and its siblings, mlp_only_layers).      *)
(***************************************************************************)
OtherDenseLayersRefused ==
  ~dummy /\ ~DenseAsStreamed(checkpoint) => status \notin {"banks", "loaded"}
=============================================================================
