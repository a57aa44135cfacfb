------------------------------ MODULE ExpertBanks ------------------------------
(***************************************************************************)
(* How the expert tensors of a checkpoint become one bank per layer and    *)
(* projection (models/weight.py): load_moe_expert_sources picks a streamer *)
(* by the quantization, and the streamer takes tensors in the order in     *)
(* which the shards hold them.                                             *)
(*                                                                         *)
(* A tensor is a record: where it belongs (layer, projection, expert or    *)
(* Whole for a tensor of all experts), which part it is of a quantized     *)
(* weight, and side, the one value besides the weights that matters: g_idx *)
(* (gptq), K (int8), the number of experts (mxfp4), the ggml type (gguf).  *)
(***************************************************************************)
EXTENDS Integers, Sequences, FiniteSets, FiniteSetsExt

CONSTANTS
  Checkpoints,   \* the checkpoints to load, with the sizes of their config
  RowBytes(_)    \* bytes of an expert's row in a ggml type

VARIABLES
  checkpoint,
  left,      \* the tensors still to come, a set for each shard
  rowShape,  \* row_shape: the shape the rows of a bank were first seen with
  buffer,    \* raw tensors that are not yet in a bank
  banks,     \* finished banks by layer and name
  status     \* streaming, loaded, refused (ValueError) or crashed (any other error)

vars == <<checkpoint, left, rowShape, buffer, banks, status>>

Whole == -1
NoShape == 0

Layers == 0..checkpoint.layers - 1
Experts == 0..checkpoint.experts - 1
MoeLayers == checkpoint.firstDense..checkpoint.layers - 1

-----------------------------------------------------------------------------

\* load_moe_expert_sources: compressed-tensors is int8 only with eight bits.
Streamer(c) ==
  CASE c.gguf -> "gguf"
    [] ~c.gguf /\ c.method \in {"gptq", "fp8", "mxfp4"} -> c.method
    [] ~c.gguf /\ c.method = "compressed-tensors" /\ c.bits = 8 -> "int8"
    [] OTHER -> "plain"

Streams(format) == status = "streaming" /\ left # <<>> /\ Streamer(checkpoint) = format

BankOf(proj) == IF proj \in {"gate_up", "gate", "up"} THEN "gate_up" ELSE "down"

\* A bug: the buffer is kept by bank alone.
KeySlip(t) == <<0, BankOf(t.proj)>>

Key(t) == <<t.layer, BankOf(t.proj)>>
BufferOf(key) == {t \in buffer : Key(t) = key}

Halves(bank) == IF bank = "gate_up" THEN <<"gate", "up">> ELSE <<"down">>

\* The row of every expert: its tensors, the gate half before the up half.
RowsOf(tensors, halves) ==
  [e \in Experts |->
     [h \in DOMAIN halves |-> {t \in tensors : t.expert = e /\ t.proj = halves[h]}]]

\* Every expert has every part of every projection.
Complete(tensors, halves, parts) ==
  \A e \in Experts, h \in DOMAIN halves, part \in parts :
    \E t \in tensors : t.expert = e /\ t.proj = halves[h] /\ t.part = part

GptqParts == {"qweight", "qzeros", "scales", "g_idx"}
Fp8Parts == {"weight", "weight_scale_inv"}
Mxfp4Parts == {"blocks", "scales"}
Int8Parts == {"weight_packed", "weight_scale", "weight_shape"}

\* The keys each streamer parses: the plain one knows whole layers and single
\* experts.
Parses(format, t) ==
  LET single == t.expert # Whole /\ t.proj \in {"gate", "up", "down"}
      whole  == t.expert = Whole /\ t.proj \in {"gate_up", "down"}
  IN  CASE format = "plain" -> t.part = "weight" /\ (single \/ whole)
        [] format = "gptq"  -> t.part \in GptqParts /\ single
        [] format = "fp8"   -> t.part \in Fp8Parts /\ single
        [] format = "mxfp4" -> t.part \in Mxfp4Parts /\ whole
        [] format = "int8"  -> t.part \in Int8Parts /\ single
        [] format = "gguf"  -> t.part = "raw"

-----------------------------------------------------------------------------

Init ==
  /\ checkpoint \in Checkpoints
  /\ left = checkpoint.shards
  /\ rowShape = [bank \in {"gate_up", "down"} |-> NoShape]
  /\ buffer = {}
  /\ banks = [key \in {} |-> <<>>]
  /\ status = "streaming"

\* iter_safetensors opens a shard once and yields all of its tensors, in the
\* order of the index, before the next.
NextTensor(t) ==
  /\ t \in Head(left)
  /\ left' = IF Head(left) = {t} THEN Tail(left) ELSE <<Head(left) \ {t}>> \o Tail(left)

With(key, bank) == [k \in DOMAIN banks \cup {key} |-> IF k = key THEN bank ELSE banks[k]]

Refuse == status' = "refused" /\ UNCHANGED <<checkpoint, rowShape, buffer, banks>>

\* A tensor that is no expert of this format, or of a layer the config has not.
Unexpected(t) ==
  /\ status = "streaming" /\ left # <<>>
  /\ NextTensor(t)
  /\ ~Parses(Streamer(checkpoint), t) \/ t.layer \notin Layers
  /\ Refuse

Expected(format, t) ==
  /\ Streams(format)
  /\ NextTensor(t)
  /\ Parses(format, t) /\ t.layer \in Layers

ShapeOf(t) == IF t.proj = "gate_up" THEN 2 ELSE 1

\* _maybe_finalize_layer: a layer of single experts is fused when all three
\* projections of all its experts have come, unless both its banks exist.
FinishPlainLayer(layer, raw) ==
  LET rows == {t \in raw : t.layer = layer}
      done == /\ {<<layer, "gate_up">>, <<layer, "down">>} \ DOMAIN banks # {}
              /\ Complete(rows, <<"gate", "up", "down">>, {"weight"})
  IN  IF done
      THEN /\ banks' = [key \in DOMAIN banks \cup {<<layer, "gate_up">>, <<layer, "down">>} |->
                          IF key[1] = layer
                          THEN [rows |-> RowsOf(rows, Halves(key[2])), side |-> 0]
                          ELSE banks[key]]
           /\ buffer' = raw \ rows
      ELSE buffer' = raw /\ UNCHANGED banks

\* stream_moe_expert_sources
StreamPlain(t) ==
  /\ Expected("plain", t)
  /\ IF rowShape[BankOf(t.proj)] \notin {NoShape, ShapeOf(t)}
     THEN Refuse
     ELSE /\ rowShape' = [rowShape EXCEPT ![BankOf(t.proj)] = ShapeOf(t)]
          /\ IF t.expert = Whole
             THEN banks' = With(Key(t), [rows |-> [e \in Experts |-> <<{t}>>], side |-> 0])
                  /\ UNCHANGED buffer
             ELSE FinishPlainLayer(t.layer, buffer \cup {t})
          /\ UNCHANGED <<checkpoint, status>>

\* What the streamers of quantized experts share: the bank is built, and its raw
\* tensors released, when its last part comes.
StreamPart(t, parts, fits) ==
  LET key     == Key(t)
      halves  == Halves(key[2])
      tensors == BufferOf(key) \cup {t}
  IN  IF ~Complete(tensors, halves, parts)
      THEN buffer' = buffer \cup {t} /\ UNCHANGED <<checkpoint, rowShape, banks, status>>
      ELSE IF ~fits
      THEN Refuse
      ELSE /\ banks' = With(key, [rows |-> RowsOf(tensors, halves),
                                  side |-> (CHOOSE u \in tensors : TRUE).side])
           /\ buffer' = buffer \ BufferOf(key)
           /\ UNCHANGED <<checkpoint, rowShape, status>>

\* The halves of an expert and all experts of a bank agree on g_idx, on K.
OneSide(tensors) == \A t, u \in tensors : t.side = u.side

StreamGptq(t) ==
  Expected("gptq", t) /\ StreamPart(t, GptqParts, OneSide(BufferOf(Key(t)) \cup {t}))

StreamInt8(t) ==
  Expected("int8", t) /\ StreamPart(t, Int8Parts, OneSide(BufferOf(Key(t)) \cup {t}))

\* The scales of both halves can be put below each other only if the gate half
\* ends with a block.
Aligned(bank) == bank = "gate_up" => checkpoint.gateRows % checkpoint.block = 0

StreamFp8(t) ==
  Expected("fp8", t) /\ StreamPart(t, Fp8Parts, Aligned(BankOf(t.proj)))

\* A layer's tensors of all experts: the two parts have as many, and as many
\* as the config says.
StreamMxfp4(t) ==
  /\ Expected("mxfp4", t)
  /\ LET tensors == BufferOf(Key(t)) \cup {t}
     IN  IF {u.part : u \in tensors} # Mxfp4Parts
         THEN buffer' = buffer \cup {t} /\ UNCHANGED <<checkpoint, rowShape, banks, status>>
         ELSE IF \E u \in tensors : u.side # checkpoint.experts
         THEN Refuse
         ELSE /\ banks' = With(Key(t), [rows |-> [e \in Experts |-> <<tensors>>],
                                        side |-> checkpoint.experts])
              /\ buffer' = buffer \ tensors
              /\ UNCHANGED <<checkpoint, rowShape, status>>

\* iter_moe_expert_raw_banks: the bytes stay raw until all layers are there.
StreamGguf(t) ==
  /\ Expected("gguf", t)
  /\ buffer' = buffer \cup {t}
  /\ UNCHANGED <<checkpoint, rowShape, banks, status>>

-----------------------------------------------------------------------------

Ends(format) == status = "streaming" /\ left = <<>> /\ Streamer(checkpoint) = format

Seen(bank) ==
  {key[1] : key \in {k \in DOMAIN banks : k[2] = bank}}
    \cup {t.layer : t \in {u \in buffer : BankOf(u.proj) = bank}}

\* A layer counts as seen from its first row on, so one that was never fused
\* has no bank to take .tensor of.
FinishPlain ==
  /\ Ends("plain")
  /\ status' = IF \E bank \in {"gate_up", "down"} : Seen(bank) # MoeLayers THEN "refused"
               ELSE IF MoeLayers \X {"gate_up", "down"} \subseteq DOMAIN banks THEN "loaded"
               ELSE "crashed"
  /\ UNCHANGED <<checkpoint, left, rowShape, buffer, banks>>

\* The quantized streamers count every layer of the model.
FinishParts ==
  /\ \E format \in {"gptq", "fp8", "mxfp4", "int8"} : Ends(format)
  /\ status' = IF Layers \X {"gate_up", "down"} \subseteq DOMAIN banks
               THEN "loaded" ELSE "refused"
  /\ UNCHANGED <<checkpoint, left, rowShape, buffer, banks>>

\* _pad_expert_rows_to_max: one row length for all layers of a projection.
Padded(proj) == Max({RowBytes(t.side) : t \in {u \in buffer : u.proj = proj}})

FinishGguf ==
  /\ Ends("gguf")
  /\ LET raw(layer, proj) == CHOOSE t \in buffer : t.layer = layer /\ t.proj = proj
         keys == Layers \X {"gate", "up", "down"}
     IN  IF \A key \in keys : \E t \in buffer : t.layer = key[1] /\ t.proj = key[2]
         THEN /\ banks' = [key \in keys |->
                             [rows  |-> [e \in Experts |-> <<{raw(key[1], key[2])}>>],
                              side  |-> raw(key[1], key[2]).side,
                              bytes |-> Padded(key[2])]]
              /\ buffer' = {}
              /\ status' = "loaded"
         ELSE status' = "refused" /\ UNCHANGED <<buffer, banks>>
  /\ UNCHANGED <<checkpoint, left, rowShape>>

Next ==
  \/ /\ left # <<>>
     /\ \E t \in Head(left) :
          \/ Unexpected(t) \/ StreamPlain(t) \/ StreamGptq(t) \/ StreamInt8(t)
          \/ StreamFp8(t) \/ StreamMxfp4(t) \/ StreamGguf(t)
  \/ FinishPlain \/ FinishParts \/ FinishGguf

Spec == Init /\ [][Next]_vars

-----------------------------------------------------------------------------

Tensors == UNION {checkpoint.shards[i] : i \in DOMAIN checkpoint.shards}
PartsOfFormat ==
  CASE Streamer(checkpoint) = "gptq" -> GptqParts
    [] Streamer(checkpoint) = "fp8"  -> Fp8Parts
    [] Streamer(checkpoint) = "int8" -> Int8Parts
    [] OTHER -> {}

Arrived == Tensors \ UNION {left[i] : i \in DOMAIN left}

TypeOK ==
  /\ status \in {"streaming", "loaded", "refused", "crashed"}
  /\ buffer \subseteq Arrived
  /\ \A bank \in DOMAIN rowShape : rowShape[bank] \in 0..2
  /\ \A key \in DOMAIN banks : key[1] < checkpoint.layers

(***************************************************************************)
(* Whatever order the tensors come in, the row of an expert in a bank has  *)
(* that expert's tensors of that layer, with all their parts, gate before  *)
(* up.  A tensor of the whole layer has the rows of all experts.           *)
(***************************************************************************)
RowsInPlace ==
  \A key \in DOMAIN banks, e \in Experts :
    LET of(p) == {t \in Tensors : t.layer = key[1] /\ t.expert \in {e, Whole} /\ t.proj = p}
        row   == banks[key].rows[e]
    IN  /\ row \in {<<of(key[2])>>, <<of("gate"), of("up")>>}
        /\ Len(row) = 2 => key[2] = "gate_up"
        /\ \A h \in DOMAIN row : row[h] # {}

(***************************************************************************)
(* A load that succeeds has put every expert tensor of the checkpoint into *)
(* a bank, and has both banks of every MoE layer: nothing is dropped, and  *)
(* nothing is left at its initial value without a word.                    *)
(***************************************************************************)
LoadedIsComplete ==
  status = "loaded" =>
    /\ \A t \in Tensors : \E key \in DOMAIN banks, e \in Experts :
         \E h \in DOMAIN banks[key].rows[e] : t \in banks[key].rows[e][h]
    /\ \A layer \in MoeLayers, p \in {"gate", "up", "down"} :
         {<<layer, BankOf(p)>>, <<layer, p>>} \cap DOMAIN banks # {}

(***************************************************************************)
(* "Finalizes each (layer, bank_name) as soon as its last component        *)
(* arrives ... and releasing its raw per-expert tensors": no raw tensor    *)
(* stays beside the bank it went into, nor when its bank could be built.   *)
(***************************************************************************)
ReleasedWhenFused ==
  \A t \in buffer :
    LET bank == {u \in Tensors : Key(u) = Key(t)}
    IN  /\ \A key \in DOMAIN banks, e \in Experts : \A h \in DOMAIN banks[key].rows[e] :
             t \notin banks[key].rows[e][h]
        /\ PartsOfFormat # {} /\ status # "refused"
             /\ Complete(bank, Halves(Key(t)[2]), PartsOfFormat)
           => ~(bank \subseteq Arrived)

(***************************************************************************)
(* A bank keeps one g_idx (gptq) or K (int8), and it is that of all its    *)
(* tensors, so it may stand for every expert and both halves.              *)
(***************************************************************************)
SideIsShared ==
  Streamer(checkpoint) \in {"gptq", "int8"} => \A key \in DOMAIN banks, e \in Experts :
    \A h \in DOMAIN banks[key].rows[e] : \A t \in banks[key].rows[e][h] :
      t.side = banks[key].side

(***************************************************************************)
(* In a fused block-FP8 bank, row n of the weight is scaled by row         *)
(* n \div block of the fused scales: for a row of the up half too, that is *)
(* the scale it was quantized with.                                        *)
(***************************************************************************)
ScaleRowsMatch ==
  LET N == checkpoint.gateRows
      B == checkpoint.block
  IN  Streamer(checkpoint) = "fp8" =>
        \A key \in DOMAIN banks : key[2] = "gate_up" =>
          \A n \in N..2 * N - 1 : n \div B = (N + B - 1) \div B + (n - N) \div B

(***************************************************************************)
(* All layers of a raw bank have rows of one length, for they share the    *)
(* slots of one pool, and no layer's row is cut.                           *)
(***************************************************************************)
RawRowsFit ==
  Streamer(checkpoint) = "gguf" =>
    \A key, other \in DOMAIN banks :
      key[2] = other[2] =>
        banks[key].bytes = banks[other].bytes /\ RowBytes(banks[key].side) <= banks[key].bytes

(***************************************************************************)
(* "Either form (or a mix) is fine per layer": a checkpoint in which every *)
(* MoE layer has both banks, whole or expert by expert, loads.             *)
(***************************************************************************)
HasBank(layer, bank) ==
  \/ \E t \in Tensors : t.layer = layer /\ t.expert = Whole /\ BankOf(t.proj) = bank
  \/ Complete({t \in Tensors : t.layer = layer}, Halves(bank), {"weight"})

EitherFormLoads ==
  /\ Streamer(checkpoint) = "plain"
  /\ \A layer \in MoeLayers, bank \in {"gate_up", "down"} : HasBank(layer, bank)
  => status \in {"streaming", "loaded"}

\* The checkpoint has every expert of every MoE layer, in the one form of its
\* format, and whatever its banks share is shared.
HasLayer(layer) ==
  LET tensors == {t \in Tensors : t.layer = layer}
      single  == {"gate", "up", "down"}
  IN  CASE Streamer(checkpoint) = "plain" -> Complete(tensors, <<"gate", "up", "down">>, {"weight"})
        [] Streamer(checkpoint) = "gguf"  -> single \subseteq {t.proj : t \in tensors}
        [] Streamer(checkpoint) = "mxfp4" ->
             {"gate_up", "down"} \X Mxfp4Parts \subseteq {<<t.proj, t.part>> : t \in tensors}
        [] OTHER -> Complete(tensors, <<"gate", "up", "down">>, PartsOfFormat)

HasEveryExpert ==
  /\ {t.layer : t \in Tensors} = MoeLayers
  /\ \A layer \in MoeLayers : HasLayer(layer)
  /\ \A t \in Tensors : Parses(Streamer(checkpoint), t)
  /\ Streamer(checkpoint) \in {"gptq", "int8"} =>
       \A t, u \in Tensors : Key(t) = Key(u) => t.side = u.side
  /\ Streamer(checkpoint) = "mxfp4" => \A t \in Tensors : t.side = checkpoint.experts
  /\ Streamer(checkpoint) = "fp8" => checkpoint.gateRows % checkpoint.block = 0

\* The streamer of the format starts behind the leading dense layers.
SkipsDense == Streamer(checkpoint) = "plain" \/ checkpoint.firstDense = 0

(***************************************************************************)
(* A checkpoint with every expert of its MoE layers loads, in any order of *)
(* its tensors, if it is plain or none of its layers is dense.  A          *)
(* quantized one with leading dense layers never does: its tensors are     *)
(* taken and it is refused at the end, for the banks of those layers.      *)
(***************************************************************************)
LoadsUnlessDenseFirst ==
  HasEveryExpert =>
    /\ SkipsDense => status \in {"streaming", "loaded"}
    /\ ~SkipsDense => status = "streaming" \/ (status = "refused" /\ left = <<>>)

(***************************************************************************)
(* "gate_up_banks/down_banks are MoE-layer-order-compacted" (_place_*_     *)
(* expert_weights of the loader, for every format): a checkpoint that has  *)
(* every expert loads, whatever layers are dense.  It fails for every      *)
(* quantized format.                                                       *)
(***************************************************************************)
EveryMoeLayerLoads == HasEveryExpert => status \in {"streaming", "loaded"}

(***************************************************************************)
(* "never buffering more than one layer's worth of raw per-expert tensors  *)
(* at once" (stream_moe_expert_sources_fp8).                               *)
(***************************************************************************)
OneLayerBuffered ==
  Streamer(checkpoint) = "fp8" =>
    Cardinality(buffer) <= 3 * checkpoint.experts * Cardinality(Fp8Parts)
=============================================================================
