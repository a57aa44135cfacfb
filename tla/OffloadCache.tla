------------------------------ MODULE OffloadCache ------------------------------
(***************************************************************************)
(* The global LRU expert slot cache of moe/offload_cache.py, driven by the *)
(* offload forward of the MoE models.                                      *)
(*                                                                         *)
(* Every layer of a forward pass makes its experts resident -- the whole   *)
(* layer in a prefill, the routed experts in a decode -- copies the rows   *)
(* of the missing ones from the host banks, and then gathers from the slot *)
(* pool through slot_for_id.  The loop over the missing experts and the    *)
(* loop over the staged rows are one step of the model per iteration.      *)
(***************************************************************************)
EXTENDS Integers, Sequences, FiniteSets, FiniteSetsExt

CONSTANTS
  NumLayers,    \* num_layers, the MoE layers
  NumExperts,   \* num_experts, the experts of a layer
  CacheSizes,   \* the slot-pool sizes the budget planner may choose
  MaxStep       \* bound on the step counter

ASSUME OffloadAssumption ==
  /\ NumLayers \in Nat \ {0}
  /\ NumExperts \in Nat \ {0}
  /\ CacheSizes \subseteq Nat
  /\ CacheSizes # {}
  /\ \A n \in CacheSizes : n >= NumExperts   \* the constructor's and rebuild's check
  /\ MaxStep \in Nat

VARIABLES
  cacheSize,      \* cache_size
  slotForId,      \* slot_for_id: flat id -> slot, NoSlot when not resident
  idOfSlot,       \* id_of_slot: slot -> flat id, NoId when empty
  usage,          \* usage: the step a slot was last active
  step,           \* step
  plan,           \* evict_slots / src_indices up to num_indices, less the
                  \* rows copy_missing has already copied
  pendingLayer,   \* _pending_src_layer
  bank,           \* the slot cache: whose weights each slot holds
  pc,             \* where the forward of one layer is
  call            \* its layer, its experts, its phase, the misses left

vars == <<cacheSize, slotForId, idOfSlot, usage, step, plan, pendingLayer, bank,
          pc, call>>

Layers == 0 .. (NumLayers - 1)
Experts == 0 .. (NumExperts - 1)
Ids == 0 .. (NumLayers * NumExperts - 1)
Slots == 0 .. (cacheSize - 1)

NoSlot == -1
NoId == -1
NoLayer == -1

\* base + expert: the row-major index of an expert in slot_for_id.
flat_id(layer, expert) == layer * NumExperts + expert

IdleCall == [layer |-> 0, experts |-> {}, whole |-> FALSE, todo |-> {}]

\* The pool as the constructor, rebuild and reset leave it.
EmptyPool(n) ==
  /\ slotForId' = [id \in Ids |-> NoSlot]
  /\ idOfSlot' = [s \in 0 .. (n - 1) |-> NoId]
  /\ usage' = [s \in 0 .. (n - 1) |-> 0]
  /\ bank' = [s \in 0 .. (n - 1) |-> NoId]
  /\ step' = 0
  /\ pendingLayer' = NoLayer

Init ==
  /\ cacheSize \in CacheSizes
  /\ slotForId = [id \in Ids |-> NoSlot]
  /\ idOfSlot = [s \in Slots |-> NoId]
  /\ usage = [s \in Slots |-> 0]
  /\ step = 0
  /\ plan = <<>>
  /\ pendingLayer = NoLayer
  /\ bank = [s \in Slots |-> NoId]
  /\ pc = "idle"
  /\ call = IdleCall

(***************************************************************************)
(* materialize_layer (whole) and ensure_experts, up to the loop over the   *)
(* misses: bump the step and stamp the slots of the experts that hit.      *)
(***************************************************************************)
\* A bug: a hit keeps its old timestamp.
stamp_hits_never(layer, experts, now) == usage

stamp_hits(layer, experts, now) ==
  [s \in Slots |->
     IF \E e \in experts : slotForId[flat_id(layer, e)] = s THEN now ELSE usage[s]]

missing(layer, experts) == {e \in experts : slotForId[flat_id(layer, e)] = NoSlot}

start(layer, experts, whole) ==
  /\ pc = "idle"
  /\ step < MaxStep
  /\ step' = step + 1
  /\ usage' = stamp_hits(layer, experts, step + 1)
  /\ call' = [layer |-> layer, experts |-> experts, whole |-> whole,
              todo |-> missing(layer, experts)]
  /\ plan' = <<>>
  /\ pc' = "misses"
  /\ UNCHANGED <<cacheSize, slotForId, idOfSlot, pendingLayer, bank>>

materialize_layer(layer) == start(layer, Experts, TRUE)

\* ensure_experts refuses a pool of fewer than two slots.
ensure_experts(layer, experts) == cacheSize >= 2 /\ start(layer, experts, FALSE)

(***************************************************************************)
(* One miss: choose the slot, hand it over and stage the copy.             *)
(***************************************************************************)
\* min(range(S), key=(usage, slot)).
lru_slot(s) ==
  \A t \in Slots : usage[s] < usage[t] \/ (usage[s] = usage[t] /\ s <= t)

first_free_slot(s) ==
  idOfSlot[s] = NoId /\ \A t \in Slots : idOfSlot[t] = NoId => s <= t

\* materialize_layer looks for an empty slot first; ensure_experts does not.
victim(s) ==
  IF call.whole /\ \E t \in Slots : idOfSlot[t] = NoId
    THEN first_free_slot(s) ELSE lru_slot(s)

\* A bug: only a slot taken from another expert is scheduled for a copy.
staged_evicted_only(s, e) ==
  IF idOfSlot[s] = NoId THEN plan ELSE Append(plan, [slot |-> s, row |-> e])

staged(s, e) == Append(plan, [slot |-> s, row |-> e])

\* flat_slots[old_id] = -1, then layer_slots[expert] = victim.
moved(s, id) ==
  [i \in Ids |-> IF i = id THEN s
                 ELSE IF i = idOfSlot[s] THEN NoSlot ELSE slotForId[i]]

place_missing ==
  /\ pc = "misses"
  /\ \E e \in call.todo, s \in Slots :
       LET id == flat_id(call.layer, e)
       IN  /\ \A other \in call.todo : e <= other
           /\ victim(s)
           /\ slotForId' = moved(s, id)
           /\ idOfSlot' = [idOfSlot EXCEPT ![s] = id]
           /\ usage' = [usage EXCEPT ![s] = step]
           /\ plan' = staged(s, e)
           /\ call' = [call EXCEPT !.todo = @ \ {e}]
  /\ UNCHANGED <<cacheSize, step, pendingLayer, bank, pc>>

\* A bug: the rows of the other layers are not derived again.
resync_one_layer(ids) ==
  [id \in Ids |->
     LET holders == {s \in Slots : ids[s] = id}
     IN  IF holders = {} \/ id \div NumExperts # call.layer
           THEN NoSlot ELSE Max(holders)]

\* _resync_slot_for_id: slot_for_id derived from id_of_slot.
resync(ids) ==
  [id \in Ids |->
     LET holders == {s \in Slots : ids[s] = id}
     IN  IF holders = {} THEN NoSlot ELSE Max(holders)]

finish_misses ==
  /\ pc = "misses"
  /\ call.todo = {}
  /\ pendingLayer' = call.layer
  /\ slotForId' = resync(idOfSlot)
  /\ pc' = "copy"
  /\ UNCHANGED <<cacheSize, idOfSlot, usage, step, plan, bank, call>>

(***************************************************************************)
(* copy_missing: the staged rows of the pending layer, one after another.  *)
(* The device pool holds stale bytes for a staged slot until its copy.     *)
(***************************************************************************)
copy_row ==
  /\ pc = "copy"
  /\ plan # <<>>
  /\ bank' = [bank EXCEPT ![Head(plan).slot] =
                flat_id(pendingLayer, Head(plan).row)]
  /\ plan' = Tail(plan)
  /\ UNCHANGED <<cacheSize, slotForId, idOfSlot, usage, step, pendingLayer, pc,
                 call>>

copy_done ==
  /\ pc = "copy"
  /\ plan = <<>>
  /\ pendingLayer' = NoLayer
  /\ pc' = "gather"
  /\ UNCHANGED <<cacheSize, slotForId, idOfSlot, usage, step, plan, bank, call>>

\* The forward gathers the layer's weights from the pool and moves on.
gather ==
  /\ pc = "gather"
  /\ pc' = "idle"
  /\ call' = IdleCall
  /\ UNCHANGED <<cacheSize, slotForId, idOfSlot, usage, step, plan, pendingLayer,
                 bank>>

(***************************************************************************)
(* rebuild and reset, between forwards.                                    *)
(***************************************************************************)
\* A bug: the slot-indexed tensors keep their old size.
rebuild_size_only(n) ==
  /\ pc = "idle"
  /\ n # cacheSize
  /\ cacheSize' = n
  /\ slotForId' = [id \in Ids |-> NoSlot]
  /\ step' = 0
  /\ pendingLayer' = NoLayer
  /\ UNCHANGED <<idOfSlot, usage, bank, plan, pc, call>>

\* Engine.rebuild_cache resizes the pool only when the planned size changed.
rebuild(n) ==
  /\ pc = "idle"
  /\ n # cacheSize
  /\ cacheSize' = n
  /\ EmptyPool(n)
  /\ UNCHANGED <<plan, pc, call>>

\* A bug: the timestamps survive a reset.
reset_keeps_usage ==
  /\ pc = "idle"
  /\ slotForId' = [id \in Ids |-> NoSlot]
  /\ idOfSlot' = [s \in Slots |-> NoId]
  /\ bank' = [s \in Slots |-> NoId]
  /\ step' = 0
  /\ pendingLayer' = NoLayer
  /\ plan' = <<>>
  /\ UNCHANGED <<usage, cacheSize, pc, call>>

reset ==
  /\ pc = "idle"
  /\ EmptyPool(cacheSize)
  /\ plan' = <<>>
  /\ UNCHANGED <<cacheSize, pc, call>>

-----------------------------------------------------------------------------
\* A decode hands over the experts its tokens were routed to, less the ones the
\* hybrid backend computes on the CPU; that may leave none.
Forward ==
  \E layer \in Layers :
    \/ materialize_layer(layer)
    \/ \E experts \in SUBSET Experts : ensure_experts(layer, experts)

Rebuild == \E n \in CacheSizes : rebuild(n)

Next == Forward \/ place_missing \/ finish_misses \/ copy_row \/ copy_done
          \/ gather \/ Rebuild \/ reset

Spec == Init /\ [][Next]_vars

-----------------------------------------------------------------------------
(***************************************************************************)
(* Properties.                                                             *)
(***************************************************************************)
Row == [slot : Nat, row : Experts]

\* Every variable of the slot cache keeps its type.
TypeOK ==
  /\ cacheSize \in CacheSizes
  /\ slotForId \in [Ids -> Slots \union {NoSlot}]
  /\ idOfSlot \in [Slots -> Ids \union {NoId}]
  /\ usage \in [Slots -> Nat]
  /\ step \in Nat
  /\ plan \in Seq(Row)
  /\ pendingLayer \in Layers \union {NoLayer}
  /\ bank \in [Slots -> Ids \union {NoId}]
  /\ pc \in {"idle", "misses", "copy", "gather"}
  /\ call \in [layer : Layers, experts : SUBSET Experts, whole : BOOLEAN,
              todo : SUBSET Experts]

\* The two maps are inverse to each other ("the two must never disagree"), for
\* every layer and not only the one being forwarded.
MapsAgree ==
  \A id \in Ids, s \in Slots : slotForId[id] = s <=> idOfSlot[s] = id

\* Outside an unfinished copy a slot holds the weights of the expert the maps
\* give it to: no hit can ever be served from bytes of an earlier owner.
ResidentBytes ==
  pc \in {"idle", "gather"} =>
    \A s \in Slots : idOfSlot[s] # NoId => bank[s] = idOfSlot[s]

\* The gather finds every expert it asks for in the pool, with its own weights:
\* making one expert resident never throws out another one of the same call.
GatherReadsRightExpert ==
  pc = "gather" =>
    \A e \in call.experts :
      LET id == flat_id(call.layer, e)
      IN  slotForId[id] # NoSlot /\ bank[slotForId[id]] = id

\* An empty slot is older than every used one, so ensure_experts, which only
\* compares timestamps, never evicts while there is room -- just as
\* materialize_layer, which looks for an empty slot first.
RoomBeforeEviction ==
  \A s \in Slots : lru_slot(s) =>
    ((\E t \in Slots : idOfSlot[t] = NoId) <=> idOfSlot[s] = NoId)

\* The module docstring: "the double buffer owns slots below 2E, so it is never
\* evicted" by ensure_experts, which "touches only the slots at or above 2E".
DecodeSparesDoubleBuffer ==
  [][pc = "misses" /\ ~call.whole =>
       \A s \in Slots : s < 2 * NumExperts /\ idOfSlot[s] # NoId =>
                          idOfSlot'[s] = idOfSlot[s]]_vars

-----------------------------------------------------------------------------
(***************************************************************************)
(* The inductive invariant behind GatherReadsRightExpert.                  *)
(***************************************************************************)
\* The slots the current call has hit or filled.
Hot == {s \in Slots : usage[s] = step}

\* During a call exactly the finished experts are resident in hot slots.
Protected ==
  pc # "idle" =>
    /\ step > 0
    /\ call.todo \subseteq call.experts
    /\ \A s \in Hot : \E e \in call.experts \ call.todo :
         idOfSlot[s] = flat_id(call.layer, e)
    /\ \A e \in call.experts \ call.todo :
         /\ slotForId[flat_id(call.layer, e)] # NoSlot
         /\ usage[slotForId[flat_id(call.layer, e)]] = step
    /\ \A e \in call.todo : slotForId[flat_id(call.layer, e)] = NoSlot
    /\ pc # "misses" => call.todo = {}

Timestamps ==
  \A s \in Slots :
    /\ usage[s] <= step
    /\ (usage[s] = 0) <=> (idOfSlot[s] = NoId)

\* A staged row is the expert its slot was handed to.
Plan ==
  /\ \A i \in 1 .. Len(plan) :
       /\ pc \in {"misses", "copy"}
       /\ plan[i].slot \in Hot
       /\ idOfSlot[plan[i].slot] = flat_id(call.layer, plan[i].row)
  /\ pc = "copy" => pendingLayer = call.layer
  /\ \A s \in Slots :
       \/ idOfSlot[s] = NoId
       \/ bank[s] = idOfSlot[s]
       \/ \E i \in 1 .. Len(plan) : plan[i].slot = s

IInv == TypeOK /\ MapsAgree /\ Protected /\ Timestamps /\ Plan
=============================================================================
