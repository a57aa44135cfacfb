------------------------------- MODULE CacheBudget -------------------------------
(***************************************************************************)
(* How the VRAM is divided between the expert slots and the KV pool        *)
(* (engine/cache_budget.py), the sizes Engine.__init__ takes from it, the  *)
(* rows of the page table that requests fill, and rebuild_cache, which     *)
(* plans again while requests run (engine/engine.py).  The pool of expert  *)
(* slots may also be resized by hand (OffloadMoeCache.rebuild), as the     *)
(* tests do.                                                               *)
(*                                                                         *)
(* Sizes are small numbers of bytes; a ratio is a percentage.  Prefix      *)
(* caching is off: EngineKV has it, with a pool that keeps its size.       *)
(***************************************************************************)
EXTENDS Integers, FiniteSets, FiniteSetsExt

CONSTANTS
  Configs,      \* configurations of the engine, its model and its device
  MaxRebuilds   \* bound on rebuild_cache and on resizes by hand

VARIABLES
  config,    \* the EngineConfig, the model's sizes and the device's VRAM
  engine,    \* phase, expert slots, whether they were resized by hand since
             \* they were planned, pages and context of the engine
  free,      \* MHAKVCache._free_slots
  rows,      \* page table: the slots of every row that a live request holds
  alloc,     \* MHAKVCache._alloc: row -> the slots allocated to it
  rebuilds

vars == <<config, engine, free, rows, alloc, rebuilds>>

None == -1

AtLeast(a, b) == IF a < b THEN b ELSE a
AtMost(a, b) == IF a < b THEN a ELSE b
CeilDiv(a, b) == (a + b - 1) \div b

SlotBytes(c) == 3 * c.intermediate * c.hidden * c.dtypeBytes
TokenBytes(c) == 2 * c.layers * c.kvHeads * c.headDim * c.dtypeBytes
Budget(c) == (c.vram * c.ratio) \div 100

-----------------------------------------------------------------------------

\* EngineConfig.__post_init__: a pin disables the planner.
Auto(c) == c.auto /\ c.pin = 0 /\ c.vram # None /\ c.experts > 0 /\ c.moeLayers > 0

FitsFloors(c) ==
  Budget(c) >= c.reserve * TokenBytes(c) + c.experts * SlotBytes(c)

\* plan_cache_budget: the expert cache takes what the KV floor leaves, or the
\* share of it the operator grants, and the KV pool takes the rest.
PlannedSlots(c) ==
  LET left  == Budget(c) - c.reserve * TokenBytes(c)
      share == IF c.rate > 0 THEN AtMost(left, (Budget(c) * c.rate) \div 100) ELSE left
  IN  AtLeast(c.experts, share \div SlotBytes(c))

PlannedPages(c) ==
  AtLeast(c.reserve, (Budget(c) - PlannedSlots(c) * SlotBytes(c)) \div TokenBytes(c))

\* The slots load_model gives the offload cache: a pin that cannot hold a
\* layer's experts falls back to the conventional size.
LoaderSlots(c, planned) ==
  IF c.experts = 0 THEN 0
  ELSE IF planned >= c.experts THEN planned
  ELSE c.experts + AtLeast(2, c.moeLayers)

\* resolve_served_context_len
ServedContext(context, pages) == IF pages = None THEN context ELSE AtMost(context, pages)

\* A bug: the page of slack is not set aside.
PinnedFitSlip(c) ==
  (Budget(c) - LoaderSlots(c, c.pin) * SlotBytes(c)) \div TokenBytes(c)

\* check_pinned_kv_fit: the pages that fit beside the pinned expert cache and
\* the page of slack.  It is not positive when not even one does.
PinnedFit(c) ==
  LET left == Budget(c) - LoaderSlots(c, c.pin) * SlotBytes(c)
  IN  AtLeast(0, left) \div TokenBytes(c) - 1

\* The override is a floor under what the running requests need.
Demand(c) == AtLeast(c.override, c.running * c.context)

PinnedPages(c) == IF c.vram = None THEN Demand(c) ELSE AtMost(Demand(c), PinnedFit(c))

PinnedContext(c) ==
  IF PinnedPages(c) < Demand(c) THEN ServedContext(c.context, PinnedPages(c)) ELSE c.context

Fits(c) ==
  IF Auto(c) THEN FitsFloors(c) ELSE c.vram = None \/ PinnedFit(c) > 0

\* The page of slack for the pool's reserved slot 0.
WithSlack(pages) == pages + 1

AllSlots(c, pages) == 1..pages * c.pageSize - 1

\* The size rebuild_cache asks of the expert pool; 0 leaves it as it is.
PlannedOrPinned(c) == IF Auto(c) THEN PlannedSlots(c) ELSE c.pin

NoRows == [row \in {} |-> {}]

-----------------------------------------------------------------------------

Init ==
  /\ config \in Configs
  /\ engine = [phase |-> "new", slots |-> 0, byHand |-> FALSE, pages |-> 0, context |-> 0]
  /\ free = {}
  /\ rows = NoRows
  /\ alloc = NoRows
  /\ rebuilds = 0

\* Engine.__init__
Start ==
  /\ engine.phase = "new"
  /\ Fits(config)
  /\ LET pages == IF Auto(config) THEN PlannedPages(config) ELSE PinnedPages(config)
     IN  /\ engine' = [phase   |-> "serving",
                       slots   |-> LoaderSlots(config, IF Auto(config) THEN PlannedSlots(config)
                                                       ELSE config.pin),
                       byHand  |-> FALSE,
                       pages   |-> WithSlack(pages),
                       context |-> IF Auto(config) THEN ServedContext(config.context, pages)
                                   ELSE PinnedContext(config)]
         /\ free' = AllSlots(config, WithSlack(pages))
  /\ UNCHANGED <<config, rows, alloc, rebuilds>>

\* One of the fit asserts raises.
StartFails ==
  /\ engine.phase = "new"
  /\ ~Fits(config)
  /\ engine' = [engine EXCEPT !.phase = "refused"]
  /\ UNCHANGED <<config, free, rows, alloc, rebuilds>>

RowSlots == CeilDiv(engine.context, config.pageSize) * config.pageSize

\* The free list is sorted and served from the front.
FirstFree(n) == {s \in free : Cardinality({t \in free : t < s}) < n}

\* The function with one more row, or a new value for it.
WithRow(f, row, slots) == [r \in DOMAIN f \cup {row} |-> IF r = row THEN slots ELSE f[r]]
WithoutRow(f, row) == [r \in DOMAIN f \ {row} |-> f[r]]

\* _allocate_slot, for a row the scheduler has just handed out: whole pages are
\* allocated, and the first context of their slots are its page-table row.
AddRequest(row) ==
  /\ engine.phase = "serving"
  /\ row \notin DOMAIN rows \cup DOMAIN alloc
  /\ RowSlots <= Cardinality(free)
  /\ rows' = WithRow(rows, row, FirstFree(engine.context))
  /\ alloc' = WithRow(alloc, row, FirstFree(RowSlots))
  /\ free' = free \ FirstFree(RowSlots)
  /\ UNCHANGED <<config, engine, rebuilds>>

\* The request finishes or is aborted: _free_slot returns what the pool has
\* allocated to the row, which is nothing if it was made after the row was.
Finish(row) ==
  /\ row \in DOMAIN rows
  /\ rows' = WithoutRow(rows, row)
  /\ alloc' = WithoutRow(alloc, row)
  /\ free' = free \cup (IF row \in DOMAIN alloc THEN alloc[row] ELSE {})
  /\ UNCHANGED <<config, engine, rebuilds>>

\* OffloadMoeCache.rebuild, called by hand with a size that it takes.
ResizeExperts ==
  /\ engine.phase = "serving"
  /\ config.experts > 0
  /\ rebuilds < MaxRebuilds
  /\ \E n \in {config.experts, engine.slots + 1} :
       engine' = [engine EXCEPT !.slots = n, !.byHand = TRUE]
  /\ rebuilds' = rebuilds + 1
  /\ UNCHANGED <<config, free, rows, alloc>>

CanRebuild ==
  /\ engine.phase = "serving"
  /\ rebuilds < MaxRebuilds
  /\ config.vram # None /\ config.experts > 0
  /\ rebuilds' = rebuilds + 1

ResizeIsRefused == PlannedOrPinned(config) \notin {0, engine.slots}
                   /\ PlannedOrPinned(config) < config.experts

\* rebuild_cache plans from the device's total VRAM, which has not changed.  It
\* compares the planned pages with a pool that has the slack page on top, so in
\* auto mode it makes a new pool every time; that pool and the new page table
\* know nothing of the rows that are live.
RebuildCache ==
  /\ CanRebuild
  /\ ~ResizeIsRefused
  /\ LET size  == PlannedOrPinned(config)
         remake == Auto(config) /\ PlannedPages(config) # engine.pages
     IN  /\ engine' = [engine EXCEPT !.slots = IF size = 0 THEN @ ELSE size,
                                     !.byHand = @ /\ size = 0,
                                     !.pages = IF remake THEN WithSlack(PlannedPages(config)) ELSE @]
         /\ IF remake
            THEN /\ free' = AllSlots(config, WithSlack(PlannedPages(config)))
                 /\ rows' = [r \in DOMAIN rows |-> {0}]
                 /\ alloc' = NoRows
            ELSE UNCHANGED <<free, rows, alloc>>
  /\ UNCHANGED config

\* A pin that is too small for a layer, which the loader has passed over, makes
\* OffloadMoeCache.rebuild raise before anything is replaced.
RebuildRaises ==
  /\ CanRebuild
  /\ ResizeIsRefused
  /\ UNCHANGED <<config, engine, free, rows, alloc>>

Next ==
  \/ Start
  \/ StartFails
  \/ \E row \in 1..config.running : AddRequest(row) \/ Finish(row)
  \/ ResizeExperts
  \/ RebuildCache
  \/ RebuildRaises

Spec == Init /\ [][Next]_vars

-----------------------------------------------------------------------------

Serving == engine.phase = "serving"

TypeOK ==
  /\ engine.phase \in {"new", "serving", "refused"}
  /\ Serving => engine.context \in 1..config.context /\ engine.pages > 1
  /\ free \subseteq AllSlots(config, engine.pages)
  /\ DOMAIN alloc \subseteq DOMAIN rows

(***************************************************************************)
(* The two pools together stay inside the addressable VRAM, the page of    *)
(* slack included ("raise rather than silently over-allocating",           *)
(* engine/cache_budget.py).                                                *)
(***************************************************************************)
BudgetKept ==
  Serving /\ config.vram # None /\ ~engine.byHand =>
    engine.slots * SlotBytes(config) + engine.pages * config.pageSize * TokenBytes(config)
      <= Budget(config)

(***************************************************************************)
(* Without the planner a pinned cache and the KV pool fit, the page of     *)
(* slack included, when a page is a token (check_pinned_kv_fit), also      *)
(* after a rebuild.                                                        *)
(***************************************************************************)
PinnedBudgetKept == ~Auto(config) /\ config.pageSize = 1 => BudgetKept

(***************************************************************************)
(* However the operator steers the split, the planner gives the KV pool    *)
(* its reserve and the expert cache a whole layer, out of one budget; the  *)
(* page of slack that Engine.__init__ and _rebuild_kv_pool add is the only *)
(* thing beyond it, and a rebuild does not add another.                    *)
(***************************************************************************)
FloorsKept ==
  Serving /\ Auto(config) /\ ~engine.byHand =>
    /\ engine.pages > config.reserve /\ engine.slots >= config.experts
    /\ engine.slots * SlotBytes(config) + (engine.pages - 1) * TokenBytes(config)
         <= Budget(config)

(***************************************************************************)
(* The expert cache is as large as the KV reserve and the operator's share *)
(* allow: one slot more would break one of the two.                        *)
(***************************************************************************)
CacheIsMaximal ==
  Serving /\ Auto(config) /\ ~engine.byHand =>
    LET more == (engine.slots + 1) * SlotBytes(config)
    IN  \/ more + config.reserve * TokenBytes(config) > Budget(config)
        \/ config.rate > 0 /\ more > (Budget(config) * config.rate) \div 100

(***************************************************************************)
(* An idle engine can admit a request of the context it says it serves:    *)
(* the cap allows for the reserved slot and for whole pages.               *)
(***************************************************************************)
ServedContextFits == Serving /\ DOMAIN rows = {} => RowSlots <= Cardinality(free)

(***************************************************************************)
(* Without the planner and without a cap, a row for each of the running    *)
(* requests finds its slots, in whatever order they come and go.           *)
(***************************************************************************)
UncappedPoolServesAll ==
  Serving /\ ~Auto(config) /\ engine.context = config.context
          /\ (config.vram = None \/ PinnedFit(config) >= Demand(config)) =>
    (Cardinality(DOMAIN rows) < config.running => RowSlots <= Cardinality(free))

(***************************************************************************)
(* Whole pages go out and come back, over admissions, ends and rebuilds    *)
(* with live rows: every slot of the pool is free or allocated to one row. *)
(* A row the pool knows has slots of its own; one from before a rebuild is *)
(* left with the reserved slot 0, and takes nothing along when it ends.    *)
(***************************************************************************)
PoolIsShared ==
  Serving =>
    /\ AllSlots(config, engine.pages) = free \cup UNION {alloc[r] : r \in DOMAIN alloc}
    /\ \A r \in DOMAIN alloc :
         /\ alloc[r] \cap free = {}
         /\ \A s \in DOMAIN alloc \ {r} : alloc[r] \cap alloc[s] = {}
    /\ \A r \in DOMAIN rows :
         IF r \in DOMAIN alloc
         THEN rows[r] \subseteq alloc[r] /\ Cardinality(rows[r]) = engine.context
         ELSE rows[r] = {0}

(***************************************************************************)
(* "In-flight requests already own their page slots; only the budget that  *)
(* bounds new admission changes" (a comment in _rebuild_kv_pool): the      *)
(* slots of a live row are its own, also after the pools were rebuilt.     *)
(***************************************************************************)
LiveRowsOwnSlots ==
  \A r \in DOMAIN rows :
    /\ rows[r] \cap free = {}
    /\ Cardinality(rows[r]) = engine.context
    /\ \A s \in DOMAIN rows \ {r} : rows[r] \cap rows[s] = {}
=============================================================================
