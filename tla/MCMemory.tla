------------------------------- MODULE MCMemory -------------------------------
(*****************************************************************************)
(* What the device memory is spent on, for TLC: the budget that is split     *)
(* at the start (CacheBudget), the pool of expert slots it pays for          *)
(* (OffloadCache), and the slots of recurrent state with their snapshots     *)
(* (LinearState).                                                            *)
(*                                                                           *)
(* A behaviour exercises one of the three and the others rest, so that the   *)
(* states add up.                                                            *)
(*****************************************************************************)
EXTENDS OffloadCache, TLC

CONSTANTS
  Parts,         \* the parts a behaviour may exercise
  Requests,      \* of LinearState, interchangeable,
  Prompts,       \* what they may ask,
  Sampled,       \* what the model may answer,
  Opener,        \* the token of a tool call
  Ender,         \* and the one that ends a sequence,
  MaxTokens,
  MaxRunningReq,
  MaxExtend,
  PageSize,
  MaxAborts

VARIABLES
  part,
  linear_freeSlots, linear_state, linear_snapshots, linear_committed,
  linear_freeRows, linear_req, linear_aborts, linear_origin, linear_frozen,
  linear_lost,
  budget_config, budget_engine, budget_free, budget_rows, budget_alloc,
  budget_rebuilds

-----------------------------------------------------------------------------
RequestSymmetry == Permutations(Requests)

\* Two layers compete for a pool of exactly one layer, or of a slot more.
TightSizes == {NumExperts, NumExperts + 1}

\* Token 1 is an ordinary token, 2 the tool-call opener, 3 ends a sequence: a
\* short prompt, and one that repeats it with an opener and rewrites what
\* followed, which is two chunks behind the opener and three in all.
SomePrompts == {<<1>>, <<1, 2, 3, 1, 1>>}

\* A slot of 3 bytes, a token of 2, and devices from too small for anything to
\* more than enough.
Machine(vram, auto, rate, pin, reserve, experts, context, override, pageSize) ==
  [vram |-> vram, ratio |-> 90, auto |-> auto, rate |-> rate, pin |-> pin,
   reserve |-> reserve, experts |-> experts, moeLayers |-> 2, context |-> context,
   running |-> 2, override |-> override, pageSize |-> pageSize,
   intermediate |-> 1, hidden |-> 1, dtypeBytes |-> 1, layers |-> 1, kvHeads |-> 1,
   headDim |-> 1]

BudgetSizes == {-1, 8, 14, 23, 30, 41}

AutoConfigs ==
  {Machine(v, TRUE, r, 0, k, 3, 5, 0, 1) :
     v \in 8..41, r \in {0, 30, 60, 100}, k \in {1, 4}}

PinnedConfigs ==
  {Machine(v, a, 0, p, 4, e, c, o, 1) :
     v \in BudgetSizes, a \in BOOLEAN, p \in {1, 3, 5}, e \in {0, 3}, c \in {2, 4}, o \in {0, 6, 12}}
  \cup {Machine(v, FALSE, 0, 0, 4, 3, 4, 0, 1) : v \in BudgetSizes}

PagedConfigs == {Machine(41, FALSE, 0, 0, 4, 3, c, 0, 2) : c \in {2, 3}}

AllConfigs == AutoConfigs \cup PinnedConfigs \cup PagedConfigs

-----------------------------------------------------------------------------
Linear == INSTANCE LinearState WITH
  Anchor <- Opener, Eos <- Ender, PrefixCaching <- TRUE,
  freeSlots <- linear_freeSlots, state <- linear_state,
  snapshots <- linear_snapshots, committed <- linear_committed,
  freeRows <- linear_freeRows, req <- linear_req, aborts <- linear_aborts,
  origin <- linear_origin, frozen <- linear_frozen, lost <- linear_lost
Planned == INSTANCE CacheBudget WITH
  Configs <- AllConfigs, MaxRebuilds <- 2, config <- budget_config,
  engine <- budget_engine, free <- budget_free, rows <- budget_rows,
  alloc <- budget_alloc, rebuilds <- budget_rebuilds

linearStateVars ==
  <<linear_freeSlots, linear_state, linear_snapshots, linear_committed,
  linear_freeRows, linear_req, linear_aborts, linear_origin, linear_frozen,
  linear_lost>>
cacheBudgetVars ==
  <<budget_config, budget_engine, budget_free, budget_rows, budget_alloc,
  budget_rebuilds>>
allVars == <<part, vars, linearStateVars, cacheBudgetVars>>

ASSUME MemoryAssumption == Linear!LinearAssumption

\* One part is exercised; the others rest in one of their initial states.
SuiteInit ==
  /\ part \in Parts
  /\ Init
  /\ part # "experts" => cacheSize = NumExperts
  /\ Linear!Init
  /\ Planned!Init
  /\ part # "budget" => budget_config = CHOOSE c \in PinnedConfigs : TRUE

StepOffloadCache ==
  /\ part = "experts"
  /\ Next
  /\ UNCHANGED <<part, linearStateVars, cacheBudgetVars>>
StepLinearState ==
  /\ part = "states"
  /\ Linear!Next
  /\ UNCHANGED <<part, vars, cacheBudgetVars>>
StepCacheBudget ==
  /\ part = "budget"
  /\ Planned!Next
  /\ UNCHANGED <<part, vars, linearStateVars>>

\* A finite component may stop; the others may never block.
Stops ==
  /\ part \in {"experts", "states", "budget"}
  /\ UNCHANGED allVars

SuiteNext ==
  \/ StepOffloadCache
  \/ StepLinearState
  \/ StepCacheBudget
  \/ Stops

SuiteSpec == SuiteInit /\ [][SuiteNext]_allVars

-----------------------------------------------------------------------------
(***************************************************************************)
(* A slot of recurrent state has one owner.  A live state is what it       *)
(* started from and the request's own tokens, each folded in once; a       *)
(* snapshot is the state at the tool-call opener, and only the abort of    *)
(* the request that took it gives it away                                  *)
(* (engine/engine.py, kvcache/linear_state_pool.py).                       *)
(***************************************************************************)
StatesAreHistories ==
  /\ [](/\ Linear!TypeOK
        /\ Linear!ExclusiveSlots
        /\ Linear!FoldedExactly
        /\ Linear!SnapshotAtAnchor)
  /\ Linear!SnapshotFrozen

(***************************************************************************)
(* "clearing it here is enough to make the copy exactly-once for the       *)
(* request's lifetime" (engine/engine.py:841): no restore throws away what *)
(* the request has folded itself.                                          *)
(***************************************************************************)
RestoreKeepsTokens == Linear!TokensFoldedOnce

(***************************************************************************)
(* What is allocated stays in the budget, the page of slack included when  *)
(* the cache is pinned and without it when it is planned; the planner      *)
(* keeps both floors and leaves no slot out that would fit; an idle engine *)
(* has room for the context it serves; and the slots of the KV pool are    *)
(* nobody's twice and never lost, whatever is rebuilt while requests run   *)
(* (engine/cache_budget.py, engine/engine.py).                             *)
(***************************************************************************)
BudgetIsKept ==
  /\ Planned!TypeOK
  /\ Planned!PinnedBudgetKept
  /\ Planned!FloorsKept
  /\ Planned!CacheIsMaximal
  /\ Planned!ServedContextFits
  /\ Planned!UncappedPoolServesAll
  /\ Planned!PoolIsShared
=============================================================================
