------------------------------- MODULE MCPrefix -------------------------------
(*****************************************************************************)
(* The KV slots and the prefix caches, for TLC: the engine's bookkeeping     *)
(* of slots, rows and pages with the radix tree inside it (EngineKV), and    *)
(* on their own the radix cache (RadixCache) and the hybrid cache, whose     *)
(* nodes also hold recurrent state (HybridRadix), with evictions that        *)
(* other calls interrupt.                                                    *)
(*                                                                           *)
(* A behaviour exercises one of them and the others rest, so that the        *)
(* states add up.                                                            *)
(*****************************************************************************)
EXTENDS EngineKV, TLC

CONSTANTS
  Parts,   \* the parts a behaviour may exercise
  StateSlots  \* of HybridRadix

VARIABLES
  part,
  radix_tree, radix_clock, radix_locks, radix_evicting,
  hybrid_tree, hybrid_snap, hybrid_mref, hybrid_msize, hybrid_clock,
  hybrid_locks, hybrid_pool, hybrid_job

-----------------------------------------------------------------------------
RequestSymmetry == Permutations(Requests)

\* Prompts that repeat, extend and diverge from what earlier requests leave.
EnginePrompts == {<<1>>, <<1, 1>>, <<1, 2, 1>>}

\* The second prompt continues what a request for the first one may emit.
FollowUpPrompts == {<<1>>, <<1, 2, 1>>}

\* Page sequences over two pages that extend, share and diverge; a page is a
\* tuple of token ids, and so is a run of slots.
PagePrompts == {<< <<1>> >>,
                << <<1>>, <<1>>, <<1>> >>,
                << <<1>>, <<1>>, <<2>> >>,
                << <<1>>, <<2>> >>}
StatePrompts == {<<>>, << <<1>> >>, << <<1>>, <<1>>, <<1>> >>, << <<1>>, <<1>>, <<2>> >>}

-----------------------------------------------------------------------------
Tight == INSTANCE EngineKV WITH
  MaxRunningReq <- 1, MaxSeqLen <- 5, NumSlots <- 6, Prompts <- EnginePrompts,
  OutputLens <- {2}
Follow == INSTANCE EngineKV WITH
  MaxRunningReq <- 1, MaxSeqLen <- 4, NumSlots <- 8, Prompts <- FollowUpPrompts,
  OutputLens <- {1}
Radix == INSTANCE RadixCache WITH
  Prompts <- PagePrompts, SlotRuns <- {<<7>>, <<8>>}, MaxLocks <- 2,
  MaxClock <- 6, tree <- radix_tree, clock <- radix_clock, locks <- radix_locks,
  evicting <- radix_evicting
Hybrid == INSTANCE HybridRadix WITH
  Prompts <- StatePrompts, StateSlots <- StateSlots, MaxLocks <- 2,
  MaxClock <- 6, tree <- hybrid_tree, snap <- hybrid_snap, mref <- hybrid_mref,
  msize <- hybrid_msize, clock <- hybrid_clock, locks <- hybrid_locks,
  pool <- hybrid_pool, job <- hybrid_job

radixCacheVars ==
  <<radix_tree, radix_clock, radix_locks, radix_evicting>>
hybridRadixVars ==
  <<hybrid_tree, hybrid_snap, hybrid_mref, hybrid_msize, hybrid_clock,
  hybrid_locks, hybrid_pool, hybrid_job>>
allVars == <<part, vars, radixCacheVars, hybridRadixVars>>

\* One part is exercised; the others rest in one of their initial states.
SuiteInit ==
  /\ part \in Parts
  /\ \/ part \notin {"tight", "tail"} /\ Init
     \/ part = "tight" /\ Tight!Init
     \/ part = "tail" /\ Follow!Init
  /\ Radix!Init
  /\ Hybrid!HybridInit

StepEngineKV ==
  /\ \/ part = "engine" /\ Next
     \/ part = "tight" /\ Tight!Next
     \/ part = "tail" /\ Follow!Next
  /\ UNCHANGED <<part, radixCacheVars, hybridRadixVars>>
StepRadixCache ==
  /\ part = "radix"
  /\ Radix!Next
  /\ UNCHANGED <<part, vars, hybridRadixVars>>
StepHybridRadix ==
  /\ part = "hybrid"
  /\ Hybrid!HybridNext
  /\ UNCHANGED <<part, vars, radixCacheVars>>

\* A finite component may stop; the others may never block.
Stops ==
  /\ part \in {"engine", "tight", "tail", "radix", "hybrid"}
  /\ UNCHANGED allVars

SuiteNext ==
  \/ StepEngineKV
  \/ StepRadixCache
  \/ StepHybridRadix
  \/ Stops

SuiteSpec == SuiteInit /\ [][SuiteNext]_allVars

-----------------------------------------------------------------------------
(***************************************************************************)
(* A slot is free, in the tree or of one live row; a lock in the tree is a *)
(* handle of a live request; a request in the queue has its slots; and     *)
(* what allocate asks to evict can be evicted (engine/engine.py).          *)
(***************************************************************************)
SlotsAreOwned ==
  /\ part = "engine" =>
       /\ TypeOK
       /\ SlotOwnership
       /\ LocksAreHandles
       /\ EvictionPossible
       /\ QueuedHasSlots
  /\ part = "tight" => Tight!LocksAreHandles /\ Tight!EvictionPossible

(***************************************************************************)
(* A request's history is in the slots of its row, in order, and the       *)
(* prefix it reuses is pinned while it does, whoever frees, evicts, aborts *)
(* or finishes (engine/engine.py).                                         *)
(***************************************************************************)
HistoriesStay ==
  part = "engine" => ReusedPrefixPinned /\ HistoryIntact

\* Every token a row attends to has K/V that a forward wrote, "instead of a
\* fresh (garbage, never-written)" slot (engine/engine.py:652-655).
MatchedKvComputed == part = "tail" => Follow!KvComputed

(***************************************************************************)
(* The radix tree is a tree of page runs, its counters are the locks, its  *)
(* sizes what it holds, and evict always ends (kvcache/radix_cache.py).          *)
(***************************************************************************)
RadixTreeIsSound ==
  /\ Radix!TypeOK
  /\ Radix!TreeWellFormed
  /\ Radix!RefCountsAreLocks
  /\ Radix!SizeInfoAgrees
  /\ Radix!EvictNeverStuck

(***************************************************************************)
(* The radix tree does what a map from prefixes to slots with locks would; *)
(* a locked prefix of the hybrid tree keeps its pages and its snapshot     *)
(* through any eviction.                                                   *)
(***************************************************************************)
LockedPrefixesStay == Radix!ImplementsPrefixCache /\ Hybrid!LockedPrefixKept

(***************************************************************************)
(* Every leaf of the hybrid tree has a snapshot, both counters are the     *)
(* locks, the sizes are those of the tree, no slot of the state pool is    *)
(* lost, and an eviction takes all it may                                  *)
(* (kvcache/hybrid_radix_cache.py).                                        *)
(***************************************************************************)
HybridTreeIsSound ==
  /\ Hybrid!HybridTypeOK
  /\ Hybrid!LeafHasSnapshot
  /\ Hybrid!BothCountsAreLocks
  /\ Hybrid!SizesMatchTree
  /\ Hybrid!SlotsConserved
  /\ Hybrid!NothingLeftBehind
=============================================================================
