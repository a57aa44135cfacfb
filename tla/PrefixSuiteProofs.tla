--------------------------- MODULE PrefixSuiteProofs ---------------------------
(***************************************************************************)
(* What the prefix run checks, proved: the engine's slots and histories    *)
(* and the trees of the radix cache and of the hybrid cache, for every     *)
(* number of requests, rows, slots and positions.                          *)
(*                                                                         *)
(* The lemmas and invariants are those of EngineKVProofs and of            *)
(* PrefixCacheProofs, instantiated as MCPrefix instantiates the modules    *)
(* they are about.                                                         *)
(***************************************************************************)
EXTENDS MCPrefix, EngineKVProofs

Short == INSTANCE EngineKVProofs WITH
  MaxRunningReq <- 1, MaxSeqLen <- 5, NumSlots <- 6, Prompts <- EnginePrompts,
  OutputLens <- {2}
Cache == INSTANCE PrefixCacheProofs WITH
  Prompts <- PagePrompts, SlotRuns <- {<<7>>, <<8>>}, MaxLocks <- 2,
  MaxClock <- 6, tree <- radix_tree, clock <- radix_clock, locks <- radix_locks,
  evicting <- radix_evicting, snap <- hybrid_snap, mref <- hybrid_mref,
  msize <- hybrid_msize, pool <- hybrid_pool, job <- hybrid_job
States == INSTANCE PrefixCacheProofs WITH
  Prompts <- StatePrompts, SlotRuns <- {<<7>>, <<8>>}, MaxLocks <- 2,
  MaxClock <- 6, tree <- hybrid_tree, snap <- hybrid_snap, mref <- hybrid_mref,
  msize <- hybrid_msize, clock <- hybrid_clock, locks <- hybrid_locks,
  pool <- hybrid_pool, job <- hybrid_job, evicting <- radix_evicting

-----------------------------------------------------------------------------
(***************************************************************************)
(* The instances read alike: what Radix, Hybrid and Tight say, Cache,      *)
(* States and Short do.                                                    *)
(***************************************************************************)
\* The operations of the radix tree are the same in Radix and Cache.
LEMMA SameCacheTree ==
  /\ \A t, p : Radix!matched_path(t, p) = Cache!matched_path(t, p)
  /\ \A t, p, c : Radix!tree_walk(t, p, c) = Cache!tree_walk(t, p, c)
  /\ \A t, q : Radix!lock_handle(t, q) = Cache!lock_handle(t, q)
  /\ \A t, q : Radix!unlock_handle(t, q) = Cache!unlock_handle(t, q)
  /\ \A t, p : Radix!matched_pages(t, p) = Cache!matched_pages(t, p)
  /\ \A t, p, s, c : Radix!insert_prefix(t, p, s, c) = Cache!insert_prefix(t, p, s, c)
  /\ \A t, n : Radix!lru_leaf(t, n) <=> Cache!lru_leaf(t, n)
  /\ \A t, n : Radix!drop_leaf(t, n) = Cache!drop_leaf(t, n)
  /\ \A t, n : Radix!node_length(t, n) = Cache!node_length(t, n)
  /\ \A t, n : Radix!leaf_slots(t, n) = Cache!leaf_slots(t, n)
  /\ \A t : Radix!SizesAgree(t) <=> Cache!SizesAgree(t)
  /\ \A t : Radix!evict_candidates(t) = Cache!evict_candidates(t)
  /\ \A t : Radix!nodes(t) = Cache!nodes(t)
<1>1. \A t, p : Radix!matched_path(t, p) = Cache!matched_path(t, p)
  BY ZenonT(60) DEF Radix!matched_path, Cache!matched_path, Radix!matched_pages,
      Cache!matched_pages, Radix!Max, Cache!Max
<1>2. \A t, p, c : Radix!tree_walk(t, p, c) = Cache!tree_walk(t, p, c)
  <2>1. /\ Radix!Root = Cache!Root
        /\ \A t : Radix!nodes(t) = Cache!nodes(t)
        /\ \A p, q : Radix!IsPrefix(p, q) <=> Cache!IsPrefix(p, q)
    BY ZenonT(60) DEF Radix!Root, Cache!Root, Radix!nodes, Cache!nodes, Radix!IsPrefix, Cache!IsPrefix
  <2>2. \A p, q : Radix!IsStrictPrefix(p, q) <=> Cache!IsStrictPrefix(p, q)
    BY <2>1 DEF Radix!IsStrictPrefix, Cache!IsStrictPrefix
  <2>3. \A t, p : Radix!matched_pages(t, p) = Cache!matched_pages(t, p)
    BY ZenonT(60) DEF Radix!matched_pages, Cache!matched_pages, Radix!Max, Cache!Max
  <2>4. \A t, p : Radix!split_ref(t, p) = Cache!split_ref(t, p)
    BY <2>1, <2>2, ZenonT(60) DEF Radix!split_ref, Cache!split_ref
  <2> TAKE t, p, c
  <2> QED
    BY <2>1, <2>2, <2>3, <2>4, ZenonT(60) DEF Radix!tree_walk, Cache!tree_walk
<1>3. \A t, q : Radix!lock_handle(t, q) = Cache!lock_handle(t, q)
  BY ZenonT(60) DEF Radix!lock_handle, Cache!lock_handle, Radix!nodes, Cache!nodes, Radix!IsPrefix,
      Cache!IsPrefix, Radix!path_tokens, Cache!path_tokens, Radix!tokens, Cache!tokens,
      Radix!ancestors, Cache!ancestors, Radix!Cardinality, Cache!Cardinality,
      Radix!edges, Cache!edges, Radix!edge, Cache!edge
<1>4. \A t, q : Radix!unlock_handle(t, q) = Cache!unlock_handle(t, q)
  BY ZenonT(60) DEF Radix!unlock_handle, Cache!unlock_handle, Radix!nodes, Cache!nodes,
      Radix!IsPrefix, Cache!IsPrefix, Radix!path_tokens, Cache!path_tokens,
      Radix!tokens, Cache!tokens, Radix!ancestors, Cache!ancestors, Radix!Cardinality,
      Cache!Cardinality, Radix!edges, Cache!edges, Radix!edge, Cache!edge
<1>5. \A t, p : Radix!matched_pages(t, p) = Cache!matched_pages(t, p)
  BY ZenonT(60) DEF Radix!matched_pages, Cache!matched_pages, Radix!Max, Cache!Max
<1>6. \A t, p, s, c : Radix!insert_prefix(t, p, s, c) = Cache!insert_prefix(t, p, s, c)
  <2>1. /\ Radix!Root = Cache!Root
        /\ \A t : Radix!nodes(t) = Cache!nodes(t)
        /\ \A p : Radix!Prefixes(p) = Cache!Prefixes(p)
    BY ZenonT(60) DEF Radix!Root, Cache!Root, Radix!nodes, Cache!nodes, Radix!Prefixes, Cache!Prefixes
  <2>2. \A t, p : Radix!matched_pages(t, p) = Cache!matched_pages(t, p)
    BY ZenonT(60) DEF Radix!matched_pages, Cache!matched_pages, Radix!Max, Cache!Max
  <2> TAKE t, p, s, c
  <2> QED
    BY <1>2, <2>1, <2>2, ZenonT(60) DEF Radix!insert_prefix, Cache!insert_prefix
<1>7. \A t, n : Radix!lru_leaf(t, n) <=> Cache!lru_leaf(t, n)
  BY ZenonT(60) DEF Radix!lru_leaf, Cache!lru_leaf, Radix!evict_candidates, Cache!evict_candidates,
      Radix!nodes, Cache!nodes, Radix!is_leaf, Cache!is_leaf, Radix!IsStrictPrefix,
      Cache!IsStrictPrefix, Radix!IsPrefix, Cache!IsPrefix
<1>8. \A t, n : Radix!drop_leaf(t, n) = Cache!drop_leaf(t, n)
  BY ZenonT(60) DEF Radix!drop_leaf, Cache!drop_leaf, Radix!edge, Cache!edge, Radix!nodes,
      Cache!nodes, Radix!node_length, Cache!node_length, Radix!IsPrefix, Cache!IsPrefix,
      Radix!ancestors, Cache!ancestors, Radix!Cardinality, Cache!Cardinality
<1>9. \A t, n : Radix!node_length(t, n) = Cache!node_length(t, n)
  BY ZenonT(60) DEF Radix!node_length, Cache!node_length, Radix!Cardinality, Cache!Cardinality,
      Radix!edge, Cache!edge, Radix!IsPrefix, Cache!IsPrefix, Radix!ancestors,
      Cache!ancestors, Radix!nodes, Cache!nodes
<1>10. \A t, n : Radix!leaf_slots(t, n) = Cache!leaf_slots(t, n)
  BY ZenonT(60) DEF Radix!leaf_slots, Cache!leaf_slots, Radix!Range, Cache!Range, Radix!edge,
      Cache!edge, Radix!IsPrefix, Cache!IsPrefix, Radix!ancestors, Cache!ancestors,
      Radix!nodes, Cache!nodes
<1>11. \A t : Radix!SizesAgree(t) <=> Cache!SizesAgree(t)
  BY ZenonT(60) DEF Radix!SizesAgree, Cache!SizesAgree, Radix!tokens, Cache!tokens, Radix!nodes,
      Cache!nodes, Radix!Cardinality, Cache!Cardinality, Radix!edges, Cache!edges,
      Radix!edge, Cache!edge, Radix!IsPrefix, Cache!IsPrefix, Radix!ancestors,
      Cache!ancestors
<1>12. \A t : Radix!evict_candidates(t) = Cache!evict_candidates(t)
  BY ZenonT(60) DEF Radix!evict_candidates, Cache!evict_candidates, Radix!nodes, Cache!nodes,
      Radix!is_leaf, Cache!is_leaf, Radix!IsStrictPrefix, Cache!IsStrictPrefix,
      Radix!IsPrefix, Cache!IsPrefix
<1>13. \A t : Radix!nodes(t) = Cache!nodes(t)
  BY ZenonT(60) DEF Radix!nodes, Cache!nodes
<1> QED
  BY <1>1, <1>2, <1>3, <1>4, <1>5, <1>6, <1>7, <1>8, <1>9, <1>10, <1>11, <1>12, <1>13

\* The radix cache begins alike.
LEMMA SameCacheInit ==
  ASSUME Radix!Init
  PROVE  Cache!Init
  BY SameCacheTree, ZenonT(60) DEF Radix!Init, Cache!Init, Radix!EmptyTree, Cache!EmptyTree,
      Radix!Paths, Cache!Paths, Radix!Prefixes, Cache!Prefixes

\* The radix cache moves alike.
LEMMA SameCacheNext ==
  ASSUME Radix!Next
  PROVE  Cache!Next
  BY SameCacheTree, ZenonT(60) DEF Radix!Next, Cache!Next, Radix!match_and_lock,
      Cache!match_and_lock, Radix!Paths, Cache!Paths, Radix!unlock, Cache!unlock,
      Radix!commit, Cache!commit, Radix!evict, Cache!evict, Radix!evict_pop,
      Cache!evict_pop, Radix!reset, Cache!reset, Radix!Cardinality, Cache!Cardinality,
      Radix!handles, Cache!handles, Radix!Prefixes, Cache!Prefixes, Radix!Max,
      Cache!Max, Radix!EmptyTree, Cache!EmptyTree

\* The properties of the radix cache say the same.
LEMMA SameCacheProperties ==
  ASSUME Cache!TypeOK,
         Cache!TreeWellFormed,
         Cache!RefCountsAreLocks,
         Cache!SizeInfoAgrees,
         Cache!EvictNeverStuck
  PROVE  RadixTreeIsSound
  BY SameCacheTree, ZenonT(60) DEF RadixTreeIsSound, Radix!TypeOK, Cache!TypeOK, Radix!Paths,
      Cache!Paths, Radix!Root, Cache!Root, Radix!Prefixes, Cache!Prefixes,
      Radix!TreeWellFormed, Cache!TreeWellFormed, Radix!WellFormed, Cache!WellFormed,
      Radix!Front, Cache!Front, Radix!IsPrefix, Cache!IsPrefix, Radix!Cardinality,
      Cache!Cardinality, Radix!RefCountsAreLocks, Cache!RefCountsAreLocks,
      Radix!handles, Cache!handles, Radix!SizeInfoAgrees, Cache!SizeInfoAgrees,
      Radix!EvictNeverStuck, Cache!EvictNeverStuck

\* The operations of the radix tree are the same in Hybrid and States.
LEMMA SameHybridTree ==
  /\ \A t, p : Hybrid!matched_path(t, p) = States!matched_path(t, p)
  /\ \A t, p, c : Hybrid!tree_walk(t, p, c) = States!tree_walk(t, p, c)
  /\ \A t, q : Hybrid!lock_handle(t, q) = States!lock_handle(t, q)
  /\ \A t, q : Hybrid!unlock_handle(t, q) = States!unlock_handle(t, q)
  /\ \A t, p, s, c : Hybrid!insert_prefix(t, p, s, c) = States!insert_prefix(t, p, s, c)
  /\ \A t : Hybrid!SizesAgree(t) <=> States!SizesAgree(t)
  /\ \A t : Hybrid!evict_candidates(t) = States!evict_candidates(t)
  /\ \A t : Hybrid!nodes(t) = States!nodes(t)
  /\ \A t, q : Hybrid!ancestors(t, q) = States!ancestors(t, q)
  /\ \A t, n : Hybrid!is_leaf(t, n) <=> States!is_leaf(t, n)
  /\ \A t, ns : Hybrid!edges(t, ns) = States!edges(t, ns)
  /\ \A t, ns : Hybrid!tokens(t, ns) = States!tokens(t, ns)
  /\ \A l : Hybrid!handles(l) = States!handles(l)
<1>1. \A t, p : Hybrid!matched_path(t, p) = States!matched_path(t, p)
  BY ZenonT(60) DEF Hybrid!matched_path, States!matched_path, Hybrid!matched_pages,
      States!matched_pages, Hybrid!Max, States!Max
<1>2. \A t, p, c : Hybrid!tree_walk(t, p, c) = States!tree_walk(t, p, c)
  <2>1. /\ Hybrid!Root = States!Root
        /\ \A t : Hybrid!nodes(t) = States!nodes(t)
        /\ \A p, q : Hybrid!IsPrefix(p, q) <=> States!IsPrefix(p, q)
    BY ZenonT(60) DEF Hybrid!Root, States!Root, Hybrid!nodes, States!nodes, Hybrid!IsPrefix, States!IsPrefix
  <2>2. \A p, q : Hybrid!IsStrictPrefix(p, q) <=> States!IsStrictPrefix(p, q)
    BY <2>1 DEF Hybrid!IsStrictPrefix, States!IsStrictPrefix
  <2>3. \A t, p : Hybrid!matched_pages(t, p) = States!matched_pages(t, p)
    BY ZenonT(60) DEF Hybrid!matched_pages, States!matched_pages, Hybrid!Max, States!Max
  <2>4. \A t, p : Hybrid!split_ref(t, p) = States!split_ref(t, p)
    BY <2>1, <2>2, ZenonT(60) DEF Hybrid!split_ref, States!split_ref
  <2> TAKE t, p, c
  <2> QED
    BY <2>1, <2>2, <2>3, <2>4, ZenonT(60) DEF Hybrid!tree_walk, States!tree_walk
<1>3. \A t, q : Hybrid!lock_handle(t, q) = States!lock_handle(t, q)
  BY ZenonT(60) DEF Hybrid!lock_handle, States!lock_handle, Hybrid!nodes, States!nodes,
      Hybrid!IsPrefix, States!IsPrefix, Hybrid!path_tokens, States!path_tokens,
      Hybrid!tokens, States!tokens, Hybrid!ancestors, States!ancestors,
      Hybrid!Cardinality, States!Cardinality, Hybrid!edges, States!edges, Hybrid!edge,
      States!edge
<1>4. \A t, q : Hybrid!unlock_handle(t, q) = States!unlock_handle(t, q)
  BY ZenonT(60) DEF Hybrid!unlock_handle, States!unlock_handle, Hybrid!nodes, States!nodes,
      Hybrid!IsPrefix, States!IsPrefix, Hybrid!path_tokens, States!path_tokens,
      Hybrid!tokens, States!tokens, Hybrid!ancestors, States!ancestors,
      Hybrid!Cardinality, States!Cardinality, Hybrid!edges, States!edges, Hybrid!edge,
      States!edge
<1>5. \A t, p, s, c : Hybrid!insert_prefix(t, p, s, c) = States!insert_prefix(t, p, s, c)
  <2>1. /\ Hybrid!Root = States!Root
        /\ \A t : Hybrid!nodes(t) = States!nodes(t)
        /\ \A p : Hybrid!Prefixes(p) = States!Prefixes(p)
    BY ZenonT(60) DEF Hybrid!Root, States!Root, Hybrid!nodes, States!nodes, Hybrid!Prefixes, States!Prefixes
  <2>2. \A t, p : Hybrid!matched_pages(t, p) = States!matched_pages(t, p)
    BY ZenonT(60) DEF Hybrid!matched_pages, States!matched_pages, Hybrid!Max, States!Max
  <2> TAKE t, p, s, c
  <2> QED
    BY <1>2, <2>1, <2>2, ZenonT(60) DEF Hybrid!insert_prefix, States!insert_prefix
<1>6. \A t : Hybrid!SizesAgree(t) <=> States!SizesAgree(t)
  BY ZenonT(60) DEF Hybrid!SizesAgree, States!SizesAgree, Hybrid!tokens, States!tokens,
      Hybrid!nodes, States!nodes, Hybrid!Cardinality, States!Cardinality, Hybrid!edges,
      States!edges, Hybrid!edge, States!edge, Hybrid!IsPrefix, States!IsPrefix,
      Hybrid!ancestors, States!ancestors
<1>7. \A t : Hybrid!evict_candidates(t) = States!evict_candidates(t)
  BY ZenonT(60) DEF Hybrid!evict_candidates, States!evict_candidates, Hybrid!nodes, States!nodes,
      Hybrid!is_leaf, States!is_leaf, Hybrid!IsStrictPrefix, States!IsStrictPrefix,
      Hybrid!IsPrefix, States!IsPrefix
<1>8. \A t : Hybrid!nodes(t) = States!nodes(t)
  BY ZenonT(60) DEF Hybrid!nodes, States!nodes
<1>9. \A t, q : Hybrid!ancestors(t, q) = States!ancestors(t, q)
  BY ZenonT(60) DEF Hybrid!ancestors, States!ancestors, Hybrid!nodes, States!nodes,
      Hybrid!IsPrefix, States!IsPrefix
<1>10. \A t, n : Hybrid!is_leaf(t, n) <=> States!is_leaf(t, n)
  BY ZenonT(60) DEF Hybrid!is_leaf, States!is_leaf, Hybrid!nodes, States!nodes,
      Hybrid!IsStrictPrefix, States!IsStrictPrefix, Hybrid!IsPrefix, States!IsPrefix
<1>11. \A t, ns : Hybrid!edges(t, ns) = States!edges(t, ns)
  BY ZenonT(60) DEF Hybrid!edges, States!edges, Hybrid!edge, States!edge, Hybrid!IsPrefix,
      States!IsPrefix, Hybrid!ancestors, States!ancestors, Hybrid!nodes, States!nodes
<1>12. \A t, ns : Hybrid!tokens(t, ns) = States!tokens(t, ns)
  BY ZenonT(60) DEF Hybrid!tokens, States!tokens, Hybrid!Cardinality, States!Cardinality,
      Hybrid!edges, States!edges, Hybrid!edge, States!edge, Hybrid!IsPrefix,
      States!IsPrefix, Hybrid!ancestors, States!ancestors, Hybrid!nodes, States!nodes
<1>13. \A l : Hybrid!handles(l) = States!handles(l)
  BY ZenonT(60) DEF Hybrid!handles, States!handles
<1> QED
  BY <1>1, <1>2, <1>3, <1>4, <1>5, <1>6, <1>7, <1>8, <1>9, <1>10, <1>11, <1>12, <1>13

\* The hybrid cache begins alike.
LEMMA SameHybridInit ==
  ASSUME Hybrid!HybridInit
  PROVE  States!HybridInit
  BY SameHybridTree, ZenonT(60) DEF Hybrid!HybridInit, States!HybridInit, Hybrid!EmptyTree, States!EmptyTree,
      Hybrid!Paths, States!Paths, Hybrid!Idle, States!Idle, Hybrid!Prefixes,
      States!Prefixes

\* The hybrid cache takes the step match_and_lock alike.
LEMMA SameHybridMatchAndLock ==
  ASSUME NEW p, Hybrid!match_prefix(p)
  PROVE  States!match_prefix(p)
<1>1. \A x : Hybrid!snapshot_boundary(x) = States!snapshot_boundary(x)
  <2> SUFFICES ASSUME NEW x PROVE Hybrid!snapshot_boundary(x) = States!snapshot_boundary(x)
    OBVIOUS
  <2> DEFINE q == Hybrid!matched_path(hybrid_tree, x)
             ends == {n \in DOMAIN hybrid_snap : Hybrid!IsPrefix(n, q)}
             deepest == IF ends = {} THEN <<>>
                        ELSE CHOOSE n \in ends : \A m \in ends : Len(m) <= Len(n)
  <2>1. Hybrid!snapshot_boundary(x) = deepest
    BY ZenonT(60) DEF Hybrid!snapshot_boundary, Hybrid!Root
  <2>2. q = States!matched_path(hybrid_tree, x)
    BY SameHybridTree
  <2>3. ends = {n \in DOMAIN hybrid_snap : States!IsPrefix(n, q)}
    BY ZenonT(60) DEF Hybrid!IsPrefix, States!IsPrefix
  <2> HIDE DEF q, ends
  <2>4. States!snapshot_boundary(x) = deepest
    BY <2>2, <2>3 DEF States!snapshot_boundary, States!Root
  <2> QED
    BY <2>1, <2>4
<1>2. \A x : Hybrid!inc_mamba(x) = States!inc_mamba(x)
  BY SameHybridTree, ZenonT(60) DEF Hybrid!inc_mamba, States!inc_mamba
<1>3. Hybrid!Idle = States!Idle
  BY SameHybridTree, ZenonT(60) DEF Hybrid!Idle, States!Idle
<1>4. \A S : Hybrid!Cardinality(S) = States!Cardinality(S)
  BY SameHybridTree, ZenonT(60) DEF Hybrid!Cardinality, States!Cardinality
<1> QED
  BY <1>1, <1>2, <1>3, <1>4, SameHybridTree, ZenonT(60) DEF Hybrid!match_prefix,
      States!match_prefix

\* The hybrid cache takes the step dec_lock alike.
LEMMA SameHybridDecLock ==
  ASSUME NEW q, Hybrid!dec_lock(q)
  PROVE  States!dec_lock(q)
  BY SameHybridTree, ZenonT(60) DEF Hybrid!dec_lock, States!dec_lock, Hybrid!Idle, States!Idle

\* The hybrid cache takes the step insert alike.
LEMMA SameHybridInsert ==
  ASSUME NEW p, NEW slot, Hybrid!insert(p, slot)
  PROVE  States!insert(p, slot)
  BY SameHybridTree, ZenonT(60) DEF Hybrid!insert, States!insert, Hybrid!Idle, States!Idle,
      Hybrid!mamba_exist, States!mamba_exist, Hybrid!Root, States!Root

\* The hybrid cache takes the step evict_begin alike.
LEMMA SameHybridEvictBegin ==
  ASSUME NEW kind, NEW num, Hybrid!evict_begin(kind, num)
  PROVE  States!evict_begin(kind, num)
  BY SameHybridTree, ZenonT(60) DEF Hybrid!evict_begin, States!evict_begin, Hybrid!Idle, States!Idle

\* The hybrid cache takes the step evict_full alike.
LEMMA SameHybridEvictFull ==
  ASSUME NEW n, Hybrid!evict_full(n)
  PROVE  States!evict_full(n)
  BY SameHybridTree, ZenonT(60) DEF Hybrid!evict_full, States!evict_full, Hybrid!Popped,
      States!Popped, Hybrid!unlinked, States!unlinked, Hybrid!free_node_mamba,
      States!free_node_mamba, Hybrid!Max, States!Max, Hybrid!cascade_tokens,
      States!cascade_tokens, Hybrid!Candidates, States!Candidates, Hybrid!cascade,
      States!cascade, Hybrid!IsPrefix, States!IsPrefix

\* The hybrid cache takes the step evict_mamba alike.
LEMMA SameHybridEvictMamba ==
  ASSUME NEW n, Hybrid!evict_mamba(n)
  PROVE  States!evict_mamba(n)
  BY SameHybridTree, ZenonT(60) DEF Hybrid!evict_mamba, States!evict_mamba, Hybrid!Popped,
      States!Popped, Hybrid!unlinked, States!unlinked, Hybrid!free_node_mamba,
      States!free_node_mamba, Hybrid!Candidates, States!Candidates, Hybrid!cascade,
      States!cascade, Hybrid!cascade_tokens, States!cascade_tokens, Hybrid!IsPrefix,
      States!IsPrefix

\* The hybrid cache takes the step evict_end alike.
LEMMA SameHybridEvictEnd ==
  ASSUME Hybrid!evict_end
  PROVE  States!evict_end
  BY SameHybridTree, ZenonT(60) DEF Hybrid!evict_end, States!evict_end, Hybrid!Idle, States!Idle,
      Hybrid!Candidates, States!Candidates

\* The hybrid cache moves alike.
LEMMA SameHybridNext ==
  ASSUME Hybrid!HybridNext
  PROVE  States!HybridNext
<1>1. /\ Hybrid!Paths = States!Paths
      /\ \A t : Hybrid!nodes(t) = States!nodes(t)
  BY SameHybridTree, ZenonT(60) DEF Hybrid!Paths, States!Paths, Hybrid!Prefixes, States!Prefixes
<1>2. \/ \E p \in StatePrompts : Hybrid!match_prefix(p)
      \/ \E q \in Hybrid!Paths : Hybrid!dec_lock(q)
      \/ \E p \in StatePrompts, slot \in hybrid_pool : Hybrid!insert(p, slot)
      \/ \E num \in 1 .. 3 : Hybrid!evict_begin("full", num) \/ Hybrid!evict_begin("mamba", num)
      \/ \E n \in Hybrid!nodes(hybrid_tree) : Hybrid!evict_full(n) \/ Hybrid!evict_mamba(n)
      \/ Hybrid!evict_end
  BY ZenonT(60) DEF Hybrid!HybridNext
<1>3. \/ \E p \in StatePrompts : States!match_prefix(p)
      \/ \E q \in States!Paths : States!dec_lock(q)
      \/ \E p \in StatePrompts, slot \in hybrid_pool : States!insert(p, slot)
      \/ \E num \in 1 .. 3 : States!evict_begin("full", num) \/ States!evict_begin("mamba", num)
      \/ \E n \in States!nodes(hybrid_tree) : States!evict_full(n) \/ States!evict_mamba(n)
      \/ States!evict_end
  BY <1>1, <1>2, SameHybridMatchAndLock, SameHybridDecLock, SameHybridInsert,
     SameHybridEvictBegin, SameHybridEvictFull, SameHybridEvictMamba, SameHybridEvictEnd
<1> QED
  BY <1>3 DEF States!HybridNext

\* The properties of the hybrid cache say the same.
LEMMA SameHybridProperties ==
  ASSUME States!HybridTypeOK,
         States!LeafHasSnapshot,
         States!BothCountsAreLocks,
         States!SizesMatchTree,
         States!SlotsConserved,
         States!NothingLeftBehind
  PROVE  HybridTreeIsSound
<1>1. Hybrid!HybridTypeOK
  BY SameHybridTree, ZenonT(60) DEF Hybrid!HybridTypeOK, States!HybridTypeOK, Hybrid!Paths, States!Paths,
      Hybrid!Root, States!Root, Hybrid!Prefixes, States!Prefixes
<1>2. Hybrid!LeafHasSnapshot
  BY SameHybridTree, ZenonT(60) DEF Hybrid!LeafHasSnapshot, States!LeafHasSnapshot
<1>3. Hybrid!BothCountsAreLocks
  <2>1. \A S : Hybrid!Cardinality(S) = States!Cardinality(S)
    BY ZenonT(60) DEF Hybrid!Cardinality, States!Cardinality
  <2> QED
    BY <2>1, SameHybridTree DEF Hybrid!BothCountsAreLocks, States!BothCountsAreLocks,
        Hybrid!IsPrefix, States!IsPrefix, Hybrid!Paths, States!Paths, Hybrid!Root,
        States!Root, Hybrid!Prefixes, States!Prefixes
<1>4. Hybrid!SizesMatchTree
  BY SameHybridTree, ZenonT(60) DEF Hybrid!SizesMatchTree, States!SizesMatchTree,
      Hybrid!Cardinality, States!Cardinality
<1>5. Hybrid!SlotsConserved
  BY SameHybridTree, ZenonT(60) DEF Hybrid!SlotsConserved, States!SlotsConserved,
      Hybrid!Cardinality, States!Cardinality
<1>6. Hybrid!NothingLeftBehind
  BY SameHybridTree, ZenonT(60) DEF Hybrid!NothingLeftBehind, States!NothingLeftBehind, Hybrid!Idle,
      States!Idle, Hybrid!Candidates, States!Candidates
<1> QED
  BY <1>1, <1>2, <1>3, <1>4, <1>5, <1>6 DEF HybridTreeIsSound

\* The operations of the radix tree are the same in Tight and Short.
LEMMA SameTree ==
  /\ \A t, p : Tight!matched_path(t, p) = Short!matched_path(t, p)
  /\ \A t, p, c : Tight!tree_walk(t, p, c) = Short!tree_walk(t, p, c)
  /\ \A t, q : Tight!lock_handle(t, q) = Short!lock_handle(t, q)
  /\ \A t, q : Tight!unlock_handle(t, q) = Short!unlock_handle(t, q)
  /\ \A t, p : Tight!matched_pages(t, p) = Short!matched_pages(t, p)
  /\ \A t, p, s, c : Tight!insert_prefix(t, p, s, c) = Short!insert_prefix(t, p, s, c)
  /\ \A t, n : Tight!lru_leaf(t, n) <=> Short!lru_leaf(t, n)
  /\ \A t, n : Tight!drop_leaf(t, n) = Short!drop_leaf(t, n)
  /\ \A t, n : Tight!node_length(t, n) = Short!node_length(t, n)
  /\ \A t, n : Tight!leaf_slots(t, n) = Short!leaf_slots(t, n)
  /\ \A t : Tight!SizesAgree(t) <=> Short!SizesAgree(t)
  /\ \A t : Tight!evict_candidates(t) = Short!evict_candidates(t)
  /\ \A t : Tight!nodes(t) = Short!nodes(t)
<1>1. \A t, p : Tight!matched_path(t, p) = Short!matched_path(t, p)
  BY ZenonT(60) DEF Tight!matched_path, Short!matched_path, Tight!matched_pages,
      Short!matched_pages, Tight!Max, Short!Max
<1>2. \A t, p, c : Tight!tree_walk(t, p, c) = Short!tree_walk(t, p, c)
  <2>1. /\ Tight!Root = Short!Root
        /\ \A t : Tight!nodes(t) = Short!nodes(t)
        /\ \A p, q : Tight!IsPrefix(p, q) <=> Short!IsPrefix(p, q)
    BY ZenonT(60) DEF Tight!Root, Short!Root, Tight!nodes, Short!nodes, Tight!IsPrefix, Short!IsPrefix
  <2>2. \A p, q : Tight!IsStrictPrefix(p, q) <=> Short!IsStrictPrefix(p, q)
    BY <2>1 DEF Tight!IsStrictPrefix, Short!IsStrictPrefix
  <2>3. \A t, p : Tight!matched_pages(t, p) = Short!matched_pages(t, p)
    BY ZenonT(60) DEF Tight!matched_pages, Short!matched_pages, Tight!Max, Short!Max
  <2>4. \A t, p : Tight!split_ref(t, p) = Short!split_ref(t, p)
    BY <2>1, <2>2, ZenonT(60) DEF Tight!split_ref, Short!split_ref
  <2> TAKE t, p, c
  <2> QED
    BY <2>1, <2>2, <2>3, <2>4, ZenonT(60) DEF Tight!tree_walk, Short!tree_walk
<1>3. \A t, q : Tight!lock_handle(t, q) = Short!lock_handle(t, q)
  BY ZenonT(60) DEF Tight!lock_handle, Short!lock_handle, Tight!nodes, Short!nodes, Tight!IsPrefix,
      Short!IsPrefix, Tight!path_tokens, Short!path_tokens, Tight!tokens, Short!tokens,
      Tight!ancestors, Short!ancestors, Tight!Cardinality, Short!Cardinality,
      Tight!edges, Short!edges, Tight!edge, Short!edge
<1>4. \A t, q : Tight!unlock_handle(t, q) = Short!unlock_handle(t, q)
  BY ZenonT(60) DEF Tight!unlock_handle, Short!unlock_handle, Tight!nodes, Short!nodes,
      Tight!IsPrefix, Short!IsPrefix, Tight!path_tokens, Short!path_tokens,
      Tight!tokens, Short!tokens, Tight!ancestors, Short!ancestors, Tight!Cardinality,
      Short!Cardinality, Tight!edges, Short!edges, Tight!edge, Short!edge
<1>5. \A t, p : Tight!matched_pages(t, p) = Short!matched_pages(t, p)
  BY ZenonT(60) DEF Tight!matched_pages, Short!matched_pages, Tight!Max, Short!Max
<1>6. \A t, p, s, c : Tight!insert_prefix(t, p, s, c) = Short!insert_prefix(t, p, s, c)
  <2>1. /\ Tight!Root = Short!Root
        /\ \A t : Tight!nodes(t) = Short!nodes(t)
        /\ \A p : Tight!Prefixes(p) = Short!Prefixes(p)
    BY ZenonT(60) DEF Tight!Root, Short!Root, Tight!nodes, Short!nodes, Tight!Prefixes, Short!Prefixes
  <2>2. \A t, p : Tight!matched_pages(t, p) = Short!matched_pages(t, p)
    BY ZenonT(60) DEF Tight!matched_pages, Short!matched_pages, Tight!Max, Short!Max
  <2> TAKE t, p, s, c
  <2> QED
    BY <1>2, <2>1, <2>2, ZenonT(60) DEF Tight!insert_prefix, Short!insert_prefix
<1>7. \A t, n : Tight!lru_leaf(t, n) <=> Short!lru_leaf(t, n)
  BY ZenonT(60) DEF Tight!lru_leaf, Short!lru_leaf, Tight!evict_candidates, Short!evict_candidates,
      Tight!nodes, Short!nodes, Tight!is_leaf, Short!is_leaf, Tight!IsStrictPrefix,
      Short!IsStrictPrefix, Tight!IsPrefix, Short!IsPrefix
<1>8. \A t, n : Tight!drop_leaf(t, n) = Short!drop_leaf(t, n)
  BY ZenonT(60) DEF Tight!drop_leaf, Short!drop_leaf, Tight!edge, Short!edge, Tight!nodes,
      Short!nodes, Tight!node_length, Short!node_length, Tight!IsPrefix, Short!IsPrefix,
      Tight!ancestors, Short!ancestors, Tight!Cardinality, Short!Cardinality
<1>9. \A t, n : Tight!node_length(t, n) = Short!node_length(t, n)
  BY ZenonT(60) DEF Tight!node_length, Short!node_length, Tight!Cardinality, Short!Cardinality,
      Tight!edge, Short!edge, Tight!IsPrefix, Short!IsPrefix, Tight!ancestors,
      Short!ancestors, Tight!nodes, Short!nodes
<1>10. \A t, n : Tight!leaf_slots(t, n) = Short!leaf_slots(t, n)
  BY ZenonT(60) DEF Tight!leaf_slots, Short!leaf_slots, Tight!Range, Short!Range, Tight!edge,
      Short!edge, Tight!IsPrefix, Short!IsPrefix, Tight!ancestors, Short!ancestors,
      Tight!nodes, Short!nodes
<1>11. \A t : Tight!SizesAgree(t) <=> Short!SizesAgree(t)
  BY ZenonT(60) DEF Tight!SizesAgree, Short!SizesAgree, Tight!tokens, Short!tokens, Tight!nodes,
      Short!nodes, Tight!Cardinality, Short!Cardinality, Tight!edges, Short!edges,
      Tight!edge, Short!edge, Tight!IsPrefix, Short!IsPrefix, Tight!ancestors,
      Short!ancestors
<1>12. \A t : Tight!evict_candidates(t) = Short!evict_candidates(t)
  BY ZenonT(60) DEF Tight!evict_candidates, Short!evict_candidates, Tight!nodes, Short!nodes,
      Tight!is_leaf, Short!is_leaf, Tight!IsStrictPrefix, Short!IsStrictPrefix,
      Tight!IsPrefix, Short!IsPrefix
<1>13. \A t : Tight!nodes(t) = Short!nodes(t)
  BY ZenonT(60) DEF Tight!nodes, Short!nodes
<1> QED
  BY <1>1, <1>2, <1>3, <1>4, <1>5, <1>6, <1>7, <1>8, <1>9, <1>10, <1>11, <1>12, <1>13

\* The engine begins alike.
LEMMA SameInit ==
  ASSUME Tight!Init
  PROVE  Short!Init
  BY SameTree, ZenonT(60) DEF Tight!Init, Short!Init, Tight!Rows, Short!Rows, Tight!Positions,
      Short!Positions, Tight!EmptyTree, Short!EmptyTree, Tight!NoRequest,
      Short!NoRequest, Tight!Nobody, Short!Nobody, Tight!Slots, Short!Slots, Tight!Root,
      Short!Root

\* The engine takes the step add_request alike.
LEMMA SameAddRequest ==
  ASSUME NEW r, NEW ids, NEW m, Tight!add_request(r, ids, m)
  PROVE  Short!add_request(r, ids, m)
<1>1. \A i : Tight!pages(i) = Short!pages(i)
  BY ZenonT(60) DEF Tight!pages, Short!pages
<1>2. \A i : Tight!locked_match(i) = Short!locked_match(i)
  BY SameTree, <1>1 DEF Tight!locked_match, Short!locked_match
<1>3. \A t, q : Tight!matched_indices(t, q) = Short!matched_indices(t, q)
  BY ZenonT(60) DEF Tight!matched_indices, Short!matched_indices, Tight!page_of, Short!page_of,
      Tight!offset_of, Short!offset_of
<1>4. \A i, n : Tight!reused_len(i, n) = Short!reused_len(i, n)
  BY ZenonT(60) DEF Tight!reused_len, Short!reused_len, Tight!align_down, Short!align_down,
      Tight!Min, Short!Min
<1>5. \A row, i, n : Tight!admitted(row, i, n) = Short!admitted(row, i, n)
  BY SameTree, <1>1, <1>4 DEF Tight!admitted, Short!admitted
<1>6. \A S : Tight!Min(S) = Short!Min(S)
  BY ZenonT(60) DEF Tight!Min, Short!Min
<1> QED
  BY SameTree, <1>1, <1>2, <1>3, <1>5, <1>6, ZenonT(60)
  DEF Tight!add_request, Short!add_request,
     Tight!Positions, Short!Positions

\* The engine takes the step reject_request alike.
LEMMA SameRejectRequest ==
  ASSUME NEW r, NEW ids, Tight!reject_request(r, ids)
  PROVE  Short!reject_request(r, ids)
  BY SameTree, ZenonT(60)
  DEF Tight!reject_request, Short!reject_request, Tight!locked_match,
      Short!locked_match, Tight!NoRequest, Short!NoRequest, Tight!pages, Short!pages,
      Tight!Root, Short!Root

\* The engine takes the step prefill_chunk alike.
LEMMA SamePrefillChunk ==
  ASSUME NEW r, NEW n, Tight!prefill_chunk(r, n)
  PROVE  Short!prefill_chunk(r, n)
  BY SameTree, ZenonT(60) DEF Tight!prefill_chunk, Short!prefill_chunk, Tight!forwarded,
      Short!forwarded, Tight!written_slots, Short!written_slots, Tight!Slots,
      Short!Slots, Tight!slot_of, Short!slot_of

\* The engine takes the step sample alike.
LEMMA SameSample ==
  ASSUME NEW r, NEW tok, Tight!sample(r, tok)
  PROVE  Short!sample(r, tok)
  BY SameTree, ZenonT(60) DEF Tight!sample, Short!sample, Tight!Live, Short!Live, Tight!forwarded,
      Short!forwarded, Tight!written_slots, Short!written_slots, Tight!Slots,
      Short!Slots, Tight!slot_of, Short!slot_of

\* The engine takes the step finish alike.
LEMMA SameFinish ==
  ASSUME NEW r, NEW tok, Tight!finish(r, tok)
  PROVE  Short!finish(r, tok)
<1>1. \A q, f, u : Tight!forwarded(q, f, u) = Short!forwarded(q, f, u)
  BY ZenonT(60) DEF Tight!forwarded, Short!forwarded, Tight!Slots, Short!Slots, Tight!slot_of,
      Short!slot_of
<1>2. \A s : Tight!sorted(s) = Short!sorted(s)
  BY ZenonT(60) DEF Tight!sorted, Short!sorted, Tight!Cardinality, Short!Cardinality
<1>3. \A i : Tight!pages(i) = Short!pages(i)
  BY ZenonT(60) DEF Tight!pages, Short!pages
<1>4. \A q, f, u : Tight!written_slots(q, f, u) = Short!written_slots(q, f, u)
  BY ZenonT(60) DEF Tight!written_slots, Short!written_slots, Tight!slot_of, Short!slot_of
<1>5. \A q, f, i, n : Tight!freeable(q, f, i, n) = Short!freeable(q, f, i, n)
  BY ZenonT(60) DEF Tight!freeable, Short!freeable
<1> QED
  BY SameTree, <1>1, <1>2, <1>3, <1>4, <1>5, ZenonT(60)
  DEF Tight!finish, Short!finish,
     Tight!align_down, Short!align_down, Tight!Live, Short!Live, Tight!slot_of,
     Short!slot_of

\* The engine takes the step abort_request alike.
LEMMA SameAbortRequest ==
  ASSUME NEW r, Tight!abort_request(r)
  PROVE  Short!abort_request(r)
  BY SameTree, ZenonT(60)
  DEF Tight!abort_request, Short!abort_request, Tight!Live, Short!Live,
      Tight!abort_unlocks, Short!abort_unlocks, Tight!sorted, Short!sorted,
      Tight!Cardinality, Short!Cardinality

\* The engine takes the step Allocation alike.
LEMMA SameAllocation == Tight!Allocation <=> Short!Allocation
  BY ZenonT(60) DEF Tight!Allocation, Short!Allocation, Tight!allocate, Short!allocate,
      Tight!begin_evict, Short!begin_evict, Tight!evict_pop, Short!evict_pop,
      Tight!allocate_fails, Short!allocate_fails, Tight!need, Short!need, Tight!mapped,
      Short!mapped, Tight!Slots, Short!Slots, Tight!Range, Short!Range, Tight!Nobody,
      Short!Nobody, Tight!Min, Short!Min, Tight!nodes, Short!nodes, Tight!lru_leaf,
      Short!lru_leaf, Tight!drop_leaf, Short!drop_leaf, Tight!sorted, Short!sorted,
      Tight!SetToSeq, Short!SetToSeq, Tight!leaf_slots, Short!leaf_slots, Tight!Max,
      Short!Max, Tight!node_length, Short!node_length, Tight!remaining, Short!remaining,
      Tight!Positions, Short!Positions, Tight!evict_candidates, Short!evict_candidates,
      Tight!edge, Short!edge, Tight!Cardinality, Short!Cardinality, Tight!IsInjective,
      Short!IsInjective, Tight!is_leaf, Short!is_leaf, Tight!IsPrefix, Short!IsPrefix,
      Tight!ancestors, Short!ancestors, Tight!IsStrictPrefix, Short!IsStrictPrefix

\* The properties of the engine say the same.
LEMMA SameProperties ==
  ASSUME Short!LocksAreHandles, Short!EvictionPossible
  PROVE  Tight!LocksAreHandles /\ Tight!EvictionPossible
  BY SameTree, ZenonT(60) DEF Tight!LocksAreHandles, Short!LocksAreHandles, Tight!Cardinality,
      Short!Cardinality, Tight!Live, Short!Live, Tight!IsPrefix, Short!IsPrefix,
      Tight!EvictionPossible, Short!EvictionPossible

\* The engine moves alike.
LEMMA SameNext == Tight!Next => Short!Next
<1> SUFFICES ASSUME Tight!Next PROVE Short!Next
  OBVIOUS
<1>1. CASE Tight!Operation
  <2> SUFFICES Short!Operation
    BY ZenonT(60) DEF Short!Next
  <2>1. PICK r \in Requests :
          \/ \E ids \in EnginePrompts, m \in {2} : Tight!add_request(r, ids, m)
          \/ \E ids \in EnginePrompts : Tight!reject_request(r, ids)
          \/ \E n \in 1 .. 5 : Tight!prefill_chunk(r, n)
          \/ \E tok \in Tokens : Tight!sample(r, tok)
          \/ \E tok \in Tokens : Tight!finish(r, tok)
          \/ Tight!abort_request(r)
    BY <1>1 DEF Tight!Operation
  <2>2. \/ \E ids \in EnginePrompts, m \in {2} : Short!add_request(r, ids, m)
        \/ \E ids \in EnginePrompts : Short!reject_request(r, ids)
        \/ \E n \in 1 .. 5 : Short!prefill_chunk(r, n)
        \/ \E tok \in Tokens : Short!sample(r, tok)
        \/ \E tok \in Tokens : Short!finish(r, tok)
        \/ Short!abort_request(r)
    BY <2>1, SameAddRequest, SameRejectRequest, SamePrefillChunk, SameSample,
       SameFinish, SameAbortRequest
  <2> QED
    BY <2>2 DEF Short!Operation
<1>2. CASE Tight!Allocation
  BY <1>2, SameAllocation DEF Short!Next
<1> QED
  BY <1>1, <1>2 DEF Tight!Next

-----------------------------------------------------------------------------
\* The constants that MCPrefix gives the small engine and the radix cache are
\* among those their modules are about.
LEMMA SuiteConstants ==
  /\ {1, 2} \subseteq Tokens => Short!EngineBounds
  /\ Cache!PromptsAssumption
  /\ IsFiniteSet(StateSlots) => States!HybridAssumption
<1>1. ASSUME {1, 2} \subseteq Tokens PROVE Short!EngineBounds
  <2>1. /\ <<1>> \in Seq(Tokens) /\ Len(<<1>>) = 1
        /\ <<1, 1>> \in Seq(Tokens) /\ Len(<<1, 1>>) = 2
        /\ <<1, 2, 1>> \in Seq(Tokens) /\ Len(<<1, 2, 1>>) = 3
    <3>1. 1 \in Tokens /\ 2 \in Tokens
      BY <1>1
    <3> QED
      BY <3>1
  <2> DEFINE fits(p) == p \in Seq(Tokens) /\ Len(p) \in 1 .. 3
  <2>2. fits(<<1>>) /\ fits(<<1, 1>>) /\ fits(<<1, 2, 1>>)
    BY <2>1
  <2> HIDE DEF fits
  <2>3. \A p \in EnginePrompts : fits(p)
    BY <2>2 DEF EnginePrompts
  <2>4. \A p \in EnginePrompts : p \in Seq(Tokens) /\ Len(p) > 0
    BY <2>3 DEF fits
  <2>5. ASSUME NEW p \in EnginePrompts, NEW m \in {2} PROVE Len(p) + m <= 5
    <3>1. Len(p) \in 1 .. 3
      BY <2>3 DEF fits
    <3>2. \A len \in 1 .. 3 : len + 2 <= 5
      OBVIOUS
    <3>3. m = 2
      OBVIOUS
    <3> QED
      BY <3>1, <3>2, <3>3, Zenon
  <2>6. \A m \in {2} : m \in Nat \ {0}
    OBVIOUS
  <2>7. 1 \in Nat \ {0} /\ 6 \in Nat \ {0} /\ 5 \in Nat
    OBVIOUS
  <2> QED
    BY <2>4, <2>5, <2>6, <2>7, Zenon DEF Short!EngineBounds
<1>2. Cache!PromptsAssumption
  <2> DEFINE P == Cache!Pages
  <2>1. <<1>> \in P
    <3>1. << <<1>> >> \in PagePrompts
      BY DEF PagePrompts
    <3>2. <<1>> \in Cache!Range(<< <<1>> >>)
      BY DEF Cache!Range
    <3> QED
      BY <3>1, <3>2 DEF Cache!Pages
  <2>2. <<2>> \in P
    <3> DEFINE p == << <<1>>, <<2>> >>
    <3>1. p \in PagePrompts
      BY DEF PagePrompts
    <3>2. 2 \in DOMAIN p /\ p[2] = <<2>>
      OBVIOUS
    <3>3. <<2>> \in Cache!Range(p)
      BY <3>2 DEF Cache!Range
    <3> QED
      BY <3>1, <3>3 DEF Cache!Pages
  <2> HIDE DEF P
  <2>3. ASSUME NEW a \in P, NEW b \in P
        PROVE  /\ <<a>> \in Seq(P) /\ <<a, a, a>> \in Seq(P) /\ <<a, a, b>> \in Seq(P)
               /\ <<a, b>> \in Seq(P)
    OBVIOUS
  <2>4. \A p \in PagePrompts : p \in Seq(P)
    BY <2>1, <2>2, <2>3, Zenon DEF PagePrompts
  <2> QED
    BY <2>4 DEF Cache!PromptsAssumption, P
<1>3. ASSUME IsFiniteSet(StateSlots) PROVE States!HybridAssumption
  <2> DEFINE P == States!Pages
  <2>1. <<1>> \in P
    <3>1. << <<1>> >> \in StatePrompts
      BY DEF StatePrompts
    <3>2. <<1>> \in States!Range(<< <<1>> >>)
      BY DEF States!Range
    <3> QED
      BY <3>1, <3>2 DEF States!Pages
  <2>2. <<2>> \in P
    <3> DEFINE p == << <<1>>, <<1>>, <<2>> >>
    <3>1. p \in StatePrompts
      BY DEF StatePrompts
    <3>2. 3 \in DOMAIN p /\ p[3] = <<2>>
      OBVIOUS
    <3>3. <<2>> \in States!Range(p)
      BY <3>2 DEF States!Range
    <3> QED
      BY <3>1, <3>3 DEF States!Pages
  <2> HIDE DEF P
  <2>3. ASSUME NEW a \in P, NEW b \in P
        PROVE  /\ <<>> \in Seq(P) /\ <<a>> \in Seq(P)
               /\ <<a, a, a>> \in Seq(P) /\ <<a, a, b>> \in Seq(P)
    OBVIOUS
  <2>4. \A p \in StatePrompts : p \in Seq(P)
    BY <2>1, <2>2, <2>3, Zenon DEF StatePrompts
  <2>5. States!IsFiniteSet(StateSlots)
    BY <1>3 DEF States!IsFiniteSet, IsFiniteSet
  <2> QED
    BY <2>4, <2>5 DEF States!HybridAssumption, States!PromptsAssumption, P
<1> QED
  BY <1>1, <1>2, <1>3

\* The radix cache's invariant, whichever part moves.
LEMMA RadixStep ==
  ASSUME Cache!Inv, [SuiteNext]_allVars
  PROVE  Cache!Inv'
<1>1. CASE StepRadixCache
  <2>1. Cache!Next
    BY <1>1, SameCacheNext DEF StepRadixCache
  <2> QED
    BY PageAssumption, <2>1, SuiteConstants, Cache!StepInv
<1>2. CASE UNCHANGED radixCacheVars
  <2>1. UNCHANGED Cache!vars
    BY <1>2 DEF radixCacheVars, Cache!vars
  <2> QED
    BY PageAssumption, <2>1, Cache!StutterInv
<1>3. StepRadixCache \/ UNCHANGED radixCacheVars
  BY DEF SuiteNext, StepEngineKV, StepHybridRadix, Stops, allVars
<1> QED
  BY <1>1, <1>2, <1>3

\* The radix cache of the suite: splits, inserts, locks and interrupted evictions
\* keep a radix tree, with counters that are the locks and sizes that are the
\* tree's, and evict never runs out of leaves (kvcache/radix_cache.py).
THEOREM RadixTreeStaysSound == SuiteSpec => []RadixTreeIsSound
<1>1. SuiteInit => Cache!Inv
  BY PageAssumption, SuiteConstants, SameCacheInit, Cache!InitInv DEF SuiteInit
<1>2. Cache!Inv /\ [SuiteNext]_allVars => Cache!Inv'
  BY RadixStep
<1>3. Cache!Inv => RadixTreeIsSound
  BY PageAssumption, SuiteConstants, Cache!InvSays, SameCacheProperties
<1> QED
  BY <1>1, <1>2, <1>3, PTL DEF SuiteSpec

\* The abstract prefix cache is the same in Radix and in Cache.
LEMMA SameAbstract ==
  /\ Cache!Abstract!Init => Radix!Abstract!Init
  /\ [Cache!Abstract!Next]_(Cache!Abstract!vars) => [Radix!Abstract!Next]_(Radix!Abstract!vars)
<1>1. Cache!Abstract!Init => Radix!Abstract!Init
  BY ZenonT(60) DEF Cache!Abstract!Init, Radix!Abstract!Init, Cache!Abstract!Paths,
      Radix!Abstract!Paths, Cache!Abstract!Prefixes, Radix!Abstract!Prefixes
<1>2. Cache!Abstract!Next => Radix!Abstract!Next
  BY ZenonT(60) DEF Cache!Abstract!Next, Radix!Abstract!Next, Cache!Abstract!Lock,
      Radix!Abstract!Lock, Cache!Abstract!Paths, Radix!Abstract!Paths,
      Cache!Abstract!Unlock, Radix!Abstract!Unlock, Cache!Abstract!Insert,
      Radix!Abstract!Insert, Cache!Abstract!Evict, Radix!Abstract!Evict,
      Cache!Abstract!Reset, Radix!Abstract!Reset, Cache!Abstract!Longest,
      Radix!Abstract!Longest, Cache!Abstract!Prefixes, Radix!Abstract!Prefixes,
      Cache!Abstract!Locked, Radix!Abstract!Locked, Cache!Abstract!IsPrefix,
      Radix!Abstract!IsPrefix, Cache!Abstract!Max, Radix!Abstract!Max
<1>3. UNCHANGED Cache!Abstract!vars => UNCHANGED Radix!Abstract!vars
  BY ZenonT(60) DEF Cache!Abstract!vars, Radix!Abstract!vars
<1> QED
  BY <1>1, <1>2, <1>3

\* The radix cache implements the prefix cache: the longest match, slots that
\* stay, and no eviction of what a handle holds on to (kvcache/base.py).
THEOREM RadixImplementsPrefixCache == SuiteSpec => Radix!ImplementsPrefixCache
<1>1. SuiteInit => Cache!Inv /\ Radix!Abstract!Init
  BY PageAssumption, SuiteConstants, SameCacheInit, SameAbstract, Cache!InitInv,
     Cache!InitIsAbstract DEF SuiteInit
<1>2. Cache!Inv /\ [SuiteNext]_allVars => Cache!Inv'
  BY RadixStep
<1>3. Cache!Inv /\ [SuiteNext]_allVars => [Radix!Abstract!Next]_(Radix!Abstract!vars)
  <2> SUFFICES ASSUME Cache!Inv, [SuiteNext]_allVars
               PROVE  [Radix!Abstract!Next]_(Radix!Abstract!vars)
    OBVIOUS
  <2>1. CASE StepRadixCache
    <3>1. Cache!Next
      BY <2>1, SameCacheNext DEF StepRadixCache
    <3>2. [Cache!Abstract!Next]_(Cache!Abstract!vars)
      BY PageAssumption, <3>1, SuiteConstants, Cache!StepIsAbstract
    <3> QED
      BY <3>2, SameAbstract
  <2>2. CASE UNCHANGED radixCacheVars
    BY <2>2 DEF radixCacheVars, Radix!Abstract!vars
  <2>3. StepRadixCache \/ UNCHANGED radixCacheVars
    BY DEF SuiteNext, StepEngineKV, StepHybridRadix, Stops, allVars
  <2> QED
    BY <2>1, <2>2, <2>3
<1> QED
  BY <1>1, <1>2, <1>3, PTL DEF SuiteSpec, Radix!ImplementsPrefixCache, Radix!Abstract!Spec

-----------------------------------------------------------------------------
\* The hybrid cache's invariant and what is locked in it, whichever part moves.
LEMMA HybridStep ==
  ASSUME IsFiniteSet(StateSlots), States!HybridInv, [SuiteNext]_allVars
  PROVE  States!HybridInv' /\ (States!KeepsLocked \/ UNCHANGED States!hybridVars)
<1>1. CASE StepHybridRadix
  <2>1. States!HybridNext
    BY <1>1, SameHybridNext DEF StepHybridRadix
  <2> QED
    BY PageAssumption, <2>1, SuiteConstants, States!HybridStepInv
<1>2. CASE UNCHANGED hybridRadixVars
  <2>1. UNCHANGED States!hybridVars
    BY <1>2 DEF hybridRadixVars, States!hybridVars
  <2> QED
    BY PageAssumption, <2>1, States!HybridStutterInv
<1>3. StepHybridRadix \/ UNCHANGED hybridRadixVars
  BY DEF SuiteNext, StepEngineKV, StepRadixCache, Stops, allVars
<1> QED
  BY <1>1, <1>2, <1>3

\* The hybrid cache of the suite: every leaf of its tree has a snapshot, both
\* counters are the locks, the sizes are those of the tree, no slot of the state
\* pool is lost, and an eviction takes all it may (kvcache/hybrid_radix_cache.py).
THEOREM HybridTreeStaysSound ==
  ASSUME IsFiniteSet(StateSlots)
  PROVE  SuiteSpec => []HybridTreeIsSound
<1>1. SuiteInit => States!HybridInv
  BY PageAssumption, SuiteConstants, SameHybridInit, States!HybridInitInv DEF SuiteInit
<1>2. States!HybridInv /\ [SuiteNext]_allVars => States!HybridInv'
  BY HybridStep
<1>3. States!HybridInv => HybridTreeIsSound
  BY PageAssumption, SuiteConstants, States!HybridInvSays, SameHybridProperties
<1> QED
  BY <1>1, <1>2, <1>3, PTL DEF SuiteSpec

\* What a handle holds on to stays, in both caches: no split, insert or eviction
\* moves or frees the slots of a locked prefix, nor the snapshot it ends at
\* (kvcache/radix_cache.py, kvcache/hybrid_radix_cache.py).
THEOREM LockedPrefixesAreKept ==
  ASSUME IsFiniteSet(StateSlots)
  PROVE  SuiteSpec => LockedPrefixesStay
<1> DEFINE Keeps ==
             \A q \in Hybrid!Paths \ {Hybrid!Root} : hybrid_locks[q] > 0 =>
               /\ q \in DOMAIN hybrid_snap' /\ hybrid_snap'[q] = hybrid_snap[q]
               /\ \A k \in 1 .. Len(q) :
                    hybrid_tree'.value[SubSeq(q, 1, k)] = hybrid_tree.value[SubSeq(q, 1, k)]
<1>1. SuiteInit => States!HybridInv
  BY PageAssumption, SuiteConstants, SameHybridInit, States!HybridInitInv DEF SuiteInit
<1>2. States!HybridInv /\ [SuiteNext]_allVars => States!HybridInv'
  BY HybridStep
<1>3. States!HybridInv /\ [SuiteNext]_allVars => [Keeps]_(Hybrid!hybridVars)
  <2>1. States!KeepsLocked => Keeps
    BY DEF States!KeepsLocked, Hybrid!Paths, States!Paths, Hybrid!Prefixes,
        States!Prefixes, Hybrid!Root, States!Root
  <2>2. UNCHANGED States!hybridVars => UNCHANGED Hybrid!hybridVars
    BY DEF States!hybridVars, Hybrid!hybridVars
  <2> QED
    BY <2>1, <2>2, HybridStep
<1>4. SuiteSpec => Hybrid!LockedPrefixKept
  BY <1>1, <1>2, <1>3, PTL DEF SuiteSpec, Hybrid!LockedPrefixKept
<1> QED
  BY <1>4, RadixImplementsPrefixCache, PTL DEF LockedPrefixesStay

-----------------------------------------------------------------------------
\* What holds of the engine in the part that exercises it: with pages of one
\* token, and with any.
EngineInv == part = "engine" => Inv /\ SlotInv
SmallInv == part = "tight" => Short!Inv
PagedInv == EngineInv /\ SmallInv
TokenInv == PagedInv /\ (part = "engine" => OwnedInv)

\* While its part is exercised the engine moves, and the others leave it alone.
LEMMA EngineMoves ==
  ASSUME [SuiteNext]_allVars
  PROVE  /\ part' = part
         /\ part = "engine" => [Next]_vars
         /\ part = "tight" => [Short!Next]_vars
<1>1. part' = part
  BY DEF SuiteNext, StepEngineKV, StepRadixCache, StepHybridRadix, Stops, allVars
<1>2. \/ part = "engine" /\ Next
      \/ part = "tight" /\ Tight!Next
      \/ part = "tail"
      \/ UNCHANGED vars
  BY DEF SuiteNext, StepEngineKV, StepRadixCache, StepHybridRadix, Stops, allVars
<1>3. Tight!Next => Short!Next
  BY SameNext
<1> QED
  BY <1>1, <1>2, <1>3

\* The part's engine begins in its invariant.
LEMMA SuiteBegins ==
  ASSUME EngineBounds, {1, 2} \subseteq Tokens, SuiteInit
  PROVE  TokenInv
<1>1. /\ part = "engine" => Init
      /\ part = "tight" => Short!Init
  BY SameInit DEF SuiteInit
<1>2. Init => Inv /\ SlotInv /\ OwnedInv
  BY InitInv, InitSlotInv, InitOwnedInv
<1>3. Short!Init => Short!Inv
  BY PageAssumption, SuiteConstants, Short!InitInv
<1> QED
  BY <1>1, <1>2, <1>3 DEF TokenInv, PagedInv, EngineInv, SmallInv

\* A step of the suite in which no allocation of the engine fails.
Served == part = "engine" => ~ allocate_fails

\* An allocation that fails changes the stage.
LEMMA ServedStep ==
  ASSUME [Served]_allVars, part = "engine"
  PROVE  ~ allocate_fails
<1>1. CASE Served
  BY <1>1 DEF Served
<1>2. CASE UNCHANGED allVars
  BY <1>2 DEF allVars, vars, allocate_fails
<1> QED
  BY <1>1, <1>2

\* The invariant of the engine's part is kept.
LEMMA PagedStep ==
  ASSUME EngineBounds, {1, 2} \subseteq Tokens, PagedInv, [SuiteNext]_allVars, [Served]_allVars
  PROVE  PagedInv'
<1>1. /\ part' = part
      /\ part = "engine" => [Next]_vars
      /\ part = "tight" => [Short!Next]_vars
  BY EngineMoves
<1>2. ASSUME part = "engine" PROVE Inv' /\ SlotInv'
  <2>1. Inv /\ SlotInv /\ [Next]_vars /\ ~ allocate_fails
    BY <1>1, <1>2, ServedStep DEF PagedInv, EngineInv
  <2> QED
    BY <2>1, StepInv, StepSlotInv
<1>3. ASSUME part = "tight" PROVE Short!Inv'
  <2>1. Short!Inv /\ [Short!Next]_(Short!vars)
    BY <1>1, <1>3 DEF PagedInv, SmallInv, vars, Short!vars
  <2> QED
    BY PageAssumption, <2>1, SuiteConstants, Short!StepInv
<1> QED
  BY <1>1, <1>2, <1>3 DEF PagedInv, EngineInv, SmallInv

\* So is what pages of one token add to it.
LEMMA TokenStep ==
  ASSUME EngineBounds, {1, 2} \subseteq Tokens, PageSize = 1, TokenInv, [SuiteNext]_allVars,
         [Served]_allVars
  PROVE  TokenInv'
<1>1. part' = part /\ PagedInv'
  BY EngineMoves, PagedStep DEF TokenInv
<1>2. ASSUME part = "engine" PROVE OwnedInv'
  <2>1. Inv /\ SlotInv /\ OwnedInv /\ [Next]_vars /\ ~ allocate_fails
    BY <1>2, EngineMoves, ServedStep DEF TokenInv, PagedInv, EngineInv
  <2> QED
    BY <2>1, StepOwnedInv
<1> QED
  BY <1>1, <1>2 DEF TokenInv

\* With pages of one token and while no add_request fails for want of slots, a
\* slot is free, in the tree or of one live row, whatever is added, evicted,
\* committed and aborted; a lock is a live handle; and what allocate asks to
\* evict is there (engine/engine.py).
THEOREM SlotsStayOwned ==
  ASSUME EngineBounds, {1, 2} \subseteq Tokens, PageSize = 1
  PROVE  SuiteSpec /\ [][Served]_allVars => []SlotsAreOwned
<1>1. SuiteInit => TokenInv
  BY SuiteBegins
<1>2. TokenInv /\ [SuiteNext]_allVars /\ [Served]_allVars => TokenInv'
  BY TokenStep
<1>3. TokenInv => SlotsAreOwned
  <2> SUFFICES ASSUME TokenInv PROVE SlotsAreOwned
    OBVIOUS
  <2>1. ASSUME part = "engine"
        PROVE  TypeOK /\ SlotOwnership /\ LocksAreHandles /\ EvictionPossible /\ QueuedHasSlots
    <3>1. Inv /\ SlotInv /\ OwnedInv
      BY <2>1 DEF TokenInv, PagedInv, EngineInv
    <3>2. SlotsApart /\ NoSlotLost
      BY <3>1 DEF SlotInv, OwnedInv
    <3> QED
      BY <3>1, <3>2, InvGivesTypes, InvGivesLocks, SlotInvGivesQueued, OwnedInvGivesOwnership
  <2>2. ASSUME part = "tight" PROVE Tight!LocksAreHandles /\ Tight!EvictionPossible
    <3>1. Short!Inv
      BY <2>2 DEF TokenInv, PagedInv, SmallInv
    <3> QED
      BY PageAssumption, <3>1, SuiteConstants, Short!InvGivesLocks, SameProperties
  <2> QED
    BY <2>1, <2>2 DEF SlotsAreOwned
<1> QED
  BY <1>1, <1>2, <1>3, PTL DEF SuiteSpec

\* For every page size, while no add_request fails for want of slots: a request's
\* history is in the slots of its row, in order, and the prefix it reuses is
\* pinned while it does (engine/engine.py).
THEOREM HistoriesStayIntact ==
  ASSUME EngineBounds, {1, 2} \subseteq Tokens
  PROVE  SuiteSpec /\ [][Served]_allVars => []HistoriesStay
<1>1. SuiteInit => PagedInv
  BY SuiteBegins DEF TokenInv
<1>2. PagedInv /\ [SuiteNext]_allVars /\ [Served]_allVars => PagedInv'
  BY PagedStep
<1>3. PagedInv => HistoriesStay
  BY InvGivesPinned, SlotInvGivesHistory DEF PagedInv, EngineInv, HistoriesStay
<1> QED
  BY <1>1, <1>2, <1>3, PTL DEF SuiteSpec
=============================================================================
