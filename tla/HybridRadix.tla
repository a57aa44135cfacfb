------------------------------- MODULE HybridRadix -------------------------------
(***************************************************************************)
(* HybridRadixCache (kvcache/hybrid_radix_cache.py): the radix tree of     *)
(* RadixTree with a second currency.  A node may carry a snapshot, a slot  *)
(* of the linear-state pool donated at the node's end; a match reaches no  *)
(* further than the deepest snapshot on its path.  KV and snapshots are    *)
(* locked together and evicted apart: evicting the snapshot of an inner    *)
(* node leaves a tombstone, of a leaf the whole leaf and the tombstones it *)
(* exposes.  Each eviction loop is one step per popped node.               *)
(***************************************************************************)
EXTENDS LockedTree

CONSTANT StateSlots   \* the slots of the linear-state pool

VARIABLES
  snap,         \* mamba_value of the nodes that have one
  mref,         \* mamba_ref_count of every node
  msize,        \* mamba_evictable and mamba_protected
  pool,         \* the caller's: slots that are not donated
  job           \* the eviction loop that is running

hybridVars == <<tree, snap, mref, msize, clock, locks, pool, job>>

\* The linear-state pool is finite.
HybridAssumption == PromptsAssumption /\ IsFiniteSet(StateSlots)

Idle == [kind |-> "none", left |-> 0]

HybridInit ==
  /\ tree = EmptyTree
  /\ snap = <<>>
  /\ mref = [q \in Paths |-> 0]
  /\ msize = [evictable |-> 0, protected |-> 0]
  /\ clock = 0
  /\ locks = [q \in Paths |-> 0]
  /\ pool = StateSlots
  /\ job = Idle

\* match_prefix: up from the matched node to the deepest live snapshot.
snapshot_boundary(p) ==
  LET q == matched_path(tree, p)
      ends == {n \in DOMAIN snap : IsPrefix(n, q)}
  IN  IF ends = {} THEN Root ELSE CHOOSE n \in ends : \A m \in ends : Len(m) <= Len(n)

\* inc_lock on the snapshot of the node.
inc_mamba(q) == IF q \in DOMAIN snap THEN [mref EXCEPT ![q] = @ + 1] ELSE mref

\* match_prefix, and inc_lock on the node it returns.
match_prefix(p) ==
  LET q == snapshot_boundary(p)
      held == q \in DOMAIN snap /\ mref[q] = 0
  IN  /\ job = Idle
      /\ clock < MaxClock
      /\ Cardinality(handles(locks)) < MaxLocks
      /\ tree' = lock_handle(tree_walk(tree, p, clock + 1), q)
      /\ mref' = inc_mamba(q)
      /\ msize' = IF held THEN [evictable |-> msize.evictable - 1,
                                protected |-> msize.protected + 1]
                  ELSE msize
      /\ locks' = [locks EXCEPT ![q] = @ + 1]
      /\ clock' = clock + 1
      /\ UNCHANGED <<snap, pool, job>>

\* dec_lock: the snapshot's count is taken down only while there is one.
dec_lock(q) ==
  LET counted == q \in DOMAIN snap /\ mref[q] > 0
  IN  /\ job = Idle
      /\ locks[q] > 0
      /\ tree' = unlock_handle(tree, q)
      /\ mref' = IF counted THEN [mref EXCEPT ![q] = @ - 1] ELSE mref
      /\ msize' = IF counted /\ mref[q] = 1
                  THEN [evictable |-> msize.evictable + 1, protected |-> msize.protected - 1]
                  ELSE msize
      /\ locks' = [locks EXCEPT ![q] = @ - 1]
      /\ UNCHANGED <<snap, clock, pool, job>>

\* insert: the boundary node cannot take the donated slot.
mamba_exist(p) == p = Root \/ p \in DOMAIN snap

\* insert, and the caller taking back a slot that was not attached.
insert(p, slot) ==
  /\ job = Idle
  /\ clock < MaxClock
  /\ slot \in pool
  /\ tree' = insert_prefix(tree, p, [i \in 1 .. Len(p) |-> <<i>>], clock + 1)
  /\ clock' = clock + 2
  /\ IF mamba_exist(p)
     THEN UNCHANGED <<snap, msize, pool>>
     ELSE /\ snap' = [n \in DOMAIN snap \union {p} |-> IF n = p THEN slot ELSE snap[n]]
          /\ msize' = [msize EXCEPT !.evictable = @ + IF mref[p] = 0 THEN 1 ELSE 0]
          /\ pool' = pool \ {slot}
  /\ UNCHANGED <<mref, locks, job>>

\* evict_full and evict_mamba take any number and free what they can.
evict_begin(kind, num) ==
  /\ job = Idle
  /\ job' = [kind |-> kind, left |-> num]
  /\ UNCHANGED <<tree, snap, mref, msize, clock, locks, pool>>

Candidates ==
  IF job.kind = "full" THEN evict_candidates(tree)
  ELSE {n \in DOMAIN snap : mref[n] = 0}

\* heappop: the node with the oldest timestamp.
Popped == {n \in Candidates : \A m \in Candidates : tree.stamp[n] <= tree.stamp[m]}

\* A bug: only the leaf itself goes.
cascade_nothing(n) == {n}

\* The leaf n and what _cascade_tombstone_leaves takes with it.
cascade(n) ==
  {m \in ancestors(tree, n) :
     \A k \in nodes(tree) : IsPrefix(m, k) =>
       k = n \/ (IsPrefix(k, n) /\ k \notin DOMAIN snap /\ tree.ref[k] = 0)}

cascade_tokens(n) == tokens(tree, cascade(n))

\* _unlink of the cascade.
unlinked(n) ==
  LET pages == edges(tree, cascade(n))
      kept == nodes(tree) \ cascade(n)
  IN  [tree EXCEPT !.value = [q \in DOMAIN tree.value \ pages |-> tree.value[q]],
                   !.ref = [m \in kept |-> tree.ref[m]],
                   !.stamp = [m \in kept |-> tree.stamp[m]],
                   !.evictable = @ - cascade_tokens(n)]

\* _free_node_mamba: the caller gets the slot back.
free_node_mamba(n) ==
  IF n \in DOMAIN snap
  THEN /\ snap' = [m \in DOMAIN snap \ {n} |-> snap[m]]
       /\ msize' = [msize EXCEPT !.evictable = @ - IF mref[n] = 0 THEN 1 ELSE 0]
       /\ pool' = pool \union {snap[n]}
  ELSE UNCHANGED <<snap, msize, pool>>

\* One round of evict_full.
evict_full(n) ==
  /\ job.kind = "full"
  /\ job.left > 0
  /\ n \in Popped
  /\ tree' = unlinked(n)
  /\ free_node_mamba(n)
  /\ job' = [job EXCEPT !.left = Max({0, @ - cascade_tokens(n)})]
  /\ UNCHANGED <<mref, clock, locks>>

\* One round of evict_mamba: a leaf goes with its KV, an inner node becomes a
\* tombstone.
evict_mamba(n) ==
  /\ job.kind = "mamba"
  /\ job.left > 0
  /\ n \in Popped
  /\ tree' = IF is_leaf(tree, n) /\ tree.ref[n] = 0 THEN unlinked(n) ELSE tree
  /\ free_node_mamba(n)
  /\ job' = [job EXCEPT !.left = @ - 1]
  /\ UNCHANGED <<mref, clock, locks>>

\* Enough is freed, or the heap is empty.
evict_end ==
  /\ job # Idle
  /\ job.left = 0 \/ Candidates = {}
  /\ job' = Idle
  /\ UNCHANGED <<tree, snap, mref, msize, clock, locks, pool>>

HybridNext ==
  \/ \E p \in Prompts : match_prefix(p)
  \/ \E q \in Paths : dec_lock(q)
  \/ \E p \in Prompts, slot \in pool : insert(p, slot)
  \/ \E num \in 1 .. 3 : evict_begin("full", num) \/ evict_begin("mamba", num)
  \/ \E n \in nodes(tree) : evict_full(n) \/ evict_mamba(n)
  \/ evict_end

HybridSpec == HybridInit /\ [][HybridNext]_hybridVars

-----------------------------------------------------------------------------
\* Every variable of the hybrid cache keeps its type.
HybridTypeOK ==
  /\ nodes(tree) \subseteq Paths \ {Root}
  /\ DOMAIN snap \subseteq nodes(tree)
  /\ \A n \in DOMAIN snap : snap[n] \in StateSlots
  /\ mref \in [Paths -> Nat]
  /\ msize \in [evictable : Nat, protected : Nat]
  /\ tree.evictable \in Nat /\ tree.protected \in Nat
  /\ pool \subseteq StateSlots

\* _cascade_tombstone_leaves: "a leaf always carries a live snapshot", after
\* every split, tombstone, eviction of either kind and in the middle of one.
LeafHasSnapshot == \A n \in nodes(tree) : is_leaf(tree, n) => n \in DOMAIN snap

\* inc_lock and dec_lock pair up whatever is split, inserted or evicted between
\* them: a node's KV count is the locks at or below it, its snapshot's count
\* the locks on the node itself ("full_ref >= mamba_ref").
BothCountsAreLocks ==
  /\ \A n \in nodes(tree) :
       tree.ref[n] = Cardinality({h \in handles(locks) : IsPrefix(n, h[1])})
  /\ \A q \in Paths \ {Root} : mref[q] = locks[q]

\* What a lock holds on to is not evicted: the path of a locked node keeps its
\* KV slots and the node its snapshot until the lock is released.
LockedPrefixKept ==
  [][\A q \in Paths \ {Root} : locks[q] > 0 =>
       /\ q \in DOMAIN snap' /\ snap'[q] = snap[q]
       /\ \A k \in 1 .. Len(q) :
            tree'.value[SubSeq(q, 1, k)] = tree.value[SubSeq(q, 1, k)]]_hybridVars

\* The four size counters agree with the tree and its snapshots, between any
\* two rounds of an eviction.
SizesMatchTree ==
  /\ SizesAgree(tree)
  /\ msize.evictable = Cardinality({n \in DOMAIN snap : mref[n] = 0})
  /\ msize.protected = Cardinality({n \in DOMAIN snap : mref[n] > 0})

\* A donated slot is in the tree once or with the caller, never both or lost,
\* though an insert may refuse it and either eviction may return it.
SlotsConserved ==
  /\ {snap[n] : n \in DOMAIN snap} \union pool = StateSlots
  /\ Cardinality(DOMAIN snap) + Cardinality(pool) = Cardinality(StateSlots)

\* mamba_evictable_size and full_evictable_size can be collected: a loop ends
\* with an empty heap only when nothing unlocked is left.
NothingLeftBehind ==
  job # Idle /\ Candidates = {} =>
    IF job.kind = "full" THEN tree.evictable = 0 ELSE msize.evictable = 0
=============================================================================
