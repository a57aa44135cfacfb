------------------------------- MODULE RadixCache -------------------------------
(***************************************************************************)
(* RadixPrefixCache as its users drive it through CacheManager: a match is *)
(* locked at once, a lock is released later, a finished sequence is        *)
(* inserted, and evict() pops least recently used leaves until it has      *)
(* freed enough.  The loop of evict() is one step per popped leaf.         *)
(***************************************************************************)
EXTENDS LockedTree

CONSTANT SlotRuns   \* the slots a client may offer for a page

VARIABLE evicting   \* the tokens evict() has still to free, 0 outside evict()

vars == <<tree, clock, locks, evicting>>

Init ==
  /\ tree = EmptyTree
  /\ clock = 0
  /\ locks = [q \in Paths |-> 0]
  /\ evicting = 0

\* CacheManager.match and lock, which Engine.add_request calls back to back.
match_and_lock(p) ==
  /\ evicting = 0
  /\ clock < MaxClock
  /\ Cardinality(handles(locks)) < MaxLocks
  /\ tree' = lock_handle(tree_walk(tree, p, clock + 1), matched_path(tree, p))
  /\ clock' = clock + 1
  /\ locks' = [locks EXCEPT ![matched_path(tree, p)] = @ + 1]
  /\ UNCHANGED evicting

unlock(q) ==
  /\ evicting = 0
  /\ locks[q] > 0
  /\ tree' = unlock_handle(tree, q)
  /\ locks' = [locks EXCEPT ![q] = @ - 1]
  /\ UNCHANGED <<clock, evicting>>

commit(p, run) ==
  /\ evicting = 0
  /\ clock < MaxClock
  /\ tree' = insert_prefix(tree, p, [i \in 1 .. Len(p) |-> run], clock + 1)
  /\ clock' = clock + 2
  /\ UNCHANGED <<locks, evicting>>

\* evict(size) refuses more than evictable_size.
evict(size) ==
  /\ evicting = 0
  /\ size <= tree.evictable
  /\ evicting' = size
  /\ UNCHANGED <<tree, clock, locks>>

evict_pop ==
  /\ evicting > 0
  /\ \E n \in nodes(tree) :
       /\ lru_leaf(tree, n)
       /\ tree' = drop_leaf(tree, n)
       /\ evicting' = Max({0, evicting - node_length(tree, n)})
  /\ UNCHANGED <<clock, locks>>

\* reset() orphans every handle, so it is called only when there is none.
reset ==
  /\ evicting = 0
  /\ \A q \in Paths : locks[q] = 0
  /\ tree' = EmptyTree
  /\ UNCHANGED <<clock, locks, evicting>>

-----------------------------------------------------------------------------
Next ==
  \/ \E p \in Prompts : match_and_lock(p)
  \/ \E q \in Paths : unlock(q)
  \/ \E p \in Prompts, run \in SlotRuns : commit(p, run)
  \/ \E size \in 1 .. (tree.evictable + tree.protected) : evict(size)
  \/ evict_pop
  \/ reset

Spec == Init /\ [][Next]_vars

-----------------------------------------------------------------------------
(***************************************************************************)
(* Properties.                                                             *)
(***************************************************************************)
\* Every variable of the prefix cache keeps its type.
TypeOK ==
  /\ DOMAIN tree.value \subseteq Paths \ {Root}
  /\ \A q \in DOMAIN tree.value : tree.value[q] \in SlotRuns
  /\ nodes(tree) \subseteq DOMAIN tree.value
  /\ DOMAIN tree.stamp = nodes(tree)
  /\ \A n \in nodes(tree) : tree.ref[n] \in Nat /\ tree.stamp[n] \in 1 .. clock
  /\ tree.evictable \in Nat
  /\ tree.protected \in Nat
  /\ clock \in Nat
  /\ locks \in [Paths -> Nat]
  /\ evicting \in Nat

\* split_at, insert_prefix and evict keep the tree a radix tree.
TreeWellFormed == WellFormed(tree)

\* ref_count counts the unreleased handles at or below a node, whatever splits
\* and inserts came between lock and unlock.
RefCountsAreLocks ==
  \A n \in nodes(tree) :
    tree.ref[n] = Cardinality({h \in handles(locks) : IsPrefix(n, h[1])})

\* evictable_size and protected_size stay equal to what they count.
SizeInfoAgrees == SizesAgree(tree)

\* The assertion in the loop of evict(): what evictable_size promises can be
\* reached leaf by leaf, so the heap never runs out early.
EvictNeverStuck == evicting > 0 => evict_candidates(tree) # {} /\ evicting <= tree.evictable

\* The radix tree is a prefix cache.
Abstract == INSTANCE PrefixCache WITH cache <- tree.value

\* RadixPrefixCache implements the BasePrefixCache interface: longest match,
\* stable slots, and no eviction of a prefix a handle holds on to.
ImplementsPrefixCache == Abstract!Spec
=============================================================================
