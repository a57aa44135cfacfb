---------------------------- MODULE PrefixCacheProofs ----------------------------
(***************************************************************************)
(* The two prefix caches on the radix tree, for every set of prompts, of   *)
(* slots and of bounds.                                                    *)
(*                                                                         *)
(* RadixCache: its tree stays a radix tree, its ref counts are the         *)
(* unreleased handles, its two sizes are what they count, evict() never    *)
(* runs out of leaves, and all of it is the prefix cache of PrefixCache.   *)
(* HybridRadix: both ref counts are the unreleased locks, every leaf       *)
(* carries a snapshot, the four sizes are what they count, no state slot   *)
(* is lost, and what a lock holds on to survives evictions of either kind. *)
(***************************************************************************)
EXTENDS RadixCache, HybridRadix, RadixTreeProofs

\* The path of the handle <<q, k>>.
handle_path == [h \in Paths \X Nat |-> h[1]]

\* The inductive invariant.
Inv ==
  /\ TreeInv(tree, Pages)
  /\ CountsHandles(tree, handles(locks), handle_path)
  /\ SizesAgree(tree)
  /\ DOMAIN tree.value \subseteq Paths
  /\ \A q \in DOMAIN tree.value : tree.value[q] \in SlotRuns
  /\ \A n \in nodes(tree) : tree.stamp[n] \in 1 .. clock
  /\ clock \in Nat
  /\ locks \in [Paths -> Nat]
  /\ evicting \in Nat
  /\ evicting <= tree.evictable

-----------------------------------------------------------------------------
\* The paths are sequences of pages.
LEMMA PathsAreSequences ==
  ASSUME PromptsAssumption
  PROVE  /\ Paths \subseteq Seq(Pages)
         /\ \A p \in Prompts : p \in Seq(Pages) /\ Prefixes(p) \subseteq Paths
         /\ \A p \in Prompts, q \in Seq(Pages) : IsPrefix(q, p) => q \in Paths
<1>1. \A p \in Prompts : p \in Seq(Pages)
  BY DEF PromptsAssumption
<1>2. \A p \in Prompts : Prefixes(p) = {q \in Seq(Pages) : IsPrefix(q, p)}
  BY <1>1, PrefixesMeaning
<1> QED
  BY <1>1, <1>2 DEF Paths

\* The steps of the locks are steps of the handles, whose paths they name.
LEMMA HandleSteps ==
  ASSUME locks \in [Paths -> Nat], NEW q \in Paths
  PROVE  /\ locks' = [locks EXCEPT ![q] = @ + 1] =>
              /\ handles(locks') = handles(locks) \union {<<q, locks[q] + 1>>}
              /\ <<q, locks[q] + 1>> \notin handles(locks)
         /\ locks' = [locks EXCEPT ![q] = @ - 1] /\ locks[q] > 0 =>
              /\ handles(locks') = handles(locks) \ {<<q, locks[q]>>}
              /\ <<q, locks[q]>> \in handles(locks)
         /\ \A h \in handles(locks) : handle_path[h] = h[1]
         /\ \A r \in Paths : locks[r] > 0 => \E h \in handles(locks) : h[1] = r
         /\ \A h \in handles(locks) : locks[h[1]] > 0
<1>1. handles(locks) \subseteq Paths \X Nat
  BY HandlesMeaning
<1>2. \A h \in handles(locks) : handle_path[h] = h[1]
  BY <1>1 DEF handle_path
<1>3. ASSUME locks' = [locks EXCEPT ![q] = @ + 1]
      PROVE  /\ handles(locks') = handles(locks) \union {<<q, locks[q] + 1>>}
             /\ <<q, locks[q] + 1>> \notin handles(locks)
  BY <1>3, HandlesMove
<1>4. ASSUME locks' = [locks EXCEPT ![q] = @ - 1], locks[q] > 0
      PROVE  /\ handles(locks') = handles(locks) \ {<<q, locks[q]>>}
             /\ <<q, locks[q]>> \in handles(locks)
  BY <1>4, HandlesMove
<1>5. /\ \A r \in Paths : locks[r] > 0 => \E h \in handles(locks) : h[1] = r
      /\ \A h \in handles(locks) : locks[h[1]] > 0
  BY HandlesMeaning
<1> QED
  BY <1>2, <1>3, <1>4, <1>5

\* The empty cache.
LEMMA InitInv ==
  ASSUME PromptsAssumption, Init
  PROVE  Inv
<1>1. /\ tree = EmptyTree /\ clock = 0 /\ evicting = 0
      /\ locks = [q \in Paths |-> 0]
  BY DEF Init
<1>2. handles(locks) = {}
  BY <1>1 DEF handles
<1>3. /\ TreeInv(tree, Pages) /\ SizesAgree(tree)
      /\ CountsHandles(tree, handles(locks), handle_path)
      /\ nodes(tree) = {} /\ DOMAIN tree.value = {}
  BY <1>1, <1>2, EmptyTreeIsSound
<1>4. tree.evictable = 0
  BY <1>1 DEF EmptyTree
<1> QED
  BY <1>1, <1>3, <1>4 DEF Inv

\* match_and_lock: the walk, then the lock of the matched node.
LEMMA MatchAndLockKeeps ==
  ASSUME PromptsAssumption, Inv, NEW p \in Prompts, match_and_lock(p)
  PROVE  Inv'
<1> DEFINE q == matched_path(tree, p)
           w == tree_walk(tree, p, clock + 1)
           h == <<q, locks[q] + 1>>
<1>1. p \in Seq(Pages)
  BY PathsAreSequences
<1>2. /\ TreeInv(tree, Pages) /\ SizesAgree(tree)
      /\ CountsHandles(tree, handles(locks), handle_path)
      /\ DOMAIN tree.value \subseteq Paths
      /\ \A x \in DOMAIN tree.value : tree.value[x] \in SlotRuns
      /\ \A n \in nodes(tree) : tree.stamp[n] \in 1 .. clock
      /\ clock \in Nat /\ locks \in [Paths -> Nat]
  BY DEF Inv
<1>3. /\ tree' = lock_handle(w, q) /\ clock' = clock + 1
      /\ locks' = [locks EXCEPT ![q] = @ + 1]
      /\ evicting = 0 /\ evicting' = 0
  BY DEF match_and_lock
<1>4. q \in Paths
  BY <1>1, <1>2, MatchedPath, PathsAreSequences
<1>5. /\ TreeInv(w, Pages) /\ SizesAgree(w)
      /\ CountsHandles(w, handles(locks), handle_path)
      /\ q \in nodes(w) \union {Root}
  BY <1>1, <1>2, WalkKeepsShape, WalkKeepsSizes, WalkKeepsCounts
<1>6. /\ w.value = tree.value
      /\ \A n \in nodes(w) :
           w.stamp[n] = clock + 1 \/ (n \in nodes(tree) /\ w.stamp[n] = tree.stamp[n])
  BY <1>1, <1>2, WalkFacts
<1>7. /\ handles(locks') = handles(locks) \union {h} /\ h \notin handles(locks)
      /\ handle_path[h] = q
  <2>1. handle_path[h] = q
    BY <1>2, <1>4 DEF handle_path
  <2> QED
    BY <1>2, <1>3, <1>4, <2>1, HandleSteps
<1>8. /\ lock_handle(w, q).value = w.value
      /\ lock_handle(w, q).stamp = w.stamp
      /\ nodes(lock_handle(w, q)) = nodes(w)
  BY <1>5, LockFields DEF TreeInv
<1> HIDE DEF q, w, h
<1>9. TreeInv(lock_handle(w, q), Pages)
  BY <1>5, <1>7, LockKeeps
<1>10. CountsHandles(lock_handle(w, q), handles(locks) \union {h}, handle_path)
  BY <1>5, <1>7, LockKeeps
<1>11. SizesAgree(lock_handle(w, q))
  BY <1>5, LockKeepsSizes
<1>12. tree'.evictable \in Nat
  BY <1>3, <1>9, <1>11, SizesAreNatural
<1>13. CountsHandles(tree, handles(locks), handle_path)'
  BY <1>3, <1>7, <1>10 DEF handle_path
<1>14. \A n \in nodes(tree') : tree'.stamp[n] \in 1 .. clock'
  BY <1>2, <1>3, <1>6, <1>8
<1>15. tree'.value = tree.value
  BY <1>3, <1>6, <1>8
<1>16. locks' \in [Paths -> Nat]
  BY <1>2, <1>3, <1>4
<1>17. TreeInv(tree', Pages) /\ SizesAgree(tree')
  BY <1>3, <1>9, <1>11
<1>18. clock' \in Nat /\ evicting' \in Nat /\ evicting' <= tree'.evictable
  BY <1>2, <1>3, <1>12
<1> QED
  BY <1>2, <1>13, <1>14, <1>15, <1>16, <1>17, <1>18 DEF Inv

\* unlock releases the last handle at q.
LEMMA UnlockStepKeeps ==
  ASSUME PromptsAssumption, Inv, NEW q \in Paths, unlock(q)
  PROVE  Inv'
<1> DEFINE h == <<q, locks[q]>>
<1>1. /\ TreeInv(tree, Pages) /\ SizesAgree(tree)
      /\ CountsHandles(tree, handles(locks), handle_path)
      /\ DOMAIN tree.value \subseteq Paths
      /\ \A x \in DOMAIN tree.value : tree.value[x] \in SlotRuns
      /\ \A n \in nodes(tree) : tree.stamp[n] \in 1 .. clock
      /\ clock \in Nat /\ locks \in [Paths -> Nat]
  BY DEF Inv
<1>2. /\ tree' = unlock_handle(tree, q) /\ clock' = clock
      /\ locks' = [locks EXCEPT ![q] = @ - 1] /\ locks[q] > 0
      /\ evicting = 0 /\ evicting' = 0
  BY DEF unlock
<1>3. handles(locks') = handles(locks) \ {h} /\ h \in handles(locks) /\ handle_path[h] = q
  <2>1. handle_path[h] = q
    BY <1>1 DEF handle_path
  <2> QED
    BY <1>1, <1>2, <2>1, HandleSteps
<1>4. /\ unlock_handle(tree, q).value = tree.value
      /\ unlock_handle(tree, q).stamp = tree.stamp
      /\ nodes(unlock_handle(tree, q)) = nodes(tree)
  BY <1>1, LockFields DEF TreeInv
<1> HIDE DEF h
<1>5. TreeInv(unlock_handle(tree, q), Pages)
  BY <1>1, <1>3, UnlockKeeps
<1>6. CountsHandles(unlock_handle(tree, q), handles(locks) \ {h}, handle_path)
  BY <1>1, <1>3, UnlockKeeps
<1>7. SizesAgree(unlock_handle(tree, q))
  BY <1>1, <1>3, UnlockKeepsSizes
<1>8. tree'.evictable \in Nat
  BY <1>2, <1>5, <1>7, SizesAreNatural
<1>9. CountsHandles(tree, handles(locks), handle_path)'
  BY <1>2, <1>3, <1>6 DEF handle_path
<1>10. locks' \in [Paths -> Nat]
  BY <1>1, <1>2
<1>11. /\ tree'.value = tree.value
       /\ \A n \in nodes(tree') : tree'.stamp[n] \in 1 .. clock'
  BY <1>1, <1>2, <1>4
<1> QED
  BY <1>1, <1>2, <1>5, <1>7, <1>8, <1>9, <1>10, <1>11 DEF Inv

\* commit inserts a finished sequence.
LEMMA CommitKeeps ==
  ASSUME PromptsAssumption, Inv, NEW p \in Prompts, NEW run \in SlotRuns, commit(p, run)
  PROVE  Inv'
<1> DEFINE slots == [i \in 1 .. Len(p) |-> run]
           w == tree_walk(tree, p, clock + 1)
           t == insert_prefix(tree, p, slots, clock + 1)
<1>1. p \in Seq(Pages)
  BY PathsAreSequences
<1>2. /\ TreeInv(tree, Pages) /\ SizesAgree(tree)
      /\ CountsHandles(tree, handles(locks), handle_path)
      /\ DOMAIN tree.value \subseteq Paths
      /\ \A x \in DOMAIN tree.value : tree.value[x] \in SlotRuns
      /\ \A n \in nodes(tree) : tree.stamp[n] \in 1 .. clock
      /\ clock \in Nat /\ locks \in [Paths -> Nat]
  BY DEF Inv
<1>3. /\ tree' = t /\ clock' = clock + 2 /\ locks' = locks
      /\ evicting = 0 /\ evicting' = 0
  BY DEF commit
<1>4. /\ DOMAIN t.value = DOMAIN tree.value \union missing(tree, p, Pages)
      /\ \A x \in DOMAIN tree.value : t.value[x] = tree.value[x]
      /\ \A x \in missing(tree, p, Pages) : t.value[x] = slots[Len(x)]
      /\ nodes(t) = nodes(w) \union new_leaf(tree, p)
      /\ \A n \in nodes(w) : t.stamp[n] = w.stamp[n]
      /\ \A n \in new_leaf(tree, p) : t.stamp[n] = clock + 1 + 1
  BY <1>1, <1>2, InsertFacts
<1>5. \A n \in nodes(w) :
         w.stamp[n] = clock + 1 \/ (n \in nodes(tree) /\ w.stamp[n] = tree.stamp[n])
  BY <1>1, <1>2, WalkFacts
<1>6. TreeInv(t, Pages)
  BY <1>1, <1>2, InsertKeepsShape
<1>7. CountsHandles(t, handles(locks), handle_path)
  BY <1>1, <1>2, InsertKeepsCounts
<1>8. SizesAgree(t)
  BY <1>1, <1>2, InsertKeepsSizes
<1>9. \A x \in missing(tree, p, Pages) : x \in Paths /\ t.value[x] \in SlotRuns
  <2> TAKE x \in missing(tree, p, Pages)
  <2>1. x \in Paths
    BY PathsAreSequences DEF missing
  <2>2. Len(x) \in 1 .. Len(p)
    <3>1. Len(x) \in (matched_pages(tree, p) + 1) .. Len(p)
      BY <1>1, <1>2, MissingPages
    <3>2. matched_pages(tree, p) \in 0 .. Len(p) /\ Len(p) \in Nat
      BY <1>1, <1>2, MatchedPath, LenProperties
    <3> QED
      BY <3>1, <3>2
  <2>3. slots[Len(x)] = run
    BY <2>2
  <2> QED
    BY <1>4, <2>1, <2>3
<1> HIDE DEF w, t, slots
<1>10. tree'.evictable \in Nat
  BY <1>3, <1>6, <1>8, SizesAreNatural
<1>11. handles(locks') = handles(locks)
  BY <1>3 DEF handles
<1>12. CountsHandles(tree, handles(locks), handle_path)'
  BY <1>3, <1>7, <1>11 DEF handle_path
<1>13. \A n \in nodes(tree') : tree'.stamp[n] \in 1 .. clock'
  BY <1>2, <1>3, <1>4, <1>5
<1>14. /\ DOMAIN tree'.value \subseteq Paths
       /\ \A x \in DOMAIN tree'.value : tree'.value[x] \in SlotRuns
  BY <1>2, <1>3, <1>4, <1>9
<1> QED
  BY <1>2, <1>3, <1>6, <1>8, <1>10, <1>12, <1>13, <1>14 DEF Inv

\* One pop of evict().
LEMMA EvictPopKeeps ==
  ASSUME PromptsAssumption, Inv, evict_pop
  PROVE  Inv'
<1>1. PICK n \in nodes(tree) :
        /\ lru_leaf(tree, n)
        /\ tree' = drop_leaf(tree, n)
        /\ evicting' = Max({0, evicting - node_length(tree, n)})
  BY DEF evict_pop
<1>2. is_leaf(tree, n) /\ tree.ref[n] = 0
  BY <1>1 DEF lru_leaf, evict_candidates
<1>3. /\ TreeInv(tree, Pages) /\ SizesAgree(tree)
      /\ CountsHandles(tree, handles(locks), handle_path)
      /\ DOMAIN tree.value \subseteq Paths
      /\ \A x \in DOMAIN tree.value : tree.value[x] \in SlotRuns
      /\ \A m \in nodes(tree) : tree.stamp[m] \in 1 .. clock
      /\ clock \in Nat /\ locks \in [Paths -> Nat]
      /\ evicting \in Nat /\ evicting <= tree.evictable
  BY DEF Inv
<1>4. clock' = clock /\ locks' = locks
  BY DEF evict_pop
<1> DEFINE d == drop_leaf(tree, n)
<1>5. /\ DOMAIN d.value = DOMAIN tree.value \ edge(tree, n)
      /\ \A x \in DOMAIN d.value : d.value[x] = tree.value[x]
      /\ nodes(d) = nodes(tree) \ {n}
      /\ \A m \in nodes(d) : d.stamp[m] = tree.stamp[m]
      /\ d.evictable = tree.evictable - node_length(tree, n)
  BY <1>3, DropFields DEF TreeInv
<1>6. TreeInv(d, Pages)
  BY <1>2, <1>3, DropKeepsShape
<1>7. CountsHandles(d, handles(locks), handle_path)
  BY <1>2, <1>3, DropKeepsCounts
<1>8. /\ SizesAgree(d)
      /\ node_length(tree, n) \in Nat /\ node_length(tree, n) <= tree.evictable
  BY <1>2, <1>3, DropKeepsSizes
<1>9. tree.evictable \in Nat
  BY <1>3, SizesAreNatural
<1> HIDE DEF d
<1>10. handles(locks') = handles(locks)
  BY <1>4 DEF handles
<1>11. CountsHandles(tree, handles(locks), handle_path)'
  BY <1>1, <1>7, <1>10 DEF handle_path, d
<1>12. evicting' \in Nat /\ evicting' <= d.evictable
  <2> DEFINE a == evicting - node_length(tree, n)
  <2>1. a \in Int /\ a <= d.evictable /\ 0 <= d.evictable
    BY <1>3, <1>5, <1>8, <1>9
  <2> HIDE DEF a
  <2>2. Max({0, a}) = IF 0 > a THEN 0 ELSE a
    BY <2>1, OfTwo
  <2>3. evicting' = Max({0, a})
    BY <1>1 DEF a
  <2> QED
    BY <2>1, <2>2, <2>3
<1>13. tree' = d
  BY <1>1 DEF d
<1>14. /\ DOMAIN tree'.value \subseteq Paths
       /\ \A x \in DOMAIN tree'.value : tree'.value[x] \in SlotRuns
       /\ \A m \in nodes(tree') : tree'.stamp[m] \in 1 .. clock'
  BY <1>3, <1>4, <1>5, <1>13
<1> QED
  BY <1>3, <1>4, <1>6, <1>8, <1>11, <1>12, <1>13, <1>14 DEF Inv

\* Every step keeps the invariant.
LEMMA StepInv ==
  ASSUME PromptsAssumption, Inv, Next
  PROVE  Inv'
<1>1. ASSUME NEW p \in Prompts, match_and_lock(p) PROVE Inv'
  BY <1>1, MatchAndLockKeeps
<1>2. ASSUME NEW q \in Paths, unlock(q) PROVE Inv'
  BY <1>2, UnlockStepKeeps
<1>3. ASSUME NEW p \in Prompts, NEW run \in SlotRuns, commit(p, run) PROVE Inv'
  BY <1>3, CommitKeeps
<1>4. ASSUME NEW size \in 1 .. (tree.evictable + tree.protected), evict(size) PROVE Inv'
  <2>1. /\ tree' = tree /\ clock' = clock /\ locks' = locks
        /\ evicting' = size /\ size <= tree.evictable
    BY <1>4 DEF evict
  <2>2. tree.evictable \in Nat /\ tree.protected \in Nat
    BY SizesAreNatural DEF Inv
  <2>3. evicting' \in Nat
    BY <2>1, <2>2
  <2>4. handles(locks') = handles(locks)
    BY <2>1 DEF handles
  <2>5. CountsHandles(tree, handles(locks), handle_path)'
    BY <2>1, <2>4 DEF Inv, handle_path
  <2> QED
    BY <2>1, <2>3, <2>5 DEF Inv
<1>5. ASSUME evict_pop PROVE Inv'
  BY <1>5, EvictPopKeeps
<1>6. ASSUME reset PROVE Inv'
  <2>1. /\ tree' = EmptyTree /\ clock' = clock /\ locks' = locks
        /\ evicting = 0 /\ evicting' = evicting
        /\ \A q \in Paths : locks[q] = 0
    BY <1>6 DEF reset
  <2>2. handles(locks') = {}
    <3>1. locks \in [Paths -> Nat]
      BY DEF Inv
    <3>2. \A h \in handles(locks) : h \in Paths \X Nat /\ locks[h[1]] > 0
      BY <3>1, HandlesMeaning
    <3> QED
      BY <2>1, <3>2
  <2>3. /\ TreeInv(EmptyTree, Pages) /\ SizesAgree(EmptyTree)
        /\ CountsHandles(EmptyTree, {}, handle_path)
        /\ nodes(EmptyTree) = {} /\ DOMAIN EmptyTree.value = {}
    BY EmptyTreeIsSound
  <2>4. EmptyTree.evictable = 0
    BY DEF EmptyTree
  <2>5. CountsHandles(tree, handles(locks), handle_path)'
    BY <2>1, <2>2, <2>3 DEF handle_path
  <2> QED
    BY <2>1, <2>3, <2>4, <2>5 DEF Inv
<1> QED
  BY <1>1, <1>2, <1>3, <1>4, <1>5, <1>6 DEF Next

\* The steps that change nothing keep it too.
LEMMA StutterInv ==
  ASSUME Inv, UNCHANGED vars
  PROVE  Inv'
<1>1. tree' = tree /\ clock' = clock /\ locks' = locks /\ evicting' = evicting
  BY DEF vars
<1>2. handles(locks') = handles(locks)
  BY <1>1 DEF handles
<1>3. CountsHandles(tree, handles(locks), handle_path)'
  BY <1>1, <1>2 DEF Inv, handle_path
<1> QED
  BY <1>1, <1>3 DEF Inv

\* What the invariant says.
LEMMA InvSays ==
  ASSUME PromptsAssumption, Inv
  PROVE  /\ TypeOK
         /\ TreeWellFormed
         /\ RefCountsAreLocks
         /\ SizeInfoAgrees
         /\ EvictNeverStuck
<1>1. /\ TreeInv(tree, Pages) /\ SizesAgree(tree)
      /\ CountsHandles(tree, handles(locks), handle_path)
      /\ DOMAIN tree.value \subseteq Paths
      /\ \A x \in DOMAIN tree.value : tree.value[x] \in SlotRuns
      /\ \A m \in nodes(tree) : tree.stamp[m] \in 1 .. clock
      /\ clock \in Nat /\ locks \in [Paths -> Nat]
      /\ evicting \in Nat /\ evicting <= tree.evictable
  BY DEF Inv
<1>2. tree.evictable \in Nat /\ tree.protected \in Nat
  BY <1>1, SizesAreNatural
<1>3. /\ nodes(tree) \subseteq DOMAIN tree.value
      /\ Root \notin DOMAIN tree.value
      /\ DOMAIN tree.stamp = nodes(tree)
  <2>1. DOMAIN tree.stamp = nodes(tree)
    BY <1>1 DEF TreeInv
  <2> QED
    BY <1>1, <2>1, NodesArePaths
<1>4. \A n \in nodes(tree) : tree.ref[n] \in Nat
  BY <1>1, CountsMeaning
<1>5. TypeOK
  BY <1>1, <1>2, <1>3, <1>4 DEF TypeOK
<1>6. TreeWellFormed
  BY <1>1, ShapeIsWellFormed DEF TreeWellFormed
<1>7. RefCountsAreLocks
  <2> SUFFICES ASSUME NEW n \in nodes(tree)
               PROVE  tree.ref[n] = Cardinality({h \in handles(locks) : IsPrefix(n, h[1])})
    BY DEF RefCountsAreLocks
  <2>1. tree.ref[n] = Cardinality({h \in handles(locks) : IsPrefix(n, handle_path[h])})
    BY <1>1 DEF CountsHandles
  <2>2. \A h \in handles(locks) : handle_path[h] = h[1]
    <3>1. locks \in [Paths -> Nat]
      BY DEF Inv
    <3>2. handles(locks) \subseteq Paths \X Nat
      BY <3>1, HandlesMeaning
    <3> QED
      BY <3>2 DEF handle_path
  <2>3. {h \in handles(locks) : IsPrefix(n, handle_path[h])}
          = {h \in handles(locks) : IsPrefix(n, h[1])}
    BY <2>2
  <2> QED
    BY <2>1, <2>3
<1>8. EvictNeverStuck
  <2> SUFFICES ASSUME evicting > 0 PROVE evict_candidates(tree) # {}
    BY <1>1 DEF EvictNeverStuck
  <2>1. tree.evictable > 0
    BY <1>1, <1>2
  <2> QED
    BY <1>1, <2>1, LeafToEvict
<1> QED
  BY <1>1, <1>5, <1>6, <1>7, <1>8 DEF SizeInfoAgrees

\* The radix cache stays sound: its tree is a radix tree, its ref counts are
\* the unreleased handles, its sizes what they count, and evict() finds a leaf
\* as long as it has something to free.
THEOREM RadixCacheIsSound ==
  ASSUME PromptsAssumption
  PROVE  Spec => [](/\ TypeOK
                    /\ TreeWellFormed
                    /\ RefCountsAreLocks
                    /\ SizeInfoAgrees
                    /\ EvictNeverStuck)
<1>1. Init => Inv
  BY InitInv
<1>2. Inv /\ [Next]_vars => Inv'
  BY StepInv, StutterInv
<1>3. Inv => /\ TypeOK
             /\ TreeWellFormed
             /\ RefCountsAreLocks
             /\ SizeInfoAgrees
             /\ EvictNeverStuck
  BY InvSays
<1> QED
  BY <1>1, <1>2, <1>3, PTL DEF Spec

-----------------------------------------------------------------------------
(***************************************************************************)
(* The radix cache is the prefix cache of PrefixCache.                     *)
(***************************************************************************)
\* The two modules read the same sequences alike.
LEMMA SameReading ==
  /\ \A s, t : Abstract!IsPrefix(s, t) <=> IsPrefix(s, t)
  /\ \A p : Abstract!Prefixes(p) = Prefixes(p)
  /\ \A K : Abstract!Max(K) = Max(K)
  /\ Abstract!Paths = Paths
<1>1. \A s, t : Abstract!IsPrefix(s, t) <=> IsPrefix(s, t)
  BY DEF Abstract!IsPrefix, IsPrefix
<1>2. \A p : Abstract!Prefixes(p) = Prefixes(p)
  BY DEF Abstract!Prefixes, Prefixes
<1>3. \A K : Abstract!Max(K) = Max(K)
  BY DEF Abstract!Max, Max
<1>4. Abstract!Paths = Paths
  BY <1>2 DEF Abstract!Paths, Paths
<1> QED
  BY <1>1, <1>2, <1>3, <1>4

\* A pop of evict() takes prefixes that no lock covers, with all that extends
\* them.
LEMMA PopIsEvict ==
  ASSUME PromptsAssumption, Inv, evict_pop
  PROVE  Abstract!Evict
<1>1. PICK n \in nodes(tree) : lru_leaf(tree, n) /\ tree' = drop_leaf(tree, n)
  BY DEF evict_pop
<1>2. is_leaf(tree, n) /\ tree.ref[n] = 0
  BY <1>1 DEF lru_leaf, evict_candidates
<1>3. /\ TreeInv(tree, Pages) /\ locks' = locks /\ locks \in [Paths -> Nat]
      /\ CountsHandles(tree, handles(locks), handle_path)
  BY DEF Inv, evict_pop
<1> DEFINE gone == edge(tree, n)
<1>4. gone = {x \in DOMAIN tree.value : Ends(tree, x, n)}
  BY <1>3, EdgeMeaning
<1>5. nodes(tree) \subseteq DOMAIN tree.value /\ DOMAIN tree.value \subseteq Seq(Pages) \ {Root}
  BY <1>3, NodesArePaths
<1>6. gone # {} /\ gone \in SUBSET DOMAIN tree.value
  <2>1. Ends(tree, n, n)
    BY <1>3, <1>5, EndsUnique
  <2> QED
    BY <1>4, <1>5, <2>1
<1>7. \A q \in gone : ~ Abstract!Locked(q)
  <2> SUFFICES ASSUME NEW q \in gone, NEW l \in Paths, locks[l] > 0, IsPrefix(q, l)
               PROVE  FALSE
    BY SameReading DEF Abstract!Locked
  <2>1. PICK h \in handles(locks) : h[1] = l
    BY <1>3, HandleSteps
  <2>2. handle_path[h] = l
    BY <1>3, <2>1, HandleSteps
  <2>3. q \in Seq(Pages) \ {Root}
    BY <1>5, <1>6
  <2>4. q \in DOMAIN drop_leaf(tree, n).value
    BY <1>2, <1>3, <2>2, <2>3, DropKeepsHandles
  <2>5. DOMAIN drop_leaf(tree, n).value = DOMAIN tree.value \ gone
    BY <1>3, DropFields DEF TreeInv
  <2> QED
    BY <2>4, <2>5
<1>8. \A q \in DOMAIN tree.value \ gone : \A g \in gone : ~ IsPrefix(g, q)
  <2> SUFFICES ASSUME NEW q \in DOMAIN tree.value, NEW g \in gone, IsPrefix(g, q)
               PROVE  q \in gone
    OBVIOUS
  <2>1. PICK m \in nodes(tree) : Ends(tree, q, m)
    BY <1>3 DEF TreeInv
  <2>2. q \in Seq(Pages) /\ g \in Seq(Pages) /\ m \in Seq(Pages) /\ n \in Seq(Pages)
    BY <1>5, <1>6
  <2>3. IsPrefix(g, m)
    BY <2>1, <2>2, PrefixOrder DEF Ends
  <2>4. IsPrefix(n, m)
    BY <1>4, <2>3 DEF Ends
  <2>5. m = n
    BY <1>2, <2>4 DEF is_leaf, IsStrictPrefix
  <2> QED
    BY <1>4, <2>1, <2>5
<1>9. tree'.value = [q \in DOMAIN tree.value \ gone |-> tree.value[q]]
  <2>1. DOMAIN tree = {"value", "ref", "stamp", "evictable", "protected"}
    BY <1>3 DEF TreeInv
  <2> QED
    BY <1>1, <2>1 DEF drop_leaf
<1> HIDE DEF gone
<1> QED
  BY <1>3, <1>6, <1>7, <1>8, <1>9, SameReading DEF Abstract!Evict

\* Every step of the radix cache is a step of the prefix cache, or none.
LEMMA StepIsAbstract ==
  ASSUME PromptsAssumption, Inv, Next
  PROVE  [Abstract!Next]_(Abstract!vars)
<1> USE DEF Abstract!vars, Abstract!Next
<1>1. /\ TreeInv(tree, Pages) /\ locks \in [Paths -> Nat]
      /\ Abstract!Paths = Paths
  BY SameReading DEF Inv
<1>2. \A p \in Prompts : Abstract!Longest(p) = matched_path(tree, p)
  BY SameReading DEF Abstract!Longest, matched_path, matched_pages
<1>3. ASSUME NEW p \in Prompts, match_and_lock(p)
      PROVE  Abstract!Lock(p)
  <2> DEFINE w == tree_walk(tree, p, clock + 1)
             q == matched_path(tree, p)
  <2>1. p \in Seq(Pages)
    BY PathsAreSequences
  <2>2. w.value = tree.value
    BY <1>1, <2>1, WalkFacts
  <2>3. TreeInv(w, Pages)
    BY <1>1, <2>1, WalkKeepsShape
  <2>4. lock_handle(w, q).value = w.value
    BY <2>3, LockFields DEF TreeInv
  <2>5. tree' = lock_handle(w, q) /\ locks' = [locks EXCEPT ![q] = @ + 1]
    BY <1>3 DEF match_and_lock
  <2> HIDE DEF w, q
  <2>6. tree'.value = tree.value
    BY <2>2, <2>4, <2>5
  <2> QED
    BY <1>2, <2>5, <2>6 DEF Abstract!Lock, q
<1>4. ASSUME NEW q \in Paths, unlock(q)
      PROVE  Abstract!Unlock(q)
  <2>1. unlock_handle(tree, q).value = tree.value
    BY <1>1, LockFields DEF TreeInv
  <2> QED
    BY <1>4, <2>1 DEF unlock, Abstract!Unlock
<1>5. ASSUME NEW p \in Prompts, NEW run \in SlotRuns, commit(p, run)
      PROVE  Abstract!Insert(p, run)
  <2> DEFINE slots == [i \in 1 .. Len(p) |-> run]
             t == insert_prefix(tree, p, slots, clock + 1)
             D == DOMAIN tree.value \union (Prefixes(p) \ {Root})
  <2>1. p \in Seq(Pages)
    BY PathsAreSequences
  <2>2. tree' = t /\ locks' = locks
    BY <1>5 DEF commit
  <2>3. t.value = [x \in D |-> IF x \in DOMAIN tree.value THEN tree.value[x] ELSE slots[Len(x)]]
    <3> DEFINE w == tree_walk(tree, p, clock + 1)
    <3>1. DOMAIN w = {"value", "ref", "stamp", "evictable", "protected"}
      BY <1>1, <2>1, WalkFacts
    <3> HIDE DEF w
    <3> QED
      BY <3>1 DEF insert_prefix, w
  <2>4. \A x \in D : x \notin DOMAIN tree.value => slots[Len(x)] = run
    <3> SUFFICES ASSUME NEW x \in Prefixes(p) \ {Root} PROVE slots[Len(x)] = run
      OBVIOUS
    <3>1. x \in Seq(Pages) /\ IsPrefix(x, p)
      BY <2>1, PrefixesMeaning
    <3>2. Len(x) \in 0 .. Len(p)
      BY <2>1, <3>1, PrefixCut
    <3>3. Len(x) # 0
      BY <3>1, RootPrefix
    <3>4. Len(p) \in Nat
      BY <2>1, LenProperties
    <3> QED
      BY <3>2, <3>3, <3>4
  <2> HIDE DEF slots, t
  <2>5. t.value = [x \in D |-> IF x \in DOMAIN tree.value THEN tree.value[x] ELSE run]
    BY <2>3, <2>4
  <2> QED
    BY <2>2, <2>5, SameReading DEF Abstract!Insert, Root
<1>6. ASSUME NEW size \in 1 .. (tree.evictable + tree.protected), evict(size)
      PROVE  UNCHANGED Abstract!vars
  BY <1>6 DEF evict
<1>7. ASSUME evict_pop PROVE Abstract!Evict
  BY <1>7, PopIsEvict
<1>8. ASSUME reset PROVE Abstract!Reset
  BY <1>1, <1>8 DEF reset, Abstract!Reset, EmptyTree
<1> QED
  BY <1>1, <1>3, <1>4, <1>5, <1>6, <1>7, <1>8 DEF Next

\* Both begin empty.
LEMMA InitIsAbstract ==
  ASSUME Init
  PROVE  Abstract!Init
BY SameReading DEF Init, Abstract!Init, EmptyTree

\* The radix cache implements the prefix cache: longest match, stable slots and
\* no eviction of a prefix that a handle holds on to.
THEOREM RadixCacheIsPrefixCache ==
  ASSUME PromptsAssumption
  PROVE  Spec => ImplementsPrefixCache
<1>1. Init => Inv
  BY InitInv
<1>2. Inv /\ [Next]_vars => Inv'
  BY StepInv, StutterInv
<1>3. Init => Abstract!Init
  BY InitIsAbstract
<1>4. Inv /\ [Next]_vars => [Abstract!Next]_(Abstract!vars)
  <2>1. UNCHANGED vars => UNCHANGED Abstract!vars
    BY DEF vars, Abstract!vars
  <2> QED
    BY <2>1, StepIsAbstract
<1> QED
  BY <1>1, <1>2, <1>3, <1>4, PTL DEF Spec, ImplementsPrefixCache, Abstract!Spec

-----------------------------------------------------------------------------
\* The snapshots that may be evicted, and those that a lock holds.
unlocked_snaps == {n \in DOMAIN snap : mref[n] = 0}
locked_snaps == {n \in DOMAIN snap : mref[n] > 0}

(***************************************************************************)
(* The inductive invariant: the radix tree with its first count; the       *)
(* snapshots with the second, a locked node having one; the state slots.   *)
(***************************************************************************)
TreePart ==
  /\ TreeInv(tree, Pages)
  /\ CountsHandles(tree, handles(locks), handle_path)
  /\ SizesAgree(tree)
  /\ DOMAIN tree.value \subseteq Paths
  /\ locks \in [Paths -> Nat]

SnapPart ==
  /\ DOMAIN snap \subseteq nodes(tree)
  /\ LeafHasSnapshot
  /\ mref \in [Paths -> Nat]
  /\ \A q \in Paths \ {Root} : mref[q] = locks[q]
  /\ \A q \in Paths \ {Root} : locks[q] > 0 => q \in DOMAIN snap

SizePart ==
  msize = [evictable |-> Cardinality(unlocked_snaps),
           protected |-> Cardinality(locked_snaps)]

SlotPart ==
  /\ pool \subseteq StateSlots
  /\ \A n \in DOMAIN snap : snap[n] \in StateSlots \ pool
  /\ \A m, n \in DOMAIN snap : snap[m] = snap[n] => m = n
  /\ \A s \in StateSlots \ pool : \E n \in DOMAIN snap : snap[n] = s
  /\ Cardinality(DOMAIN snap) + Cardinality(pool) = Cardinality(StateSlots)

HybridInv == TreePart /\ SnapPart /\ SizePart /\ SlotPart

-----------------------------------------------------------------------------
\* A prompt is one of its prefixes.
LEMMA PromptsArePaths ==
  ASSUME HybridAssumption, NEW p \in Prompts
  PROVE  p \in Paths /\ p \in Seq(Pages) /\ (p = Root <=> Len(p) = 0)
<1>1. p \in Seq(Pages)
  BY PathsAreSequences DEF HybridAssumption
<1>2. IsPrefix(p, p)
  BY <1>1, PrefixOrder
<1> QED
  BY <1>1, <1>2, PathsAreSequences, RootPrefix DEF HybridAssumption

\* What the invariant says of the nodes, of the snapshots and of the handles.
LEMMA InvMeaning ==
  ASSUME HybridAssumption, TreePart, SnapPart
  PROVE  /\ nodes(tree) \subseteq Paths \ {Root}
         /\ nodes(tree) \subseteq Seq(Pages) /\ IsFiniteSet(nodes(tree))
         /\ DOMAIN snap \subseteq Paths \ {Root} /\ IsFiniteSet(DOMAIN snap)
         /\ IsFiniteSet(unlocked_snaps) /\ IsFiniteSet(locked_snaps)
         /\ \A n \in nodes(tree) : tree.ref[n] \in Nat
         /\ \A n \in nodes(tree) :
              tree.ref[n] # 0 => \E q \in Paths : locks[q] > 0 /\ IsPrefix(n, q)
         /\ \A n \in nodes(tree), q \in Paths :
              locks[q] > 0 /\ IsPrefix(n, q) => tree.ref[n] # 0
         /\ \A q \in Paths : locks[q] > 0 => q \in nodes(tree) \union {Root}
<1>1. /\ nodes(tree) \subseteq Seq(Pages) \ {Root}
      /\ nodes(tree) \subseteq DOMAIN tree.value
      /\ IsFiniteSet(nodes(tree))
  BY NodesArePaths DEF TreePart
<1>2. /\ DOMAIN snap \subseteq nodes(tree) /\ DOMAIN tree.value \subseteq Paths
      /\ locks \in [Paths -> Nat]
      /\ CountsHandles(tree, handles(locks), handle_path)
  BY DEF TreePart, SnapPart
<1>3. IsFiniteSet(DOMAIN snap)
  BY <1>1, <1>2, FS_Subset
<1>4. IsFiniteSet(unlocked_snaps) /\ IsFiniteSet(locked_snaps)
  BY <1>3, FS_Subset DEF unlocked_snaps, locked_snaps
<1>5. /\ \A h \in handles(locks) : h \in Paths \X Nat /\ locks[h[1]] > 0
      /\ \A q \in Paths : locks[q] > 0 => \E h \in handles(locks) : h[1] = q
  BY <1>2, HandlesMeaning
<1>6. \A h \in handles(locks) : h[1] \in Paths /\ handle_path[h] = h[1]
  BY <1>5 DEF handle_path
<1>7. ASSUME NEW n \in nodes(tree)
      PROVE  /\ tree.ref[n] \in Nat
             /\ tree.ref[n] = 0 <=> \A h \in handles(locks) : ~ IsPrefix(n, handle_path[h])
  BY <1>2, CountsMeaning
<1>8. \A q \in Paths : locks[q] > 0 => q \in nodes(tree) \union {Root}
  BY <1>2, <1>5, <1>6 DEF CountsHandles
<1> QED
  BY <1>1, <1>2, <1>3, <1>4, <1>5, <1>6, <1>7, <1>8

\* The empty cache.
LEMMA HybridInitInv ==
  ASSUME HybridAssumption, HybridInit
  PROVE  HybridInv
<1>1. /\ tree = EmptyTree /\ snap = <<>> /\ pool = StateSlots
      /\ mref = [q \in Paths |-> 0] /\ locks = [q \in Paths |-> 0]
      /\ msize = [evictable |-> 0, protected |-> 0]
  BY DEF HybridInit
<1>2. handles(locks) = {}
  BY <1>1 DEF handles
<1>3. /\ TreeInv(tree, Pages) /\ SizesAgree(tree)
      /\ CountsHandles(tree, handles(locks), handle_path)
      /\ nodes(tree) = {} /\ DOMAIN tree.value = {}
  BY <1>1, <1>2, EmptyTreeIsSound
<1>4. DOMAIN snap = {}
  BY <1>1
<1>5. TreePart /\ SnapPart
  BY <1>1, <1>3, <1>4 DEF TreePart, SnapPart, LeafHasSnapshot
<1>6. Cardinality({}) = 0 /\ IsFiniteSet(StateSlots)
  BY FS_EmptySet DEF HybridAssumption
<1>7. unlocked_snaps = {} /\ locked_snaps = {}
  BY <1>4 DEF unlocked_snaps, locked_snaps
<1>8. SizePart
  BY <1>1, <1>6, <1>7 DEF SizePart
<1>9. Cardinality(StateSlots) \in Nat
  BY <1>6, FS_CardinalityType
<1>10. SlotPart
  BY <1>1, <1>4, <1>6, <1>9 DEF SlotPart
<1> QED
  BY <1>5, <1>8, <1>10 DEF HybridInv

-----------------------------------------------------------------------------
\* tree_walk makes no leaf: the node it cuts off has the rest below it.
LEMMA WalkLeaves ==
  ASSUME NEW S, NEW tr, TreeInv(tr, S), NEW p \in Seq(S), NEW tic
  PROVE  /\ nodes(tr) \subseteq nodes(tree_walk(tr, p, tic))
         /\ \A n \in nodes(tree_walk(tr, p, tic)) :
              is_leaf(tree_walk(tr, p, tic), n) => n \in nodes(tr) /\ is_leaf(tr, n)
<1> DEFINE w == tree_walk(tr, p, tic)
           q == matched_path(tr, p)
<1>1. nodes(w) = nodes(tr) \union ({q} \ {Root})
  BY WalkFacts
<1>2. q = Root \/ q \in DOMAIN tr.value
  BY MatchedPath
<1> HIDE DEF w, q
<1> SUFFICES ASSUME NEW n \in nodes(w), is_leaf(w, n)
             PROVE  n \in nodes(tr) /\ is_leaf(tr, n)
  BY <1>1 DEF w
<1>3. n \in nodes(tr)
  <2> SUFFICES ASSUME n \notin nodes(tr) PROVE FALSE
    OBVIOUS
  <2>1. n = q /\ n \in DOMAIN tr.value
    BY <1>1, <1>2
  <2>2. PICK m \in nodes(tr) : Ends(tr, n, m)
    BY <2>1 DEF TreeInv
  <2>3. IsPrefix(n, m) /\ m # n
    BY <2>2 DEF Ends
  <2>4. IsStrictPrefix(n, m) /\ m \in nodes(w)
    BY <1>1, <2>3 DEF IsStrictPrefix
  <2> QED
    BY <2>4 DEF is_leaf
<1>4. is_leaf(tr, n)
  BY <1>1 DEF is_leaf
<1> QED
  BY <1>3, <1>4

\* The only leaf that insert_prefix makes is the end of what it inserts.
LEMMA InsertLeaves ==
  ASSUME NEW S, NEW tr, TreeInv(tr, S), NEW p \in Seq(S), NEW slots, NEW tic
  PROVE  LET t == insert_prefix(tr, p, slots, tic)
         IN  /\ nodes(tr) \subseteq nodes(t)
             /\ p # Root => p \in nodes(t)
             /\ \A n \in nodes(t) :
                  is_leaf(t, n) => n = p \/ (n \in nodes(tr) /\ is_leaf(tr, n))
             /\ p = Root => nodes(t) = nodes(tr)
<1> DEFINE t == insert_prefix(tr, p, slots, tic)
           w == tree_walk(tr, p, tic)
           q == matched_path(tr, p)
<1>1. nodes(t) = nodes(w) \union new_leaf(tr, p)
  BY InsertFacts
<1>2. nodes(w) = nodes(tr) \union ({q} \ {Root})
  BY WalkFacts
<1>3. /\ q \in Seq(S) /\ IsPrefix(q, p) /\ Len(q) = matched_pages(tr, p)
      /\ matched_pages(tr, p) \in 0 .. Len(p)
  BY MatchedPath
<1>4. new_leaf(tr, p) \subseteq {p}
  BY DEF new_leaf
<1>5. new_leaf(tr, p) = {} => q = p
  <2> SUFFICES ASSUME new_leaf(tr, p) = {} PROVE q = p
    OBVIOUS
  <2>1. Len(q) = Len(p)
    BY <1>3 DEF new_leaf
  <2> QED
    BY <1>3, <2>1, PrefixOrder
<1>6. \A n \in nodes(w) : is_leaf(w, n) => n \in nodes(tr) /\ is_leaf(tr, n)
  BY WalkLeaves
<1>7. p = Root => new_leaf(tr, p) = {} /\ q = Root
  <2> SUFFICES ASSUME p = Root PROVE new_leaf(tr, p) = {} /\ q = Root
    OBVIOUS
  <2>1. Len(p) = 0
    BY RootPrefix
  <2>2. matched_pages(tr, p) = Len(p)
    BY <1>3, <2>1
  <2>3. q = Root
    BY <1>3, RootPrefix
  <2> QED
    BY <2>2, <2>3 DEF new_leaf
<1> HIDE DEF t, w, q
<1>8. \A n \in nodes(t) : is_leaf(t, n) => n = p \/ (n \in nodes(w) /\ is_leaf(w, n))
  BY <1>1, <1>4 DEF is_leaf
<1>9. p # Root => p \in nodes(t)
  BY <1>1, <1>2, <1>4, <1>5
<1>10. p = Root => nodes(t) = nodes(tr)
  BY <1>1, <1>2, <1>7
<1> QED
  BY <1>1, <1>2, <1>6, <1>8, <1>9, <1>10 DEF t

\* A match ends at the deepest snapshot on its path, or at the root.
LEMMA BoundaryMeaning ==
  ASSUME HybridAssumption, TreePart, SnapPart, NEW p \in Prompts
  PROVE  /\ snapshot_boundary(p) \in Paths
         /\ snapshot_boundary(p) = Root \/ snapshot_boundary(p) \in DOMAIN snap
<1> DEFINE q == matched_path(tree, p)
           ends == {n \in DOMAIN snap : IsPrefix(n, q)}
           K == {Len(n) : n \in ends}
<1>1. p \in Seq(Pages)
  BY PathsAreSequences DEF HybridAssumption
<1>2. TreeInv(tree, Pages)
  BY DEF TreePart
<1>3. q \in Seq(Pages)
  BY <1>1, <1>2, MatchedPath
<1>4. DOMAIN snap \subseteq Paths \ {Root} /\ DOMAIN snap \subseteq Seq(Pages)
  BY InvMeaning, PathsAreSequences DEF HybridAssumption
<1>5. Root \in Paths
  BY <1>1, PathsAreSequences, RootPrefix DEF HybridAssumption
<1>6. snapshot_boundary(p) =
        IF ends = {} THEN Root ELSE CHOOSE n \in ends : \A m \in ends : Len(m) <= Len(n)
  BY DEF snapshot_boundary
<1> HIDE DEF q
<1>7. CASE ends = {}
  BY <1>5, <1>6, <1>7
<1>8. CASE ends # {}
  <2>1. Len(q) \in Nat /\ K \in SUBSET (0 .. Len(q)) /\ K # {}
    <3>1. Len(q) \in Nat
      BY <1>3, LenProperties
    <3>2. \A n \in ends : Len(n) \in 0 .. Len(q)
      BY <1>3, <1>4, PrefixCut
    <3> QED
      BY <1>8, <3>1, <3>2
  <2>2. Max(K) \in K /\ \A k \in K : k <= Max(K)
    BY <2>1, MaxIsReached
  <2>3. PICK n \in ends : Len(n) = Max(K)
    BY <2>2
  <2>4. \A m \in ends : Len(m) <= Len(n)
    BY <2>2, <2>3
  <2>5. snapshot_boundary(p) \in ends
    BY <1>6, <1>8, <2>4
  <2> QED
    BY <1>4, <2>5
<1> QED
  BY <1>7, <1>8

\* match_prefix leaves a radix tree that counts the new lock.
LEMMA MatchKeepsTree ==
  ASSUME HybridAssumption, TreePart, SnapPart, NEW p \in Prompts, match_prefix(p)
  PROVE  TreePart' /\ nodes(tree) \subseteq nodes(tree') /\ tree'.value = tree.value
         /\ \A n \in nodes(tree') : is_leaf(tree', n) => n \in nodes(tree) /\ is_leaf(tree, n)
<1> DEFINE q == snapshot_boundary(p)
           w == tree_walk(tree, p, clock + 1)
           h == <<q, locks[q] + 1>>
<1>1. p \in Seq(Pages)
  BY PathsAreSequences DEF HybridAssumption
<1>2. /\ TreeInv(tree, Pages) /\ SizesAgree(tree)
      /\ CountsHandles(tree, handles(locks), handle_path)
      /\ DOMAIN tree.value \subseteq Paths
      /\ locks \in [Paths -> Nat] /\ DOMAIN snap \subseteq nodes(tree)
  BY DEF TreePart, SnapPart
<1>3. tree' = lock_handle(w, q) /\ locks' = [locks EXCEPT ![q] = @ + 1]
  BY DEF match_prefix
<1>4. q \in Paths /\ (q = Root \/ q \in DOMAIN snap)
  BY BoundaryMeaning
<1>5. /\ TreeInv(w, Pages) /\ SizesAgree(w)
      /\ CountsHandles(w, handles(locks), handle_path)
  BY <1>1, <1>2, WalkKeepsShape, WalkKeepsSizes, WalkKeepsCounts
<1>6. w.value = tree.value
  BY <1>1, <1>2, WalkFacts
<1>7. /\ nodes(tree) \subseteq nodes(w)
      /\ \A n \in nodes(w) : is_leaf(w, n) => n \in nodes(tree) /\ is_leaf(tree, n)
  BY <1>1, <1>2, WalkLeaves
<1>8. handles(locks') = handles(locks) \union {h} /\ h \notin handles(locks)
  BY <1>2, <1>3, <1>4, HandlesMove
<1>9. handle_path[h] = q
  BY <1>2, <1>4 DEF handle_path
<1>10. /\ lock_handle(w, q).value = w.value
       /\ nodes(lock_handle(w, q)) = nodes(w)
  BY <1>5, LockFields DEF TreeInv
<1> HIDE DEF q, w, h
<1>11. q \in nodes(w) \union {Root}
  BY <1>2, <1>4, <1>7
<1>12. TreeInv(lock_handle(w, q), Pages)
  BY <1>5, <1>8, <1>9, <1>11, LockKeeps
<1>13. CountsHandles(lock_handle(w, q), handles(locks) \union {h}, handle_path)
  BY <1>5, <1>8, <1>9, <1>11, LockKeeps
<1>14. SizesAgree(lock_handle(w, q))
  BY <1>5, LockKeepsSizes
<1>15. CountsHandles(tree, handles(locks), handle_path)'
  BY <1>3, <1>8, <1>13 DEF handle_path
<1>16. locks' \in [Paths -> Nat]
  BY <1>2, <1>3, <1>4
<1>17. tree'.value = tree.value /\ nodes(tree') = nodes(w)
  BY <1>3, <1>6, <1>10
<1>18. \A n \in nodes(tree') : is_leaf(tree', n) => is_leaf(w, n)
  BY <1>17 DEF is_leaf
<1>19. TreeInv(tree', Pages) /\ SizesAgree(tree')
  BY <1>3, <1>12, <1>14
<1>20. TreePart'
  BY <1>2, <1>15, <1>16, <1>17, <1>19 DEF TreePart
<1> QED
  BY <1>7, <1>17, <1>18, <1>20

\* match_prefix counts the lock on the snapshot it ends at.
LEMMA MatchKeeps ==
  ASSUME HybridAssumption, HybridInv, NEW p \in Prompts, match_prefix(p)
  PROVE  HybridInv'
<1> DEFINE q == snapshot_boundary(p)
<1>1. TreePart /\ SnapPart /\ SizePart /\ SlotPart
  BY DEF HybridInv
<1>2. /\ TreePart' /\ nodes(tree) \subseteq nodes(tree')
      /\ \A n \in nodes(tree') : is_leaf(tree', n) => n \in nodes(tree) /\ is_leaf(tree, n)
  BY <1>1, MatchKeepsTree
<1>3. q \in Paths /\ (q = Root \/ q \in DOMAIN snap)
  BY <1>1, BoundaryMeaning
<1>4. /\ snap' = snap /\ pool' = pool /\ locks' = [locks EXCEPT ![q] = @ + 1]
      /\ mref' = IF q \in DOMAIN snap THEN [mref EXCEPT ![q] = @ + 1] ELSE mref
      /\ msize' = IF q \in DOMAIN snap /\ mref[q] = 0
                  THEN [evictable |-> msize.evictable - 1, protected |-> msize.protected + 1]
                  ELSE msize
  BY DEF match_prefix, inc_mamba
<1>5. /\ DOMAIN snap \subseteq nodes(tree) /\ DOMAIN snap \subseteq Paths \ {Root}
      /\ locks \in [Paths -> Nat] /\ mref \in [Paths -> Nat]
      /\ IsFiniteSet(unlocked_snaps) /\ IsFiniteSet(locked_snaps)
      /\ \A x \in Paths \ {Root} : mref[x] = locks[x]
      /\ \A x \in Paths \ {Root} : locks[x] > 0 => x \in DOMAIN snap
  BY <1>1, InvMeaning DEF TreePart, SnapPart
<1> HIDE DEF q
<1>6. mref' \in [Paths -> Nat]
  BY <1>3, <1>4, <1>5
<1>7. \A x \in Paths \ {Root} : mref'[x] = locks'[x]
  BY <1>3, <1>4, <1>5
<1>8. \A x \in Paths \ {Root} : locks'[x] > 0 => x \in DOMAIN snap'
  BY <1>3, <1>4, <1>5
<1>9. LeafHasSnapshot'
  BY <1>1, <1>2, <1>4 DEF SnapPart, LeafHasSnapshot
<1>10. SnapPart'
  BY <1>2, <1>4, <1>5, <1>6, <1>7, <1>8, <1>9 DEF SnapPart
<1>11. SizePart'
  <2>1. CASE q \in DOMAIN snap /\ mref[q] = 0
    <3>1. \A n \in DOMAIN snap : mref'[n] = IF n = q THEN 1 ELSE mref[n]
      BY <1>4, <1>5, <2>1
    <3>2. /\ q \in unlocked_snaps /\ q \notin locked_snaps
          /\ unlocked_snaps' = unlocked_snaps \ {q}
          /\ locked_snaps' = locked_snaps \union {q}
      BY <1>4, <1>5, <2>1, <3>1 DEF unlocked_snaps, locked_snaps
    <3>3. /\ Cardinality(unlocked_snaps') = Cardinality(unlocked_snaps) - 1
          /\ Cardinality(locked_snaps') = Cardinality(locked_snaps) + 1
      BY <1>5, <3>2, FS_AddElement, FS_RemoveElement
    <3> QED
      BY <1>1, <1>4, <2>1, <3>3 DEF SizePart
  <2>2. CASE ~ (q \in DOMAIN snap /\ mref[q] = 0)
    <3>1. \A n \in DOMAIN snap :
            (mref'[n] = 0 <=> mref[n] = 0) /\ (mref'[n] > 0 <=> mref[n] > 0)
      BY <1>4, <1>5, <2>2
    <3>2. unlocked_snaps' = unlocked_snaps /\ locked_snaps' = locked_snaps
      BY <1>4, <3>1 DEF unlocked_snaps, locked_snaps
    <3> QED
      BY <1>1, <1>4, <2>2, <3>2 DEF SizePart
  <2> QED
    BY <2>1, <2>2
<1>12. SlotPart'
  BY <1>1, <1>4 DEF SlotPart
<1> QED
  BY <1>2, <1>10, <1>11, <1>12 DEF HybridInv

\* dec_lock releases a lock; a locked node has its snapshot, so its second count
\* goes down with the first.
LEMMA DecLockKeeps ==
  ASSUME HybridAssumption, HybridInv, NEW q \in Paths, dec_lock(q)
  PROVE  HybridInv' /\ tree'.value = tree.value
<1> DEFINE h == <<q, locks[q]>>
<1>1. TreePart /\ SnapPart /\ SizePart /\ SlotPart
  BY DEF HybridInv
<1>2. /\ TreeInv(tree, Pages) /\ SizesAgree(tree)
      /\ CountsHandles(tree, handles(locks), handle_path)
      /\ DOMAIN tree.value \subseteq Paths
      /\ locks \in [Paths -> Nat]
  BY <1>1 DEF TreePart
<1>3. /\ tree' = unlock_handle(tree, q) /\ locks[q] > 0
      /\ snap' = snap /\ pool' = pool /\ locks' = [locks EXCEPT ![q] = @ - 1]
      /\ mref' = IF q \in DOMAIN snap /\ mref[q] > 0 THEN [mref EXCEPT ![q] = @ - 1] ELSE mref
      /\ msize' = IF (q \in DOMAIN snap /\ mref[q] > 0) /\ mref[q] = 1
                  THEN [evictable |-> msize.evictable + 1, protected |-> msize.protected - 1]
                  ELSE msize
  BY DEF dec_lock
<1>4. handles(locks') = handles(locks) \ {h} /\ h \in handles(locks)
  BY <1>2, <1>3, HandlesMove
<1>5. handle_path[h] = q
  BY <1>2 DEF handle_path
<1>6. /\ unlock_handle(tree, q).value = tree.value
      /\ nodes(unlock_handle(tree, q)) = nodes(tree)
  BY <1>2, LockFields DEF TreeInv
<1>7. /\ DOMAIN snap \subseteq nodes(tree) /\ DOMAIN snap \subseteq Paths \ {Root}
      /\ mref \in [Paths -> Nat]
      /\ IsFiniteSet(unlocked_snaps) /\ IsFiniteSet(locked_snaps)
      /\ \A x \in Paths \ {Root} : mref[x] = locks[x]
      /\ \A x \in Paths \ {Root} : locks[x] > 0 => x \in DOMAIN snap
  BY <1>1, InvMeaning DEF SnapPart
<1> HIDE DEF h
<1>8. TreeInv(unlock_handle(tree, q), Pages)
  BY <1>2, <1>4, <1>5, UnlockKeeps
<1>9. CountsHandles(unlock_handle(tree, q), handles(locks) \ {h}, handle_path)
  BY <1>2, <1>4, <1>5, UnlockKeeps
<1>10. SizesAgree(unlock_handle(tree, q))
  BY <1>2, <1>4, <1>5, UnlockKeepsSizes
<1>11. CountsHandles(tree, handles(locks), handle_path)'
  BY <1>3, <1>4, <1>9 DEF handle_path
<1>12. locks' \in [Paths -> Nat]
  BY <1>2, <1>3
<1>13. tree'.value = tree.value /\ nodes(tree') = nodes(tree)
  BY <1>3, <1>6
<1>14. TreePart'
  BY <1>2, <1>3, <1>8, <1>10, <1>11, <1>12, <1>13 DEF TreePart
<1>15. \A n \in nodes(tree) : is_leaf(tree', n) <=> is_leaf(tree, n)
  BY <1>13 DEF is_leaf
<1>16. LeafHasSnapshot'
  BY <1>1, <1>3, <1>13, <1>15 DEF SnapPart, LeafHasSnapshot
<1>17. mref' \in [Paths -> Nat]
  BY <1>3, <1>7
<1>18. q # Root => q \in DOMAIN snap /\ mref[q] = locks[q] /\ mref[q] > 0
  BY <1>3, <1>7
<1>19. q = Root => q \notin DOMAIN snap
  BY <1>7
<1>20. \A x \in Paths \ {Root} : mref'[x] = locks'[x]
  BY <1>2, <1>3, <1>7, <1>18, <1>19
<1>21. \A x \in Paths \ {Root} : locks'[x] > 0 => x \in DOMAIN snap'
  BY <1>2, <1>3, <1>7
<1>22. SnapPart'
  BY <1>3, <1>7, <1>13, <1>16, <1>17, <1>20, <1>21 DEF SnapPart
<1>23. SizePart'
  <2>1. CASE q \in DOMAIN snap /\ mref[q] = 1
    <3>1. \A n \in DOMAIN snap : mref'[n] = IF n = q THEN 0 ELSE mref[n]
      BY <1>3, <1>7, <2>1
    <3>2. /\ q \notin unlocked_snaps /\ q \in locked_snaps
          /\ unlocked_snaps' = unlocked_snaps \union {q}
          /\ locked_snaps' = locked_snaps \ {q}
      BY <1>3, <1>7, <2>1, <3>1 DEF unlocked_snaps, locked_snaps
    <3>3. /\ Cardinality(unlocked_snaps') = Cardinality(unlocked_snaps) + 1
          /\ Cardinality(locked_snaps') = Cardinality(locked_snaps) - 1
      BY <1>7, <3>2, FS_AddElement, FS_RemoveElement
    <3>4. msize' = [evictable |-> msize.evictable + 1, protected |-> msize.protected - 1]
      BY <1>3, <2>1
    <3> QED
      BY <1>1, <3>3, <3>4 DEF SizePart
  <2>2. CASE ~ (q \in DOMAIN snap /\ mref[q] = 1)
    <3>1. \A n \in DOMAIN snap :
            (mref'[n] = 0 <=> mref[n] = 0) /\ (mref'[n] > 0 <=> mref[n] > 0)
      BY <1>3, <1>7, <2>2
    <3>2. unlocked_snaps' = unlocked_snaps /\ locked_snaps' = locked_snaps
      BY <1>3, <3>1 DEF unlocked_snaps, locked_snaps
    <3> QED
      BY <1>1, <1>3, <2>2, <3>2 DEF SizePart
  <2> QED
    BY <2>1, <2>2
<1>24. SlotPart'
  BY <1>1, <1>3 DEF SlotPart
<1> QED
  BY <1>13, <1>14, <1>22, <1>23, <1>24 DEF HybridInv

\* insert gives the node it ends at the donated slot, or leaves it to the caller.
LEMMA InsertKeeps ==
  ASSUME HybridAssumption, HybridInv, NEW p \in Prompts, NEW slot \in pool, insert(p, slot)
  PROVE  /\ HybridInv'
         /\ \A x \in DOMAIN tree.value : tree'.value[x] = tree.value[x]
         /\ \A n \in DOMAIN snap : n \in DOMAIN snap' /\ snap'[n] = snap[n]
<1> DEFINE slots == [i \in 1 .. Len(p) |-> <<i>>]
           t == insert_prefix(tree, p, slots, clock + 1)
<1>1. TreePart /\ SnapPart /\ SizePart /\ SlotPart
  BY DEF HybridInv
<1>2. p \in Seq(Pages) /\ p \in Paths
  BY PromptsArePaths
<1>3. /\ TreeInv(tree, Pages) /\ SizesAgree(tree)
      /\ CountsHandles(tree, handles(locks), handle_path)
      /\ DOMAIN tree.value \subseteq Paths
      /\ locks \in [Paths -> Nat]
  BY <1>1 DEF TreePart
<1>4. /\ tree' = t /\ locks' = locks /\ mref' = mref
      /\ IF p = Root \/ p \in DOMAIN snap
         THEN snap' = snap /\ msize' = msize /\ pool' = pool
         ELSE /\ snap' = [n \in DOMAIN snap \union {p} |-> IF n = p THEN slot ELSE snap[n]]
              /\ msize' = [msize EXCEPT !.evictable = @ + IF mref[p] = 0 THEN 1 ELSE 0]
              /\ pool' = pool \ {slot}
  BY DEF insert, mamba_exist
<1>5. TreeInv(t, Pages)
  BY <1>2, <1>3, InsertKeepsShape
<1>6. CountsHandles(t, handles(locks), handle_path)
  BY <1>2, <1>3, InsertKeepsCounts
<1>7. SizesAgree(t)
  BY <1>2, <1>3, InsertKeepsSizes
<1>8. /\ DOMAIN t.value = DOMAIN tree.value \union missing(tree, p, Pages)
      /\ \A x \in DOMAIN tree.value : t.value[x] = tree.value[x]
  BY <1>2, <1>3, InsertFacts
<1>9. missing(tree, p, Pages) \subseteq Paths
  BY PathsAreSequences DEF missing, HybridAssumption
<1>10. /\ nodes(tree) \subseteq nodes(t) /\ (p # Root => p \in nodes(t))
       /\ \A n \in nodes(t) : is_leaf(t, n) => n = p \/ (n \in nodes(tree) /\ is_leaf(tree, n))
       /\ p = Root => nodes(t) = nodes(tree)
  BY <1>2, <1>3, InsertLeaves
<1> HIDE DEF t, slots
<1>11. CountsHandles(tree, handles(locks), handle_path)'
  BY <1>4, <1>6 DEF handle_path
<1>12. TreePart'
  BY <1>3, <1>4, <1>5, <1>7, <1>8, <1>9, <1>11 DEF TreePart
<1>13. /\ DOMAIN snap \subseteq nodes(tree) /\ DOMAIN snap \subseteq Paths \ {Root}
       /\ mref \in [Paths -> Nat]
       /\ IsFiniteSet(DOMAIN snap)
       /\ IsFiniteSet(unlocked_snaps) /\ IsFiniteSet(locked_snaps)
       /\ \A x \in Paths \ {Root} : mref[x] = locks[x]
       /\ \A x \in Paths \ {Root} : locks[x] > 0 => x \in DOMAIN snap
       /\ \A n \in nodes(tree) : is_leaf(tree, n) => n \in DOMAIN snap
  BY <1>1, InvMeaning DEF SnapPart, LeafHasSnapshot
<1>14. /\ pool \subseteq StateSlots /\ IsFiniteSet(StateSlots)
       /\ \A n \in DOMAIN snap : snap[n] \in StateSlots \ pool
       /\ \A m, n \in DOMAIN snap : snap[m] = snap[n] => m = n
       /\ \A s \in StateSlots \ pool : \E n \in DOMAIN snap : snap[n] = s
       /\ Cardinality(DOMAIN snap) + Cardinality(pool) = Cardinality(StateSlots)
  BY <1>1 DEF SlotPart, HybridAssumption
<1>15. CASE p = Root \/ p \in DOMAIN snap
  <2>1. snap' = snap /\ msize' = msize /\ pool' = pool
    BY <1>4, <1>15
  <2>2. ASSUME NEW n \in nodes(t), is_leaf(t, n) PROVE n \in DOMAIN snap
    <3>1. CASE n = p
      <4>1. n # Root
        BY <1>5, NodesArePaths
      <4> QED
        BY <1>15, <3>1, <4>1
    <3>2. CASE n # p
      BY <1>10, <1>13, <2>2, <3>2
    <3> QED
      BY <3>1, <3>2
  <2>3. SnapPart'
    BY <1>4, <1>10, <1>13, <2>1, <2>2 DEF SnapPart, LeafHasSnapshot
  <2>4. unlocked_snaps' = unlocked_snaps /\ locked_snaps' = locked_snaps
    BY <1>4, <2>1 DEF unlocked_snaps, locked_snaps
  <2>5. SizePart' /\ SlotPart'
    BY <1>1, <2>1, <2>4 DEF SizePart, SlotPart
  <2> QED
    BY <1>4, <1>8, <1>12, <2>1, <2>3, <2>5 DEF HybridInv
<1>16. CASE p # Root /\ p \notin DOMAIN snap
  <2>1. /\ snap' = [n \in DOMAIN snap \union {p} |-> IF n = p THEN slot ELSE snap[n]]
        /\ msize' = [msize EXCEPT !.evictable = @ + IF mref[p] = 0 THEN 1 ELSE 0]
        /\ pool' = pool \ {slot}
    BY <1>4, <1>16
  <2>2. mref[p] = 0
    BY <1>2, <1>3, <1>13, <1>16
  <2>3. /\ DOMAIN snap' = DOMAIN snap \union {p}
        /\ snap'[p] = slot
        /\ \A n \in DOMAIN snap : snap'[n] = snap[n]
    BY <1>16, <2>1
  <2>4. LeafHasSnapshot'
    BY <1>4, <1>10, <1>13, <2>3 DEF LeafHasSnapshot
  <2>5. SnapPart'
    BY <1>4, <1>10, <1>13, <1>16, <2>3, <2>4 DEF SnapPart
  <2>6. /\ p \notin unlocked_snaps
        /\ unlocked_snaps' = unlocked_snaps \union {p} /\ locked_snaps' = locked_snaps
    BY <1>4, <1>16, <2>2, <2>3 DEF unlocked_snaps, locked_snaps
  <2>7. Cardinality(unlocked_snaps') = Cardinality(unlocked_snaps) + 1
    BY <1>13, <2>6, FS_AddElement
  <2>8. msize' = [msize EXCEPT !.evictable = @ + 1]
    BY <2>1, <2>2
  <2>9. SizePart'
    BY <1>1, <2>6, <2>7, <2>8 DEF SizePart
  <2>10. Cardinality(DOMAIN snap \union {p}) = Cardinality(DOMAIN snap) + 1
    BY <1>13, <1>16, FS_AddElement
  <2>11. IsFiniteSet(pool)
    BY <1>14, FS_Subset
  <2>12. Cardinality(pool \ {slot}) = Cardinality(pool) - 1
    BY <2>11, FS_RemoveElement
  <2>13. Cardinality(DOMAIN snap) \in Nat /\ Cardinality(pool) \in Nat
    BY <1>13, <2>11, FS_CardinalityType
  <2>14. Cardinality(DOMAIN snap') + Cardinality(pool') = Cardinality(StateSlots)
    BY <1>14, <2>1, <2>3, <2>10, <2>12, <2>13
  <2>15. /\ pool' \subseteq StateSlots
         /\ \A n \in DOMAIN snap' : snap'[n] \in StateSlots \ pool'
         /\ \A m, n \in DOMAIN snap' : snap'[m] = snap'[n] => m = n
    BY <1>14, <2>1, <2>3
  <2>16. ASSUME NEW s \in StateSlots \ pool' PROVE \E n \in DOMAIN snap' : snap'[n] = s
    BY <1>14, <2>1, <2>3
  <2>17. SlotPart'
    BY <2>14, <2>15, <2>16 DEF SlotPart
  <2> QED
    BY <1>4, <1>8, <1>12, <2>3, <2>5, <2>9, <2>17 DEF HybridInv
<1> QED
  BY <1>15, <1>16

-----------------------------------------------------------------------------
\* A leaf that nobody locks goes with the tombstones it exposes, and with nothing
\* that is locked, has a snapshot or has another node below it.
LEMMA CascadeMeaning ==
  ASSUME HybridAssumption, TreePart, NEW n \in nodes(tree), is_leaf(tree, n), tree.ref[n] = 0
  PROVE  /\ n \in cascade(n)
         /\ Downward(tree, cascade(n))
         /\ \A m \in cascade(n) : /\ tree.ref[m] = 0 /\ IsPrefix(m, n)
                                  /\ m # n => m \notin DOMAIN snap
         /\ unlinked(n) = pruned(tree, cascade(n))
<1>1. nodes(tree) \subseteq Seq(Pages)
  BY NodesArePaths DEF TreePart
<1>2. \A m \in nodes(tree) : IsPrefix(m, m)
  BY <1>1, PrefixOrder
<1>3. \A k \in nodes(tree) : IsPrefix(n, k) => k = n
  BY DEF is_leaf, IsStrictPrefix
<1>4. \A m : m \in cascade(n) <=>
        /\ m \in nodes(tree) /\ IsPrefix(m, n)
        /\ \A k \in nodes(tree) : IsPrefix(m, k) =>
             k = n \/ (IsPrefix(k, n) /\ k \notin DOMAIN snap /\ tree.ref[k] = 0)
  BY DEF cascade, ancestors
<1>5. n \in cascade(n)
  BY <1>2, <1>3, <1>4
<1>6. \A m \in cascade(n) : /\ tree.ref[m] = 0 /\ IsPrefix(m, n)
                            /\ m # n => m \notin DOMAIN snap
  BY <1>2, <1>4
<1>7. ASSUME NEW m \in cascade(n), NEW k \in nodes(tree), IsPrefix(m, k)
      PROVE  k \in cascade(n)
  <2>1. IsPrefix(k, n)
    BY <1>2, <1>4, <1>7
  <2>2. \A j \in nodes(tree) : IsPrefix(k, j) => IsPrefix(m, j)
    BY <1>1, <1>4, <1>7, PrefixOrder
  <2> QED
    BY <1>4, <2>1, <2>2
<1>8. Downward(tree, cascade(n))
  BY <1>4, <1>7 DEF Downward
<1>9. unlinked(n) = pruned(tree, cascade(n))
  BY DEF unlinked, pruned, cascade_tokens
<1> QED
  BY <1>5, <1>6, <1>8, <1>9

\* Unlinking it leaves a radix tree whose leaves have snapshots, and every page and
\* snapshot above a lock.
LEMMA UnlinkKeeps ==
  ASSUME HybridAssumption, TreePart, SnapPart,
         NEW n \in nodes(tree), is_leaf(tree, n), tree.ref[n] = 0,
         tree' = unlinked(n), locks' = locks
  PROVE  /\ TreePart'
         /\ DOMAIN snap \ {n} \subseteq nodes(tree')
         /\ \A k \in nodes(tree') : is_leaf(tree', k) => k \in DOMAIN snap \ {n}
         /\ \A h \in handles(locks), x \in Seq(Pages) \ {Root} :
              IsPrefix(x, handle_path[h]) => tree'.value[x] = tree.value[x]
<1> DEFINE C == cascade(n)
           H == handles(locks)
           d == pruned(tree, C)
<1>1. /\ n \in C /\ Downward(tree, C) /\ unlinked(n) = d
      /\ \A m \in C : /\ tree.ref[m] = 0 /\ IsPrefix(m, n)
                      /\ m # n => m \notin DOMAIN snap
  BY CascadeMeaning
<1>2. \A m : m \in C <=>
        /\ m \in nodes(tree) /\ IsPrefix(m, n)
        /\ \A k \in nodes(tree) : IsPrefix(m, k) =>
             k = n \/ (IsPrefix(k, n) /\ k \notin DOMAIN snap /\ tree.ref[k] = 0)
  BY DEF cascade, ancestors
<1> HIDE DEF C
<1>3. C \in SUBSET nodes(tree) /\ \A m \in C : tree.ref[m] = 0
  BY <1>1 DEF Downward
<1>4. /\ TreeInv(tree, Pages) /\ SizesAgree(tree)
      /\ CountsHandles(tree, H, handle_path)
      /\ DOMAIN tree.value \subseteq Paths /\ locks \in [Paths -> Nat]
  BY DEF TreePart
<1>5. /\ nodes(d) = nodes(tree) \ C
      /\ DOMAIN d.value = DOMAIN tree.value \ edges(tree, C)
  BY <1>4, PruneFields DEF TreeInv
<1>6. TreeInv(d, Pages)
  BY <1>1, <1>4, PruneKeepsShape
<1>7. CountsHandles(d, H, handle_path)
  BY <1>3, <1>4, PruneKeepsCounts
<1>8. SizesAgree(d)
  BY <1>1, <1>3, <1>4, PruneKeepsSizes
<1>9. \A h \in H, x \in Seq(Pages) \ {Root} :
        IsPrefix(x, handle_path[h]) => d.value[x] = tree.value[x]
  BY <1>3, <1>4, PruneKeepsHandles
<1>10. tree' = d
  BY <1>1
<1> HIDE DEF d
<1>11. CountsHandles(tree, handles(locks), handle_path)'
  BY <1>7, <1>10 DEF handle_path
<1>12. TreePart'
  BY <1>4, <1>5, <1>6, <1>8, <1>10, <1>11 DEF TreePart
<1>13. /\ DOMAIN snap \subseteq nodes(tree)
       /\ \A k \in nodes(tree) : is_leaf(tree, k) => k \in DOMAIN snap
       /\ \A q \in Paths \ {Root} : locks[q] > 0 => q \in DOMAIN snap
  BY DEF SnapPart, LeafHasSnapshot
<1>14. /\ nodes(tree) \subseteq Paths \ {Root} /\ nodes(tree) \subseteq Seq(Pages)
       /\ \A k \in nodes(tree) :
            tree.ref[k] # 0 => \E q \in Paths : locks[q] > 0 /\ IsPrefix(k, q)
       /\ \A k \in nodes(tree), q \in Paths :
            locks[q] > 0 /\ IsPrefix(k, q) => tree.ref[k] # 0
       /\ \A q \in Paths : locks[q] > 0 => q \in nodes(tree) \union {Root}
  BY InvMeaning
<1>15. ASSUME NEW k \in nodes(d), is_leaf(d, k) PROVE k \in DOMAIN snap \ {n}
  <2>1. k \in nodes(tree) /\ k \notin C /\ k # n
    BY <1>1, <1>5
  <2>2. \A m \in nodes(tree) : IsStrictPrefix(k, m) => m \in C
    BY <1>5, <1>15 DEF is_leaf
  <2>3. CASE is_leaf(tree, k)
    BY <1>13, <2>1, <2>3
  <2>4. CASE ~ is_leaf(tree, k)
    <3>1. PICK m \in C : IsStrictPrefix(k, m)
      BY <2>2, <2>4 DEF is_leaf
    <3>2. IsPrefix(k, n)
      BY <1>1, <1>3, <1>14, <2>1, <3>1, PrefixOrder DEF IsStrictPrefix
    <3>3. PICK j \in nodes(tree) :
            /\ IsPrefix(k, j) /\ j # n
            /\ ~ (IsPrefix(j, n) /\ j \notin DOMAIN snap /\ tree.ref[j] = 0)
      BY <1>2, <2>1, <3>2
    <3>4. j = k
      BY <1>1, <2>2, <3>3 DEF IsStrictPrefix
    <3>5. CASE tree.ref[k] # 0
      <4>1. PICK q \in Paths : locks[q] > 0 /\ IsPrefix(k, q)
        BY <1>14, <2>1, <3>5
      <4>2. q # Root
        BY <1>14, <2>1, <4>1, RootPrefix
      <4>3. q \in nodes(tree) /\ q \in DOMAIN snap
        BY <1>13, <1>14, <4>1, <4>2
      <4>4. tree.ref[q] # 0
        BY <1>14, <4>1, <4>3, PrefixOrder
      <4>5. q = k
        BY <1>3, <2>2, <4>1, <4>3, <4>4 DEF IsStrictPrefix
      <4> QED
        BY <2>1, <4>3, <4>5
    <3>6. CASE tree.ref[k] = 0
      BY <2>1, <3>2, <3>3, <3>4, <3>6
    <3> QED
      BY <3>5, <3>6
  <2> QED
    BY <2>3, <2>4
<1>16. DOMAIN snap \ {n} \subseteq nodes(d)
  BY <1>1, <1>5, <1>13
<1> QED
  BY <1>9, <1>10, <1>12, <1>15, <1>16

\* _free_node_mamba of an unlocked node: its slot is the caller's again.
LEMMA FreeKeepsSlots ==
  ASSUME HybridAssumption, TreePart, SnapPart, SizePart, SlotPart,
         NEW n \in nodes(tree), mref[n] = 0, free_node_mamba(n), mref' = mref
  PROVE  /\ DOMAIN snap' = DOMAIN snap \ {n}
         /\ \A m \in DOMAIN snap' : snap'[m] = snap[m]
         /\ SizePart' /\ SlotPart'
<1>1. /\ IsFiniteSet(DOMAIN snap) /\ IsFiniteSet(unlocked_snaps)
      /\ mref \in [Paths -> Nat] /\ DOMAIN snap \subseteq Paths
  BY InvMeaning DEF SnapPart
<1>2. CASE n \notin DOMAIN snap
  <2>1. snap' = snap /\ msize' = msize /\ pool' = pool
    BY <1>2 DEF free_node_mamba
  <2>2. unlocked_snaps' = unlocked_snaps /\ locked_snaps' = locked_snaps
    BY <2>1 DEF unlocked_snaps, locked_snaps
  <2> QED
    BY <1>2, <2>1, <2>2 DEF SizePart, SlotPart
<1>3. CASE n \in DOMAIN snap
  <2>1. /\ snap' = [m \in DOMAIN snap \ {n} |-> snap[m]]
        /\ msize' = [msize EXCEPT !.evictable = @ - 1]
        /\ pool' = pool \union {snap[n]}
    BY <1>3 DEF free_node_mamba
  <2>2. /\ DOMAIN snap' = DOMAIN snap \ {n}
        /\ \A m \in DOMAIN snap' : snap'[m] = snap[m]
    BY <2>1
  <2>3. /\ n \in unlocked_snaps
        /\ unlocked_snaps' = unlocked_snaps \ {n} /\ locked_snaps' = locked_snaps
    BY <1>3, <2>2 DEF unlocked_snaps, locked_snaps
  <2>4. Cardinality(unlocked_snaps') = Cardinality(unlocked_snaps) - 1
    BY <1>1, <2>3, FS_RemoveElement
  <2>5. SizePart'
    BY <2>1, <2>3, <2>4 DEF SizePart
  <2>6. /\ pool \subseteq StateSlots /\ IsFiniteSet(StateSlots)
        /\ \A m \in DOMAIN snap : snap[m] \in StateSlots \ pool
        /\ \A m, k \in DOMAIN snap : snap[m] = snap[k] => m = k
        /\ \A s \in StateSlots \ pool : \E m \in DOMAIN snap : snap[m] = s
        /\ Cardinality(DOMAIN snap) + Cardinality(pool) = Cardinality(StateSlots)
    BY DEF SlotPart, HybridAssumption
  <2>7. IsFiniteSet(pool)
    BY <2>6, FS_Subset
  <2>8. Cardinality(DOMAIN snap \ {n}) = Cardinality(DOMAIN snap) - 1
    BY <1>1, <1>3, FS_RemoveElement
  <2>9. Cardinality(pool \union {snap[n]}) = Cardinality(pool) + 1
    BY <1>3, <2>6, <2>7, FS_AddElement
  <2>10. Cardinality(DOMAIN snap) \in Nat /\ Cardinality(pool) \in Nat
    BY <1>1, <2>7, FS_CardinalityType
  <2>11. Cardinality(DOMAIN snap') + Cardinality(pool') = Cardinality(StateSlots)
    BY <2>1, <2>2, <2>6, <2>8, <2>9, <2>10
  <2>12. /\ pool' \subseteq StateSlots
         /\ \A m \in DOMAIN snap' : snap'[m] \in StateSlots \ pool'
         /\ \A m, k \in DOMAIN snap' : snap'[m] = snap'[k] => m = k
    BY <1>3, <2>1, <2>2, <2>6
  <2>13. ASSUME NEW s \in StateSlots \ pool' PROVE \E m \in DOMAIN snap' : snap'[m] = s
    BY <2>1, <2>2, <2>6
  <2>14. SlotPart'
    BY <2>11, <2>12, <2>13 DEF SlotPart
  <2> QED
    BY <2>2, <2>5, <2>14
<1> QED
  BY <1>2, <1>3

\* One round of either eviction: an unlocked leaf goes with its KV and its snapshot,
\* an unlocked inner node loses its snapshot only.
LEMMA EvictKeeps ==
  ASSUME HybridAssumption, HybridInv, NEW n \in nodes(tree), mref[n] = 0,
         free_node_mamba(n), mref' = mref, locks' = locks,
         \/ is_leaf(tree, n) /\ tree.ref[n] = 0 /\ tree' = unlinked(n)
         \/ ~ is_leaf(tree, n) /\ tree' = tree
  PROVE  /\ HybridInv'
         /\ \A q \in Paths \ {Root} : locks[q] > 0 => q \in DOMAIN snap' /\ snap'[q] = snap[q]
         /\ \A h \in handles(locks), x \in Seq(Pages) \ {Root} :
              IsPrefix(x, handle_path[h]) => tree'.value[x] = tree.value[x]
<1>1. TreePart /\ SnapPart /\ SizePart /\ SlotPart
  BY DEF HybridInv
<1>2. /\ DOMAIN snap' = DOMAIN snap \ {n}
      /\ \A m \in DOMAIN snap' : snap'[m] = snap[m]
      /\ SizePart' /\ SlotPart'
  BY <1>1, FreeKeepsSlots
<1>3. /\ DOMAIN snap \subseteq nodes(tree) /\ mref \in [Paths -> Nat]
      /\ \A k \in nodes(tree) : is_leaf(tree, k) => k \in DOMAIN snap
      /\ \A q \in Paths \ {Root} : mref[q] = locks[q]
      /\ \A q \in Paths \ {Root} : locks[q] > 0 => q \in DOMAIN snap
      /\ nodes(tree) \subseteq Paths \ {Root}
  BY <1>1, InvMeaning DEF SnapPart, LeafHasSnapshot
<1>4. \A q \in Paths \ {Root} : locks[q] > 0 => q \in DOMAIN snap' /\ snap'[q] = snap[q]
  BY <1>2, <1>3
<1>5. /\ TreePart'
      /\ DOMAIN snap \ {n} \subseteq nodes(tree')
      /\ \A k \in nodes(tree') : is_leaf(tree', k) => k \in DOMAIN snap \ {n}
      /\ \A h \in handles(locks), x \in Seq(Pages) \ {Root} :
           IsPrefix(x, handle_path[h]) => tree'.value[x] = tree.value[x]
  <2>1. CASE is_leaf(tree, n) /\ tree.ref[n] = 0 /\ tree' = unlinked(n)
    BY <1>1, <2>1, UnlinkKeeps
  <2>2. CASE ~ is_leaf(tree, n) /\ tree' = tree
    <3>1. TreePart'
      BY <1>1, <2>2 DEF TreePart, handle_path
    <3> QED
      BY <1>3, <2>2, <3>1
  <2> QED
    BY <2>1, <2>2
<1>6. SnapPart'
  BY <1>2, <1>3, <1>4, <1>5 DEF SnapPart, LeafHasSnapshot
<1> QED
  BY <1>2, <1>4, <1>5, <1>6 DEF HybridInv

\* What evict_full pops is a leaf that nobody locks, what evict_mamba pops a snapshot
\* that nobody locks: a leaf of those has no lock at all.
LEMMA PoppedMeaning ==
  ASSUME HybridAssumption, HybridInv, NEW n \in nodes(tree), n \in Candidates
  PROVE  /\ mref[n] = 0
         /\ is_leaf(tree, n) => tree.ref[n] = 0
         /\ job.kind = "full" => is_leaf(tree, n)
<1>1. /\ nodes(tree) \subseteq Paths \ {Root} /\ nodes(tree) \subseteq Seq(Pages)
      /\ \A k \in nodes(tree) :
           tree.ref[k] # 0 => \E q \in Paths : locks[q] > 0 /\ IsPrefix(k, q)
      /\ \A k \in nodes(tree), q \in Paths :
           locks[q] > 0 /\ IsPrefix(k, q) => tree.ref[k] # 0
      /\ \A q \in Paths : locks[q] > 0 => q \in nodes(tree) \union {Root}
      /\ locks \in [Paths -> Nat]
      /\ \A q \in Paths \ {Root} : mref[q] = locks[q]
  BY InvMeaning DEF HybridInv, TreePart, SnapPart
<1>2. IsPrefix(n, n)
  BY <1>1, PrefixOrder
<1>3. CASE job.kind = "full"
  <2>1. is_leaf(tree, n) /\ tree.ref[n] = 0
    BY <1>3 DEF Candidates, evict_candidates
  <2>2. locks[n] = 0
    BY <1>1, <1>2, <2>1
  <2> QED
    BY <1>1, <2>1, <2>2
<1>4. CASE job.kind # "full"
  <2>1. mref[n] = 0
    BY <1>4 DEF Candidates
  <2>2. ASSUME is_leaf(tree, n), tree.ref[n] # 0 PROVE FALSE
    <3>1. PICK q \in Paths : locks[q] > 0 /\ IsPrefix(n, q)
      BY <1>1, <2>2
    <3>2. q # Root
      BY <1>1, <3>1, RootPrefix
    <3>3. q = n
      BY <1>1, <2>2, <3>1, <3>2 DEF is_leaf, IsStrictPrefix
    <3> QED
      BY <1>1, <2>1, <3>1, <3>3
  <2> QED
    BY <1>4, <2>1, <2>2
<1> QED
  BY <1>3, <1>4

\* The pages above a lock are in the tree.
LEMMA LockedPages ==
  ASSUME HybridAssumption, TreePart, SnapPart, NEW q \in Paths \ {Root}, locks[q] > 0,
         NEW k \in 1 .. Len(q)
  PROVE  /\ SubSeq(q, 1, k) \in Seq(Pages) \ {Root}
         /\ SubSeq(q, 1, k) \in DOMAIN tree.value
         /\ \E h \in handles(locks) : handle_path[h] = q
         /\ IsPrefix(SubSeq(q, 1, k), q)
<1> DEFINE x == SubSeq(q, 1, k)
<1>1. q \in Seq(Pages)
  BY PathsAreSequences DEF HybridAssumption
<1>2. q \in nodes(tree)
  BY InvMeaning
<1>3. k \in 0 .. Len(q) /\ k # 0
  BY <1>1, LenProperties
<1>4. x \in Seq(Pages) /\ Len(x) = k /\ IsPrefix(x, q)
  BY <1>1, <1>3, PrefixCut
<1>5. x # Root
  BY <1>3, <1>4, RootPrefix
<1> HIDE DEF x
<1>6. x \in DOMAIN tree.value
  BY <1>2, <1>4, <1>5 DEF TreePart, TreeInv
<1>7. \E h \in handles(locks) : handle_path[h] = q
  <2>1. locks \in [Paths -> Nat]
    BY DEF TreePart
  <2>2. PICK h \in handles(locks) : h[1] = q
    BY <2>1, HandlesMeaning
  <2>3. h \in Paths \X Nat
    BY <2>1, HandlesMeaning
  <2> QED
    BY <2>2, <2>3 DEF handle_path
<1> QED
  BY <1>2, <1>4, <1>5, <1>6, <1>7 DEF x

\* What LockedPrefixKept says of one step.
KeepsLocked ==
  \A q \in Paths \ {Root} : locks[q] > 0 =>
    /\ q \in DOMAIN snap' /\ snap'[q] = snap[q]
    /\ \A k \in 1 .. Len(q) :
         tree'.value[SubSeq(q, 1, k)] = tree.value[SubSeq(q, 1, k)]

\* Every step keeps the invariant, and whatever is locked before it.
LEMMA HybridStepInv ==
  ASSUME HybridAssumption, HybridInv, HybridNext
  PROVE  HybridInv' /\ KeepsLocked
<1>1. TreePart /\ SnapPart
  BY DEF HybridInv
<1>2. \A q \in Paths \ {Root} : locks[q] > 0 =>
        \A k \in 1 .. Len(q) :
          /\ SubSeq(q, 1, k) \in Seq(Pages) \ {Root}
          /\ SubSeq(q, 1, k) \in DOMAIN tree.value
          /\ \E h \in handles(locks) : handle_path[h] = q
          /\ IsPrefix(SubSeq(q, 1, k), q)
  BY <1>1, LockedPages
<1>3. \A q \in Paths \ {Root} : locks[q] > 0 => q \in DOMAIN snap
  BY <1>1 DEF SnapPart
<1>4. ASSUME NEW p \in Prompts, match_prefix(p) PROVE HybridInv' /\ KeepsLocked
  <2>1. tree'.value = tree.value /\ snap' = snap
    BY <1>1, <1>4, MatchKeepsTree DEF match_prefix
  <2>2. KeepsLocked
    BY <1>3, <2>1 DEF KeepsLocked
  <2> QED
    BY <1>4, <2>2, MatchKeeps
<1>5. ASSUME NEW q \in Paths, dec_lock(q) PROVE HybridInv' /\ KeepsLocked
  <2>1. HybridInv' /\ tree'.value = tree.value
    BY <1>5, DecLockKeeps
  <2>2. snap' = snap
    BY <1>5 DEF dec_lock
  <2>3. KeepsLocked
    BY <1>3, <2>1, <2>2 DEF KeepsLocked
  <2> QED
    BY <2>1, <2>3
<1>6. ASSUME NEW p \in Prompts, NEW slot \in pool, insert(p, slot) PROVE HybridInv' /\ KeepsLocked
  <2>1. /\ HybridInv'
        /\ \A x \in DOMAIN tree.value : tree'.value[x] = tree.value[x]
        /\ \A n \in DOMAIN snap : n \in DOMAIN snap' /\ snap'[n] = snap[n]
    BY <1>6, InsertKeeps
  <2>2. KeepsLocked
    BY <1>2, <1>3, <2>1 DEF KeepsLocked
  <2> QED
    BY <2>1, <2>2
<1>7. ASSUME UNCHANGED <<tree, snap, mref, msize, locks, pool>> PROVE HybridInv' /\ KeepsLocked
  <2>1. TreePart'
    BY <1>1, <1>7 DEF TreePart, handle_path
  <2>2. SnapPart'
    BY <1>1, <1>7 DEF SnapPart, LeafHasSnapshot
  <2>3. unlocked_snaps' = unlocked_snaps /\ locked_snaps' = locked_snaps
    BY <1>7 DEF unlocked_snaps, locked_snaps
  <2>4. SizePart' /\ SlotPart'
    BY <1>7, <2>3 DEF HybridInv, SizePart, SlotPart
  <2>5. KeepsLocked
    BY <1>3, <1>7 DEF KeepsLocked
  <2> QED
    BY <2>1, <2>2, <2>4, <2>5 DEF HybridInv
<1>8. ASSUME NEW n \in nodes(tree), mref[n] = 0,
             free_node_mamba(n), mref' = mref, locks' = locks,
             \/ is_leaf(tree, n) /\ tree.ref[n] = 0 /\ tree' = unlinked(n)
             \/ ~ is_leaf(tree, n) /\ tree' = tree
      PROVE  HybridInv' /\ KeepsLocked
  <2>1. /\ HybridInv'
        /\ \A q \in Paths \ {Root} : locks[q] > 0 => q \in DOMAIN snap' /\ snap'[q] = snap[q]
        /\ \A h \in handles(locks), x \in Seq(Pages) \ {Root} :
             IsPrefix(x, handle_path[h]) => tree'.value[x] = tree.value[x]
    BY <1>8, EvictKeeps
  <2>2. KeepsLocked
    <3> SUFFICES ASSUME NEW q \in Paths \ {Root}, locks[q] > 0, NEW k \in 1 .. Len(q)
                 PROVE  tree'.value[SubSeq(q, 1, k)] = tree.value[SubSeq(q, 1, k)]
      BY <2>1 DEF KeepsLocked
    <3>1. PICK h \in handles(locks) : handle_path[h] = q
      BY <1>2
    <3> QED
      BY <1>2, <2>1, <3>1
  <2> QED
    BY <2>1, <2>2
<1>9. ASSUME NEW n \in nodes(tree), evict_full(n) PROVE HybridInv' /\ KeepsLocked
  <2>1. /\ job.kind = "full" /\ n \in Candidates /\ tree' = unlinked(n)
        /\ free_node_mamba(n) /\ mref' = mref /\ locks' = locks
    BY <1>9 DEF evict_full, Popped
  <2>2. mref[n] = 0 /\ is_leaf(tree, n) /\ tree.ref[n] = 0
    BY <2>1, PoppedMeaning
  <2> QED
    BY <1>8, <2>1, <2>2
<1>10. ASSUME NEW n \in nodes(tree), evict_mamba(n) PROVE HybridInv' /\ KeepsLocked
  <2>1. /\ n \in Candidates
        /\ tree' = IF is_leaf(tree, n) /\ tree.ref[n] = 0 THEN unlinked(n) ELSE tree
        /\ free_node_mamba(n) /\ mref' = mref /\ locks' = locks
    BY <1>10 DEF evict_mamba, Popped
  <2>2. mref[n] = 0 /\ (is_leaf(tree, n) => tree.ref[n] = 0)
    BY <2>1, PoppedMeaning
  <2> QED
    BY <1>8, <2>1, <2>2
<1>11. ASSUME NEW kind, NEW num, evict_begin(kind, num) PROVE HybridInv' /\ KeepsLocked
  BY <1>7, <1>11 DEF evict_begin
<1>12. ASSUME evict_end PROVE HybridInv' /\ KeepsLocked
  BY <1>7, <1>12 DEF evict_end
<1> QED
  BY <1>4, <1>5, <1>6, <1>9, <1>10, <1>11, <1>12 DEF HybridNext

\* The steps that change nothing keep it too.
LEMMA HybridStutterInv ==
  ASSUME HybridInv, UNCHANGED hybridVars
  PROVE  HybridInv'
<1>1. UNCHANGED <<tree, snap, mref, msize, locks, pool>>
  BY DEF hybridVars
<1>2. TreePart'
  BY <1>1 DEF HybridInv, TreePart, handle_path
<1>3. SnapPart'
  BY <1>1 DEF HybridInv, SnapPart, LeafHasSnapshot
<1>4. unlocked_snaps' = unlocked_snaps /\ locked_snaps' = locked_snaps
  BY <1>1 DEF unlocked_snaps, locked_snaps
<1>5. SizePart' /\ SlotPart'
  BY <1>1, <1>4 DEF HybridInv, SizePart, SlotPart
<1> QED
  BY <1>2, <1>3, <1>5 DEF HybridInv

\* The invariant says what the runs check.
LEMMA HybridInvSays ==
  ASSUME HybridAssumption, HybridInv
  PROVE  /\ HybridTypeOK
         /\ LeafHasSnapshot
         /\ BothCountsAreLocks
         /\ SizesMatchTree
         /\ SlotsConserved
         /\ NothingLeftBehind
<1>1. TreePart /\ SnapPart /\ SizePart /\ SlotPart
  BY DEF HybridInv
<1>2. /\ nodes(tree) \subseteq Paths \ {Root}
      /\ IsFiniteSet(unlocked_snaps) /\ IsFiniteSet(locked_snaps)
  BY <1>1, InvMeaning
<1>3. /\ TreeInv(tree, Pages) /\ SizesAgree(tree)
      /\ CountsHandles(tree, handles(locks), handle_path)
      /\ locks \in [Paths -> Nat]
  BY <1>1 DEF TreePart
<1>4. tree.evictable \in Nat /\ tree.protected \in Nat
  BY <1>3, SizesAreNatural
<1>5. Cardinality(unlocked_snaps) \in Nat /\ Cardinality(locked_snaps) \in Nat
  BY <1>2, FS_CardinalityType
<1>6. msize = [evictable |-> Cardinality(unlocked_snaps),
               protected |-> Cardinality(locked_snaps)]
  BY <1>1 DEF SizePart
<1>7. msize \in [evictable : Nat, protected : Nat]
  BY <1>5, <1>6
<1>8. /\ DOMAIN snap \subseteq nodes(tree) /\ mref \in [Paths -> Nat]
      /\ LeafHasSnapshot
      /\ \A q \in Paths \ {Root} : mref[q] = locks[q]
  BY <1>1 DEF SnapPart
<1>9. /\ pool \subseteq StateSlots
      /\ \A n \in DOMAIN snap : snap[n] \in StateSlots \ pool
      /\ \A s \in StateSlots \ pool : \E n \in DOMAIN snap : snap[n] = s
      /\ Cardinality(DOMAIN snap) + Cardinality(pool) = Cardinality(StateSlots)
  BY <1>1 DEF SlotPart
<1>10. HybridTypeOK
  BY <1>2, <1>4, <1>7, <1>8, <1>9 DEF HybridTypeOK
<1>11. BothCountsAreLocks
  <2>1. ASSUME NEW n \in nodes(tree)
        PROVE  tree.ref[n] = Cardinality({h \in handles(locks) : IsPrefix(n, h[1])})
    <3>1. tree.ref[n] = Cardinality({h \in handles(locks) : IsPrefix(n, handle_path[h])})
      BY <1>3 DEF CountsHandles
    <3>2. \A h \in handles(locks) : handle_path[h] = h[1]
      <4>1. handles(locks) \subseteq Paths \X Nat
        BY <1>3, HandlesMeaning
      <4> QED
        BY <4>1 DEF handle_path
    <3>3. {h \in handles(locks) : IsPrefix(n, handle_path[h])}
            = {h \in handles(locks) : IsPrefix(n, h[1])}
      BY <3>2
    <3> QED
      BY <3>1, <3>3
  <2> QED
    BY <1>8, <2>1 DEF BothCountsAreLocks
<1>12. SizesMatchTree
  BY <1>3, <1>6 DEF SizesMatchTree, unlocked_snaps, locked_snaps
<1>13. SlotsConserved
  <2>1. {snap[n] : n \in DOMAIN snap} \union pool = StateSlots
    BY <1>9
  <2> QED
    BY <1>9, <2>1 DEF SlotsConserved
<1>14. NothingLeftBehind
  <2> SUFFICES ASSUME job # Idle, Candidates = {}
               PROVE  IF job.kind = "full" THEN tree.evictable = 0 ELSE msize.evictable = 0
    BY DEF NothingLeftBehind
  <2>1. CASE job.kind = "full"
    <3>1. evict_candidates(tree) = {}
      BY <2>1 DEF Candidates
    <3>2. ~ (tree.evictable > 0)
      BY <1>3, <3>1, LeafToEvict
    <3> QED
      BY <1>4, <2>1, <3>2
  <2>2. CASE job.kind # "full"
    <3>1. unlocked_snaps = {}
      BY <2>2 DEF Candidates, unlocked_snaps
    <3>2. msize.evictable = 0
      BY <1>6, <3>1, FS_EmptySet
    <3> QED
      BY <2>2, <3>2
  <2> QED
    BY <2>1, <2>2
<1> QED
  BY <1>8, <1>10, <1>11, <1>12, <1>13, <1>14

\* The hybrid cache stays sound between any two rounds of its evictions: a leaf has
\* a snapshot, both counts are the unreleased locks, the four sizes are what they
\* count, a donated slot is in the tree once or with the caller, and an eviction
\* ends with an empty heap only when nothing unlocked is left.
THEOREM HybridCacheIsSound ==
  ASSUME HybridAssumption
  PROVE  HybridSpec => [](/\ HybridTypeOK
                    /\ LeafHasSnapshot
                    /\ BothCountsAreLocks
                    /\ SizesMatchTree
                    /\ SlotsConserved
                    /\ NothingLeftBehind)
<1>1. HybridInit => HybridInv
  BY HybridInitInv
<1>2. HybridInv /\ [HybridNext]_hybridVars => HybridInv'
  BY HybridStepInv, HybridStutterInv
<1>3. HybridInv => /\ HybridTypeOK
             /\ LeafHasSnapshot
             /\ BothCountsAreLocks
             /\ SizesMatchTree
             /\ SlotsConserved
             /\ NothingLeftBehind
  BY HybridInvSays
<1> QED
  BY <1>1, <1>2, <1>3, PTL DEF HybridSpec

\* No insert, split, tombstone or eviction moves or frees the KV slots above a lock
\* or the snapshot it ends at.
THEOREM LockedPrefixIsKept ==
  ASSUME HybridAssumption
  PROVE  HybridSpec => LockedPrefixKept
<1>1. HybridInit => HybridInv
  BY HybridInitInv
<1>2. HybridInv /\ [HybridNext]_hybridVars => HybridInv'
  BY HybridStepInv, HybridStutterInv
<1>3. HybridInv /\ [HybridNext]_hybridVars => [KeepsLocked]_hybridVars
  BY HybridStepInv
<1> QED
  BY <1>1, <1>2, <1>3, PTL DEF HybridSpec, LockedPrefixKept, KeepsLocked

=============================================================================
