------------------------------- MODULE RadixTree -------------------------------
(***************************************************************************)
(* The radix tree of kvcache/radix_cache.py as a value: each operator maps *)
(* a tree to the tree an operation of RadixPrefixCache leaves behind.      *)
(*                                                                         *)
(* The tree's keys are whole pages of PageSize tokens, so a place in the   *)
(* tree is a sequence of pages.  value gives the KV slots of every page of *)
(* every edge; a node is named by the path to its END, which a split never *)
(* changes (the suffix keeps the node, a new node takes the prefix), so a  *)
(* path is also the identity a cache handle holds on to.                   *)
(***************************************************************************)
EXTENDS Integers, Sequences, FiniteSets, SequencesExt

CONSTANT PageSize   \* tokens per page

ASSUME PageAssumption == PageSize \in Nat \ {0}

Root == <<>>

EmptyTree == [value |-> <<>>, ref |-> <<>>, stamp |-> <<>>,
              evictable |-> 0, protected |-> 0]

nodes(tr) == DOMAIN tr.ref

\* The nodes an operation on the handle at path q touches: q up to the root.
ancestors(tr, q) == {n \in nodes(tr) : IsPrefix(n, q)}

is_leaf(tr, n) == ~ \E m \in nodes(tr) : IsStrictPrefix(n, m)

\* The handles a cache's users hold, given how many at each path: the k-th one
\* at the path q is <<q, k>>.
handles(locks) == UNION {{q} \X (1 .. locks[q]) : q \in DOMAIN locks}

\* The pages on the edge that ends at n.
edge(tr, n) ==
  {q \in DOMAIN tr.value :
     IsPrefix(q, n) /\ \A m \in ancestors(tr, n) \ {n} : ~ IsPrefix(q, m)}

\* The pages on the edges of the nodes ns, and node.length of all of them.
edges(tr, ns) == UNION {edge(tr, n) : n \in ns}
tokens(tr, ns) == PageSize * Cardinality(edges(tr, ns))

\* node.length: the tokens on the edge that ends at n.
node_length(tr, n) == PageSize * Cardinality(edge(tr, n))

\* How many whole pages of p the tree holds.
matched_pages(tr, p) ==
  Max({0} \union {k \in 1 .. Len(p) : SubSeq(p, 1, k) \in DOMAIN tr.value})

\* A bug: the node split off starts unlocked.
split_ref_zero(tr, q) == 0

\* split_at: the new prefix node inherits the ref count of the node it splits.
split_ref(tr, q) ==
  LET below == {m \in nodes(tr) : IsStrictPrefix(q, m)}
      node == CHOOSE m \in below : \A other \in below : Len(m) <= Len(other)
  IN  tr.ref[node]

\* _tree_walk along p: split the last node if it is matched in part, and stamp
\* every node on the matched path.
tree_walk(tr, p, tic) ==
  LET q == SubSeq(p, 1, matched_pages(tr, p))
      split == IF q = Root \/ q \in nodes(tr) THEN {} ELSE {q}
  IN  [tr EXCEPT
         !.ref = [n \in nodes(tr) \union split |->
                    IF n \in split THEN split_ref(tr, q) ELSE tr.ref[n]],
         !.stamp = [n \in nodes(tr) \union split |->
                      IF IsPrefix(n, q) THEN tic ELSE tr.stamp[n]]]

\* match_prefix: the handle is the path that was matched.
matched_path(tr, p) == SubSeq(p, 1, matched_pages(tr, p))

\* The token count of the nodes on q's path whose ref count is n.
path_tokens(tr, q, n) == tokens(tr, {m \in ancestors(tr, q) : tr.ref[m] = n})

\* lock_handle.
lock_handle(tr, q) ==
  [tr EXCEPT
     !.ref = [n \in nodes(tr) |->
                IF IsPrefix(n, q) THEN tr.ref[n] + 1 ELSE tr.ref[n]],
     !.evictable = @ - path_tokens(tr, q, 0),
     !.protected = @ + path_tokens(tr, q, 0)]

\* lock_handle(..., unlock=True).
unlock_handle(tr, q) ==
  [tr EXCEPT
     !.ref = [n \in nodes(tr) |->
                IF IsPrefix(n, q) THEN tr.ref[n] - 1 ELSE tr.ref[n]],
     !.evictable = @ + path_tokens(tr, q, 1),
     !.protected = @ - path_tokens(tr, q, 1)]

\* A bug: an insert replaces the slots of the part the tree already holds.
insert_prefix_overwrites(tr, p, slots, tic) ==
  LET walked == tree_walk(tr, p, tic)
      k == matched_pages(tr, p)
      fresh == IF k = Len(p) THEN {} ELSE {p}
  IN  [walked EXCEPT
         !.value = [q \in DOMAIN tr.value \union (Prefixes(p) \ {Root}) |->
                      IF IsPrefix(q, p) THEN slots[Len(q)] ELSE tr.value[q]],
         !.ref = [n \in nodes(walked) \union fresh |->
                    IF n \in fresh THEN 0 ELSE walked.ref[n]],
         !.stamp = [n \in nodes(walked) \union fresh |->
                      IF n \in fresh THEN tic + 1 ELSE walked.stamp[n]],
         !.evictable = @ + PageSize * (Len(p) - k)]

\* insert_prefix of the pages p, page i being in the slots slots[i]: the walk,
\* then one new leaf for the pages the tree does not hold.
insert_prefix(tr, p, slots, tic) ==
  LET walked == tree_walk(tr, p, tic)
      k == matched_pages(tr, p)
      fresh == IF k = Len(p) THEN {} ELSE {p}
  IN  [walked EXCEPT
         !.value = [q \in DOMAIN tr.value \union (Prefixes(p) \ {Root}) |->
                      IF q \in DOMAIN tr.value THEN tr.value[q] ELSE slots[Len(q)]],
         !.ref = [n \in nodes(walked) \union fresh |->
                    IF n \in fresh THEN 0 ELSE walked.ref[n]],
         !.stamp = [n \in nodes(walked) \union fresh |->
                      IF n \in fresh THEN tic + 1 ELSE walked.stamp[n]],
         !.evictable = @ + PageSize * (Len(p) - k)]

\* The heap of evict(): unlocked leaves, and parents once they become leaves.
evict_candidates(tr) == {n \in nodes(tr) : is_leaf(tr, n) /\ tr.ref[n] = 0}

lru_leaf(tr, n) ==
  /\ n \in evict_candidates(tr)
  /\ \A m \in evict_candidates(tr) : tr.stamp[n] <= tr.stamp[m]

\* One pop of evict(): the leaf leaves the tree.
drop_leaf(tr, n) ==
  [tr EXCEPT
     !.value = [q \in DOMAIN tr.value \ edge(tr, n) |-> tr.value[q]],
     !.ref = [m \in nodes(tr) \ {n} |-> tr.ref[m]],
     !.stamp = [m \in nodes(tr) \ {n} |-> tr.stamp[m]],
     !.evictable = @ - node_length(tr, n)]

\* The slots evict() hands back for the leaf n.
leaf_slots(tr, n) == UNION {Range(tr.value[q]) : q \in edge(tr, n)}

-----------------------------------------------------------------------------
\* Every inner page of the tree belongs to one edge, a branching point is a
\* node, and so is the end of every edge (what check_integrity looks at).
WellFormed(tr) ==
  /\ \A q \in DOMAIN tr.value : Len(q) > 1 => Front(q) \in DOMAIN tr.value
  /\ nodes(tr) \subseteq DOMAIN tr.value
  /\ \A q \in DOMAIN tr.value :
       LET next == {p \in DOMAIN tr.value : Len(p) = Len(q) + 1 /\ IsPrefix(q, p)}
       IN  Cardinality(next) # 1 => q \in nodes(tr)

\* size_info agrees with the tree.
SizesAgree(tr) ==
  /\ tr.evictable = tokens(tr, {n \in nodes(tr) : tr.ref[n] = 0})
  /\ tr.protected = tokens(tr, {n \in nodes(tr) : tr.ref[n] > 0})
=============================================================================
