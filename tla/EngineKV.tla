-------------------------------- MODULE EngineKV --------------------------------
(***************************************************************************)
(* Who owns the KV slots: Engine.add_request / step / abort_request        *)
(* (engine/engine.py) over the slot pool (kvcache/mha_pool.py), the page   *)
(* table and the radix prefix cache, with prefix caching on.               *)
(*                                                                         *)
(* A prompt is matched and locked, gets a page-table row whose head        *)
(* aliases the matched slots and whose tail is its own, is forwarded chunk *)
(* by chunk, and when it stops gives its slots to the tree.  When the pool *)
(* is short, add_request evicts from the tree and tries once more.         *)
(*                                                                         *)
(* The Scheduler module says which requests a step forwards; here any live *)
(* request may advance next.  The engine is sequential, so a step never    *)
(* falls between the parts of an add_request.                              *)
(***************************************************************************)
EXTENDS RadixTree

CONSTANTS
  Requests,       \* request identities; each is submitted at most once
  Tokens,         \* token ids
  MaxRunningReq,  \* config.max_running_req
  MaxSeqLen,      \* max_seq_len, the width of a page-table row
  NumSlots,       \* slots of the pool, the reserved slot 0 included
  Prompts,        \* token sequences a client may submit
  OutputLens      \* max_tokens values a client may submit

EngineBounds ==
  /\ MaxRunningReq \in Nat \ {0}
  /\ NumSlots \in Nat \ {0}
  /\ MaxSeqLen \in Nat
  /\ \A p \in Prompts : p \in Seq(Tokens) /\ Len(p) > 0
  /\ \A m \in OutputLens : m \in Nat \ {0}
  /\ \A p \in Prompts, m \in OutputLens : Len(p) + m <= MaxSeqLen

ASSUME EngineAssumption == EngineBounds

VARIABLES
  freeSlots,   \* _free_slots of the pool, a sorted list
  alloc,       \* _alloc: row -> the slots allocated for it
  pageTable,   \* page_table: row -> position -> slot
  freeRows,    \* the scheduler's free rows
  tree,        \* the prefix cache
  clock,       \* its timestamps
  req,         \* the requests
  stage,       \* idle, or where add_request is
  current,     \* the request being added
  toEvict,     \* the tokens evict() has still to free
  kv,          \* history: the token prefix a slot's K/V was computed for
  unwritten    \* history: slots the tree took over without a forward

vars == <<freeSlots, alloc, pageTable, freeRows, tree, clock, req, stage,
          current, toEvict, kv, unwritten>>

Rows == 0 .. (MaxRunningReq - 1)
Slots == 0 .. (NumSlots - 1)
Positions == 1 .. MaxSeqLen

Nobody == "nobody"

NoRequest == [phase |-> "new", row |-> 0, ids |-> <<>>, promptLen |-> 0,
              maxLen |-> 0, handle |-> Root, cachedLen |-> 0, done |-> 0]

Init ==
  /\ freeSlots = [i \in 1 .. (NumSlots - 1) |-> i]
  /\ alloc = [row \in Rows |-> <<>>]
  /\ pageTable = [row \in Rows |-> [pos \in Positions |-> 0]]
  /\ freeRows = Rows
  /\ tree = EmptyTree
  /\ clock = 0
  /\ req = [r \in Requests |-> NoRequest]
  /\ stage = "idle"
  /\ current = Nobody
  /\ toEvict = 0
  /\ kv = [s \in Slots |-> <<>>]
  /\ unwritten = {}

Live(r) == req[r].phase \in {"prefill", "decode"}

\* The whole pages of a token sequence; the radix tree never sees the rest.
pages(ids) ==
  [k \in 1 .. (Len(ids) \div PageSize) |->
     SubSeq(ids, (k - 1) * PageSize + 1, k * PageSize)]

align_down(n) == (n \div PageSize) * PageSize

\* The page of the position pos of a sequence, and its place in the page.
page_of(pos) == ((pos - 1) \div PageSize) + 1
offset_of(pos) == ((pos - 1) % PageSize) + 1

\* list.sort: the i-th element of s goes to the place it has among all of them.
sorted(s) ==
  LET place == [i \in DOMAIN s |->
        Cardinality({j \in DOMAIN s : s[j] < s[i] \/ (s[j] = s[i] /\ j <= i)})]
  IN  [k \in DOMAIN s |-> s[CHOOSE i \in DOMAIN s : place[i] = k]]

(***************************************************************************)
(* add_request: match, clamp and lock; take a row; then _allocate_slot.    *)
(***************************************************************************)
\* Never the whole prompt: the last token is forwarded to get logits.
reused_len(ids, matched) == align_down(Min({matched, Len(ids) - 1}))

\* handle.get_matched_indices().
matched_indices(tr, q) ==
  [pos \in 1 .. PageSize * Len(q) |->
     tr.value[SubSeq(q, 1, page_of(pos))][offset_of(pos)]]

\* A bug: the matched prefix is used without locking it.
locked_match_unlocked(ids) == tree_walk(tree, pages(ids), clock + 1)

\* match followed by lock.
locked_match(ids) ==
  lock_handle(tree_walk(tree, pages(ids), clock + 1), matched_path(tree, pages(ids)))

admitted(row, ids, outputLen) ==
  LET q == matched_path(tree, pages(ids))
      cached == reused_len(ids, PageSize * Len(q))
  IN  [phase |-> "prefill", row |-> row, ids |-> ids, promptLen |-> Len(ids),
       maxLen |-> Len(ids) + outputLen, handle |-> q, cachedLen |-> cached,
       done |-> cached]

add_request(r, ids, outputLen) ==
  LET row == Min(freeRows)
      q == matched_path(tree, pages(ids))
      new == admitted(row, ids, outputLen)
      hit == matched_indices(tree, q)
  IN  /\ stage = "idle"
      /\ req[r].phase = "new"
      /\ freeRows # {}
      /\ tree' = locked_match(ids)
      /\ clock' = clock + 1
      /\ freeRows' = freeRows \ {row}
      /\ req' = [req EXCEPT ![r] = new]
      /\ pageTable' = [pageTable EXCEPT ![row] =
                         [pos \in Positions |->
                            IF pos <= new.cachedLen THEN hit[pos] ELSE @[pos]]]
      /\ stage' = "alloc"
      /\ current' = r
      /\ UNCHANGED <<freeSlots, alloc, toEvict, kv, unwritten>>

\* Every row is taken: Scheduler.add raises, after the match has been locked.
reject_request(r, ids) ==
  /\ stage = "idle"
  /\ req[r].phase = "new"
  /\ freeRows = {}
  /\ tree' = locked_match(ids)
  /\ clock' = clock + 1
  /\ req' = [req EXCEPT ![r] = [NoRequest EXCEPT
               !.phase = "rejected", !.handle = matched_path(tree, pages(ids))]]
  /\ UNCHANGED <<freeSlots, alloc, pageTable, freeRows, stage, current, toEvict,
                 kv, unwritten>>

\* num_pages * page_size of _allocate_slot.
remaining == MaxSeqLen - req[current].cachedLen
need == ((remaining + PageSize - 1) \div PageSize) * PageSize

mapped(row, cached, slots) ==
  [pos \in Positions |->
     IF pos > cached THEN slots[pos - cached] ELSE pageTable[row][pos]]

\* MHAKVCache.allocate succeeds, at once or after the eviction.
allocate ==
  LET row == req[current].row
      cached == req[current].cachedLen
      slots == SubSeq(freeSlots, 1, need)
  IN  /\ stage \in {"alloc", "retry"}
      /\ need <= Len(freeSlots)
      /\ freeSlots' = SubSeq(freeSlots, need + 1, Len(freeSlots))
      /\ alloc' = [alloc EXCEPT ![row] = slots]
      /\ pageTable' = [pageTable EXCEPT ![row] = mapped(row, cached, slots)]
      /\ kv' = [s \in Slots |-> IF s \in Range(slots) THEN <<>> ELSE kv[s]]
      /\ stage' = "idle"
      /\ current' = Nobody
      /\ UNCHANGED <<freeRows, tree, clock, req, toEvict, unwritten>>

begin_evict ==
  /\ stage = "alloc"
  /\ need > Len(freeSlots)
  /\ tree.evictable > 0
  /\ stage' = "evict"
  /\ toEvict' = Min({need, tree.evictable})
  /\ UNCHANGED <<freeSlots, alloc, pageTable, freeRows, tree, clock, req, current,
                 kv, unwritten>>

\* One pop of evict(); its slots go back to the pool.
evict_pop ==
  /\ stage = "evict"
  /\ \E n \in nodes(tree) :
       /\ lru_leaf(tree, n)
       /\ tree' = drop_leaf(tree, n)
       /\ freeSlots' = sorted(freeSlots \o SetToSeq(leaf_slots(tree, n)))
       /\ toEvict' = Max({0, toEvict - node_length(tree, n)})
       /\ stage' = IF toEvict' = 0 THEN "retry" ELSE "evict"
  /\ UNCHANGED <<alloc, pageTable, freeRows, clock, req, current, kv, unwritten>>

\* The pool is still short: add_request raises, but the scheduler has already
\* queued the request and its row keeps whatever it mapped before.
allocate_fails ==
  /\ \/ stage = "alloc" /\ tree.evictable = 0
     \/ stage = "retry"
  /\ need > Len(freeSlots)
  /\ stage' = "idle"
  /\ current' = Nobody
  /\ UNCHANGED <<freeSlots, alloc, pageTable, freeRows, tree, clock, req, toEvict,
                 kv, unwritten>>

(***************************************************************************)
(* step: forward some positions of a request, then sample and maybe stop.  *)
(***************************************************************************)
slot_of(r, pos) == pageTable[req[r].row][pos]

\* The K/V contents once the positions from..to of r have been forwarded.
forwarded(r, from, to) ==
  [s \in Slots |->
     IF \E pos \in from .. to : slot_of(r, pos) = s
       THEN SubSeq(req[r].ids, 1, CHOOSE pos \in from .. to : slot_of(r, pos) = s)
       ELSE kv[s]]

written_slots(r, from, to) == {slot_of(r, pos) : pos \in from .. to}

\* A chunk that does not complete the prompt: nothing is sampled.
prefill_chunk(r, n) ==
  LET to == req[r].done + n
  IN  /\ stage = "idle"
      /\ req[r].phase = "prefill"
      /\ to < req[r].promptLen
      /\ kv' = forwarded(r, req[r].done + 1, to)
      /\ unwritten' = unwritten \ written_slots(r, req[r].done + 1, to)
      /\ req' = [req EXCEPT ![r].done = to]
      /\ UNCHANGED <<freeSlots, alloc, pageTable, freeRows, tree, clock, stage,
                     current, toEvict>>

\* The last chunk, or a decode of the newest token: sample tok and go on.
sample(r, tok) ==
  LET to == Len(req[r].ids)
      ids == Append(req[r].ids, tok)
  IN  /\ stage = "idle"
      /\ Live(r)
      /\ Len(ids) < req[r].maxLen
      /\ kv' = forwarded(r, req[r].done + 1, to)
      /\ unwritten' = unwritten \ written_slots(r, req[r].done + 1, to)
      /\ req' = [req EXCEPT ![r].ids = ids, ![r].done = to, ![r].phase = "decode"]
      /\ UNCHANGED <<freeSlots, alloc, pageTable, freeRows, tree, clock, stage,
                     current, toEvict>>

\* A bug: the part the tree held already is not given back to the pool.
freeable_tail_only(row, cached, inserted, len) ==
  SubSeq(pageTable[row], len + 1, MaxSeqLen)

\* redundant and never_written of the commit block.
freeable(row, cached, inserted, len) ==
  SubSeq(pageTable[row], cached + 1, inserted)
    \o SubSeq(pageTable[row], len + 1, MaxSeqLen)

\* The request stops on tok (max_tokens, or an EOS it obeys): unlock, commit the
\* whole sequence, detach the row's slots, free the ones the tree did not take.
finish(r, tok) ==
  LET to == Len(req[r].ids)
      ids == Append(req[r].ids, tok)
      row == req[r].row
      p == pages(ids)
      unlocked == unlock_handle(tree, req[r].handle)
      inserted == PageSize * matched_pages(unlocked, p)
      indices == [k \in 1 .. Len(p) |->
                    SubSeq(pageTable[row], (k - 1) * PageSize + 1, k * PageSize)]
      adopted == {pageTable[row][pos] : pos \in (inserted + 1) .. align_down(Len(ids))}
  IN  /\ stage = "idle"
      /\ Live(r)
      /\ kv' = forwarded(r, req[r].done + 1, to)
      /\ tree' = insert_prefix(unlocked, p, indices, clock + 1)
      /\ clock' = clock + 2
      /\ alloc' = [alloc EXCEPT ![row] = <<>>]
      /\ freeSlots' = sorted(freeSlots
                        \o freeable(row, req[r].cachedLen, inserted, Len(ids)))
      /\ unwritten' = (unwritten \ written_slots(r, req[r].done + 1, to))
                        \union ({slot_of(r, Len(ids))} \cap adopted)
      /\ freeRows' = freeRows \union {row}
      /\ req' = [req EXCEPT ![r].ids = ids, ![r].done = to, ![r].phase = "done"]
      /\ UNCHANGED <<pageTable, stage, current, toEvict>>

(***************************************************************************)
(* abort_request: unlock, drop, and return the row's own slots.            *)
(***************************************************************************)

abort_unlocks(r) == unlock_handle(tree, req[r].handle)

abort_request(r) ==
  LET row == req[r].row
  IN  /\ stage = "idle"
      /\ Live(r)
      /\ tree' = abort_unlocks(r)
      /\ freeSlots' = sorted(freeSlots \o alloc[row])
      /\ alloc' = [alloc EXCEPT ![row] = <<>>]
      /\ freeRows' = freeRows \union {row}
      /\ req' = [req EXCEPT ![r].phase = "aborted"]
      /\ UNCHANGED <<pageTable, clock, stage, current, toEvict, kv, unwritten>>

-----------------------------------------------------------------------------
Allocation == allocate \/ begin_evict \/ evict_pop \/ allocate_fails

Operation ==
  \E r \in Requests :
    \/ \E ids \in Prompts, m \in OutputLens : add_request(r, ids, m)
    \/ \E ids \in Prompts : reject_request(r, ids)
    \/ \E n \in 1 .. MaxSeqLen : prefill_chunk(r, n)
    \/ \E tok \in Tokens : sample(r, tok)
    \/ \E tok \in Tokens : finish(r, tok)
    \/ abort_request(r)

Next == Operation \/ Allocation

Spec == Init /\ [][Next]_vars

-----------------------------------------------------------------------------
(***************************************************************************)
(* Properties.                                                             *)
(***************************************************************************)
Phases == {"new", "prefill", "decode", "done", "aborted", "rejected"}

\* Every variable of the KV bookkeeping keeps its type.
TypeOK ==
  /\ freeSlots \in Seq(Slots)
  /\ \A row \in Rows : alloc[row] \in Seq(Slots)
  /\ pageTable \in [Rows -> [Positions -> Slots]]
  /\ freeRows \subseteq Rows
  /\ \A n \in nodes(tree) : tree.ref[n] \in Nat
  /\ tree.evictable \in Nat /\ tree.protected \in Nat
  /\ \A r \in Requests :
       /\ req[r].phase \in Phases
       /\ req[r].row \in Rows
       /\ req[r].cachedLen \in 0 .. req[r].promptLen
       /\ req[r].done <= Len(req[r].ids)
  /\ stage \in {"idle", "alloc", "evict", "retry"}
  /\ current \in Requests \union {Nobody}
  /\ toEvict \in Nat
  /\ unwritten \subseteq Slots

\* Where a slot occurs on the free list, in the rows' allocations and in the tree.
free_places(s) == {i \in DOMAIN freeSlots : freeSlots[i] = s}
row_places(s) ==
  UNION {{row} \X {i \in DOMAIN alloc[row] : alloc[row][i] = s} : row \in Rows}
tree_places(s) == {q \in DOMAIN tree.value : s \in Range(tree.value[q])}

Owners(s) ==
  Cardinality(free_places(s)) + Cardinality(row_places(s)) + Cardinality(tree_places(s))

\* Every allocatable slot is on the free list, in one row's allocation or in one
\* place of the tree, and never in two: add, commit, abort and evict neither
\* leak a slot nor hand it out twice.
SlotOwnership == \A s \in Slots \ {0} : Owners(s) = 1

\* The part of a prompt that aliases cached slots stays in the tree, in those
\* slots, for as long as the request is live, whatever is evicted meanwhile.
ReusedPrefixPinned ==
  \A r \in Requests : Live(r) =>
    LET p == pages(SubSeq(req[r].ids, 1, req[r].cachedLen))
    IN  \A k \in 1 .. Len(p) :
          /\ SubSeq(p, 1, k) \in DOMAIN tree.value
          /\ tree.value[SubSeq(p, 1, k)] =
               SubSeq(pageTable[req[r].row], (k - 1) * PageSize + 1, k * PageSize)

\* Attention reads back what was computed for the request's own tokens, through
\* aliased and own slots alike; the one exception is the last token of an
\* earlier, committed sequence (see KvComputed).
HistoryIntact ==
  \A r \in Requests : Live(r) =>
    \A pos \in 1 .. req[r].done :
      kv[slot_of(r, pos)] = SubSeq(req[r].ids, 1, pos)
        \/ slot_of(r, pos) \in unwritten

\* _allocate_slot maps the cached prefix "so attention over the full history
\* reads the already-computed K/V for those positions instead of a fresh
\* (garbage, never-written) allocation".
KvComputed ==
  \A r \in Requests : Live(r) =>
    \A pos \in 1 .. req[r].done :
      kv[slot_of(r, pos)] = SubSeq(req[r].ids, 1, pos)

\* ref_count counts the handles of live requests, and of the rejected ones,
\* whose lock nobody releases.
LocksAreHandles ==
  \A n \in nodes(tree) :
    tree.ref[n] = Cardinality({r \in Requests :
      (Live(r) \/ req[r].phase = "rejected") /\ IsPrefix(n, req[r].handle)})

\* add_request raises "so a caller can reject the request cleanly": a rejected
\* request leaves no lock behind.
RejectedCleanly ==
  \A n \in nodes(tree) :
    tree.ref[n] = Cardinality({r \in Requests :
      Live(r) /\ IsPrefix(n, req[r].handle)})

\* The sizes the eviction relies on, and its assertion that a leaf is left.
EvictionPossible ==
  /\ SizesAgree(tree)
  /\ stage = "evict" => evict_candidates(tree) # {}

\* "one allocation here covers the whole request": a request the scheduler holds
\* has slots of its own for every position past its cached prefix.
QueuedHasSlots ==
  stage = "idle" =>
    \A r \in Requests : Live(r) =>
      \A pos \in (req[r].cachedLen + 1) .. MaxSeqLen :
        slot_of(r, pos) \in Range(alloc[req[r].row])
=============================================================================
