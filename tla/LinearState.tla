------------------------------ MODULE LinearState ------------------------------
(***************************************************************************)
(* The recurrent (Gated-Delta-Net) state of a hybrid model: the slots of   *)
(* kvcache/linear_state_pool.py, the pool the model keeps for itself       *)
(* (models/qwen3_5_moe), and what Engine.add_request, step and             *)
(* abort_request (engine/engine.py) do with them.                          *)
(*                                                                         *)
(* With prefix caching every request takes three slots: a live one its     *)
(* forwards read and write, and two track slots.  One step after the model *)
(* has sampled the tool-call opener the live state is copied to a track    *)
(* slot and registered under the token prefix it stands for; a later       *)
(* request whose cached prefix is exactly that one starts from the copy.   *)
(* Without prefix caching the slot is the request's page-table row.        *)
(*                                                                         *)
(* A state is the sequence of tokens folded into it since it was zero.     *)
(* Three history variables say where a state comes from; no guard and no   *)
(* variable of the code depends on them.                                   *)
(***************************************************************************)
EXTENDS Integers, Sequences, SequencesExt, FiniteSetsExt

CONSTANTS
  Requests,       \* request identities; each is submitted at most once
  Prompts,        \* token sequences a client may submit
  Sampled,        \* tokens the model may sample
  Anchor,         \* toolcall_anchor_id
  Eos,            \* the sampler's eos_token_id
  MaxTokens,      \* max_tokens of every request
  MaxRunningReq,  \* config.max_running_req
  MaxExtend,      \* prompt tokens of one request in one step, at most
  PageSize,       \* config.page_size
  PrefixCaching,  \* whether the engine has a cache manager
  MaxAborts       \* bound on the aborts of a behaviour

\* What the constants have to satisfy.
LinearAssumption ==
  /\ MaxRunningReq \in Nat \ {0}
  /\ MaxExtend \in Nat \ {0}
  /\ PageSize \in Nat \ {0}
  /\ MaxTokens \in Nat \ {0}
  /\ MaxAborts \in Nat
  /\ Prompts \subseteq Seq(Int) \ {<<>>}
  /\ Sampled \subseteq Int
  /\ Anchor \in Int
  /\ PrefixCaching \in BOOLEAN

VARIABLES
  freeSlots,   \* LinearStatePool._free_slots, popped from the end
  state,       \* slot -> the tokens its conv and recurrent state stand for
  snapshots,   \* _mamba_anchor_snapshots: token prefix -> slot
  committed,   \* sequences whose K/V the prefix cache has taken over
  freeRows,    \* the scheduler's free rows
  req,         \* the requests
  aborts,      \* aborts so far
  origin,      \* history: request -> the state its own tokens are folded onto,
               \* how many tokens went before them, and how often it was restored
  frozen,      \* history: token prefix -> the origin of its snapshot's state
  lost         \* history: the prefixes whose slot an abort has given away

histories == <<origin, frozen, lost>>
vars == <<freeSlots, state, snapshots, committed, freeRows, req, aborts, histories>>

\* _build_hybrid_linear_pool: the padding slot and three slots per request.
NumSlots == 3 * MaxRunningReq + 1
Slots == 0 .. (NumSlots - 1)
Rows == 0 .. (MaxRunningReq - 1)
NoSlot == -1

NoRequest == [phase |-> "new", row |-> NoSlot, live |-> NoSlot, track |-> <<>>,
              restore |-> NoSlot, ids |-> <<>>, promptLen |-> 0, cached |-> 0,
              done |-> 0, anchorLen |-> 0, tracked |-> FALSE]

NoOrigin == [state |-> <<>>, at |-> 0, restores |-> 0]

Live(r) == req[r].phase \in {"prefill", "decode"}

Init ==
  /\ freeSlots = [i \in 1 .. (NumSlots - 1) |-> i]
  /\ state = [s \in Slots |-> <<>>]
  /\ snapshots = [p \in {} |-> NoSlot]
  /\ committed = {}
  /\ freeRows = Rows
  /\ req = [r \in Requests |-> NoRequest]
  /\ aborts = 0
  /\ origin = [r \in Requests |-> NoOrigin]
  /\ frozen = [p \in {} |-> NoOrigin]
  /\ lost = {}

\* alloc(n): what is left of the free list once n slots are popped.
alloc_rest(n) == SubSeq(freeSlots, 1, Len(freeSlots) - n)

\* alloc(n): the slots, in the order they are popped.
alloc(n) == Reverse(SubSeq(freeSlots, Len(freeSlots) - n + 1, Len(freeSlots)))

align_down(n) == n - (n % PageSize)

\* What match() may return: whatever the tree still has of a committed
\* sequence, whole pages, and at least one prompt token left to compute.
cached_lens(ids) ==
  {0} \union {align_down(n) : n \in {m \in 1 .. (Len(ids) - 1) :
                \E c \in committed : IsPrefix(SubSeq(ids, 1, m), c)}}

\* The lookup in _mamba_anchor_snapshots, by the cached prefix itself.
restore_src(ids, n) ==
  LET p == SubSeq(ids, 1, n)
  IN  IF n > 0 /\ p \in DOMAIN snapshots THEN snapshots[p] ELSE NoSlot

admitted(ids, n, slots, row) ==
  [NoRequest EXCEPT !.phase = "prefill", !.row = row, !.ids = ids,
                    !.promptLen = Len(ids), !.cached = n, !.done = n,
                    !.live = slots[1], !.track = Tail(slots),
                    !.restore = restore_src(ids, n)]

\* add_request with prefix caching: match, three slots, then a row.
add_request(r, ids) ==
  /\ PrefixCaching
  /\ req[r].phase = "new"
  /\ Len(freeSlots) >= 3
  /\ freeRows # {}
  /\ \E n \in cached_lens(ids) :
       /\ req' = [req EXCEPT ![r] = admitted(ids, n, alloc(3), Min(freeRows))]
       /\ origin' = [origin EXCEPT ![r] = [state |-> state[alloc(3)[1]], at |-> n, restores |-> 0]]
  /\ freeSlots' = alloc_rest(3)
  /\ freeRows' = freeRows \ {Min(freeRows)}
  /\ UNCHANGED <<state, snapshots, committed, aborts, frozen, lost>>

\* alloc raises: nothing was taken yet (but the lock on the match).  There are
\* never three slots left without a row, so Scheduler.add never refuses first.
add_request_no_slots(r) ==
  /\ PrefixCaching
  /\ req[r].phase = "new"
  /\ Len(freeSlots) < 3
  /\ req' = [req EXCEPT ![r].phase = "refused"]
  /\ UNCHANGED <<freeSlots, state, snapshots, committed, freeRows, aborts, histories>>

\* Without prefix caching the model's own pool has one slot per row.
add_request_plain(r, ids) ==
  /\ ~PrefixCaching
  /\ req[r].phase = "new"
  /\ freeRows # {}
  /\ req' = [req EXCEPT ![r] = admitted(ids, 0, <<Min(freeRows)>>, Min(freeRows))]
  /\ origin' = [origin EXCEPT ![r] = [state |-> state[Min(freeRows)], at |-> 0, restores |-> 0]]
  /\ freeRows' = freeRows \ {Min(freeRows)}
  /\ UNCHANGED <<freeSlots, state, snapshots, committed, aborts, frozen, lost>>

\* copy_from(mamba_restore_src, linear_slot_idx), before the forward.
restored(r) ==
  IF req[r].restore = NoSlot THEN state
  ELSE [state EXCEPT ![req[r].live] = state[req[r].restore]]

\* What the request's tokens are folded onto from here.
origin_of(r) ==
  IF req[r].restore = NoSlot THEN origin[r]
  ELSE [state |-> state[req[r].restore], at |-> req[r].done, restores |-> origin[r].restores + 1]

\* A bug: the layers fold each chunk into a fresh state.
gated_delta_net_fresh(st, slot, toks) == [st EXCEPT ![slot] = toks]

\* The linear layers: the new tokens are folded into the slot's state.
gated_delta_net(st, slot, toks) == [st EXCEPT ![slot] = @ \o toks]

\* The first time the model samples the opener its length is remembered.
anchor_len(q, tok) ==
  IF tok = Anchor /\ q.anchorLen = 0 THEN Len(q.ids) + 1 ELSE q.anchorLen

\* step() and snapshot_toolcall_anchor: once, one step after the detection,
\* and only if the anchor ends a page.
snapshot_due(q, len, ids) ==
  /\ q.track # <<>>
  /\ len # 0
  /\ ~q.tracked
  /\ Len(ids) = len + 1
  /\ align_down(len) = len

\* The track slots that are not registered go back with the live one.
to_free(q, snaps) ==
  LET unregistered(s) == IF s \in {snaps[p] : p \in DOMAIN snaps} THEN <<>> ELSE <<s>>
  IN  <<q.live>> \o unregistered(q.track[1]) \o unregistered(q.track[2])

stops(q, ids, tok) == tok = Eos \/ Len(ids) >= q.promptLen + MaxTokens

\* The part of step() after the forward: sample tok, watch for the anchor,
\* freeze the state, and when the request stops commit it and free its slots.
sample(r, st, from, tok) ==
  LET q    == req[r]
      ids  == Append(q.ids, tok)
      len  == anchor_len(q, tok)
      due  == snapshot_due(q, len, ids)
      key  == SubSeq(ids, 1, len)
      snaps == IF due THEN [p \in DOMAIN snapshots \union {key} |->
                              IF p = key THEN q.track[1] ELSE snapshots[p]]
               ELSE snapshots
      stop == stops(q, ids, tok)
  IN  /\ state' = IF due THEN [st EXCEPT ![q.track[1]] = st[q.live]] ELSE st
      /\ snapshots' = snaps
      /\ req' = [req EXCEPT ![r] =
                   [q EXCEPT !.phase = IF stop THEN "finished" ELSE "decode",
                             !.ids = ids, !.done = Len(q.ids), !.restore = NoSlot,
                             !.anchorLen = len, !.tracked = q.tracked \/ due]]
      /\ committed' = IF stop /\ PrefixCaching THEN committed \union {ids} ELSE committed
      /\ freeSlots' = IF stop /\ PrefixCaching THEN freeSlots \o to_free(q, snaps)
                      ELSE freeSlots
      /\ freeRows' = IF stop THEN freeRows \union {q.row} ELSE freeRows
      /\ origin' = [origin EXCEPT ![r] = IF stop THEN NoOrigin ELSE from]
      /\ frozen' = IF due THEN [p \in DOMAIN snaps |-> IF p = key THEN from ELSE frozen[p]]
                   ELSE frozen
      /\ lost' = IF due THEN lost \ {key} ELSE lost

\* An intermediate chunk: restore, forward, nothing sampled.  The next chunk's
\* Req is built from the PendingReq, which keeps mamba_restore_src.
prefill_chunk(r) ==
  /\ req[r].phase = "prefill"
  /\ req[r].done + MaxExtend < req[r].promptLen
  /\ state' = gated_delta_net(restored(r), req[r].live,
                SubSeq(req[r].ids, req[r].done + 1, req[r].done + MaxExtend))
  /\ req' = [req EXCEPT ![r].done = @ + MaxExtend]
  /\ origin' = [origin EXCEPT ![r] = origin_of(r)]
  /\ UNCHANGED <<freeSlots, snapshots, committed, freeRows, aborts, frozen, lost>>

\* The chunk that completes the prompt, and the first sampled token.
prefill_last(r, tok) ==
  /\ req[r].phase = "prefill"
  /\ req[r].done + MaxExtend >= req[r].promptLen
  /\ sample(r, gated_delta_net(restored(r), req[r].live,
                 SubSeq(req[r].ids, req[r].done + 1, req[r].promptLen)), origin_of(r), tok)
  /\ UNCHANGED aborts

\* A decode step forwards the last token and samples the next.
decode(r, tok) ==
  /\ req[r].phase = "decode"
  /\ sample(r, gated_delta_net(state, req[r].live, <<Last(req[r].ids)>>), origin[r], tok)
  /\ UNCHANGED aborts

\* abort_request: all three slots go back, registered or not.
abort_request(r) ==
  /\ Live(r)
  /\ aborts < MaxAborts
  /\ req' = [req EXCEPT ![r].phase = "aborted"]
  /\ freeSlots' = IF PrefixCaching THEN freeSlots \o <<req[r].live>> \o req[r].track
                  ELSE freeSlots
  /\ freeRows' = freeRows \union {req[r].row}
  /\ aborts' = aborts + 1
  /\ origin' = [origin EXCEPT ![r] = NoOrigin]
  /\ lost' = lost \union {p \in DOMAIN snapshots : snapshots[p] \in ToSet(req[r].track)}
  /\ UNCHANGED <<state, snapshots, committed, frozen>>

Next ==
  \E r \in Requests :
    \/ \E ids \in Prompts : add_request(r, ids) \/ add_request_plain(r, ids)
    \/ add_request_no_slots(r)
    \/ prefill_chunk(r)
    \/ \E tok \in Sampled : prefill_last(r, tok) \/ decode(r, tok)
    \/ abort_request(r)

Spec == Init /\ [][Next]_vars

-----------------------------------------------------------------------------

TypeOK ==
  /\ freeSlots \in Seq(Slots)
  /\ state \in [Slots -> Seq(Int)]
  /\ \A p \in DOMAIN snapshots : snapshots[p] \in Slots \ {0}
  /\ freeRows \subseteq Rows
  /\ \A r \in Requests : Live(r) => req[r].live \in Slots /\ req[r].row \in Rows
  /\ aborts \in 0 .. MaxAborts
  /\ DOMAIN frozen = DOMAIN snapshots /\ lost \subseteq DOMAIN snapshots

SlotsOf(r) == IF Live(r) /\ PrefixCaching THEN {req[r].live} \union ToSet(req[r].track) ELSE {}

\* A slot of the pool never serves two requests at once, is never free while
\* a live request has it, and is never on the free list twice, whatever is
\* donated, restored, finished or aborted in between.
ExclusiveSlots ==
  /\ IsInjective(freeSlots)
  /\ \A r \in Requests : SlotsOf(r) \cap ToSet(freeSlots) = {}
  /\ \A r, q \in Requests : r # q => SlotsOf(r) \cap SlotsOf(q) = {}

\* A live state is exactly what it was restored from, or found in its slot,
\* followed by the request's own tokens up to the last one forwarded, each once
\* and in order, over chunks and decode steps and whoever shares the batch.
\* Unless the request was restored twice, these are all tokens behind its cached
\* prefix.
FoldedExactly ==
  \A r \in Requests : Live(r) =>
    /\ state[req[r].live] = origin[r].state \o SubSeq(req[r].ids, origin[r].at + 1, req[r].done)
    /\ origin[r].restores <= 1 => origin[r].at = req[r].cached

\* A registered snapshot was taken when exactly the prefix it is registered
\* under, opener included, had been forwarded, and holds that state until the
\* request that took it is aborted, whatever others do.
SnapshotAtAnchor ==
  \A p \in DOMAIN snapshots \ lost :
    /\ frozen[p].at < Len(p)
    /\ state[snapshots[p]] = frozen[p].state \o SubSeq(p, frozen[p].at + 1, Len(p))
    /\ Last(p) = Anchor

\* A registered snapshot is frozen: no forward, copy or new owner changes the
\* state behind it as long as the lookup can still return it, unless the abort
\* of its own request has given its slot away.
SnapshotFrozen ==
  [][\A p \in DOMAIN snapshots \ lost :
       snapshots'[p] = snapshots[p] => state'[snapshots[p]] = state[snapshots[p]]]_vars

\* engine.py:840-842 ("make the copy exactly-once for the request's lifetime"):
\* the tokens a request has computed itself are all at the end of its state.
TokensFoldedOnce ==
  \A r \in Requests : Live(r) =>
    IsSuffix(SubSeq(req[r].ids, req[r].cached + 1, req[r].done), state[req[r].live])

\* engine.py:620-621 ("instead of starting from zero"): a request without a
\* cached prefix computes from the zero state.
StartsFromZero ==
  \A r \in Requests : Live(r) /\ req[r].cached = 0 /\ req[r].done > 0 =>
    state[req[r].live] = SubSeq(req[r].ids, 1, req[r].done)

\* engine.py:617-621: a cached prefix that reaches at least as far as a
\* recorded snapshot of the same prefix has its state restored.
CachedPrefixRestored ==
  \A r \in Requests :
    LET n == req[r].cached
        known == {m \in 1 .. n : SubSeq(req[r].ids, 1, m) \in DOMAIN snapshots}
    IN  req[r].phase = "prefill" /\ req[r].done = n /\ known # {} =>
          req[r].restore # NoSlot

\* engine.py:699-700 ("an abort never donates a snapshot"): no registered slot
\* is on the free list.
SnapshotsNotFree == \A p \in DOMAIN snapshots : snapshots[p] \notin ToSet(freeSlots)

\* engine.py:528-530: three slots per possible concurrent request, so a free
\* row always comes with slots.
SlotsForEveryRow == PrefixCaching => Len(freeSlots) >= 3 * Cardinality(freeRows)

=============================================================================
