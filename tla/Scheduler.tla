------------------------------- MODULE Scheduler -------------------------------
(***************************************************************************)
(* The continuous-batching scheduler: scheduler/scheduler.py together with *)
(* the prefill manager (scheduler/prefill.py), the decode manager          *)
(* (scheduler/decode.py) and the part of Engine.step that moves a request  *)
(* from one to the other.                                                  *)
(*                                                                         *)
(* A request owns one page-table row from add() until it is aborted or     *)
(* stops.  Each engine step asks schedule() for a batch -- a prefill batch *)
(* when a prompt can be admitted, else a decode batch -- runs the model    *)
(* over it, samples one token for every request whose prompt is complete,  *)
(* and gives the batch back to complete().                                 *)
(*                                                                         *)
(* The admission loop of schedule_next_batch is one step of the model per  *)
(* queue entry.  The forward pass lies between schedule and complete: that *)
(* is where another thread may call add().                                 *)
(***************************************************************************)
EXTENDS Integers, Sequences, FiniteSets, SequencesExt

CONSTANTS
  Requests,         \* request identities; each is submitted at most once
  MaxRunningReq,    \* config.max_running_req, the number of page-table rows
  MaxExtendTokens,  \* config.max_extend_tokens, prompt tokens per step
  CacheBudget,      \* cache_budget, the KV-pool budget of the admission gate
  PageSize,         \* config.page_size
  PromptLens,       \* prompt lengths a client may submit
  OutputLens        \* max_tokens values a client may submit

ASSUME SchedulerAssumption ==
  /\ MaxRunningReq \in Nat \ {0}
  /\ MaxExtendTokens \in Nat \ {0}
  /\ CacheBudget \in Nat
  /\ PageSize \in Nat \ {0}
  /\ PromptLens \subseteq Nat \ {0}
  /\ OutputLens \subseteq Nat
  /\ IsFiniteSet(Requests)

VARIABLES
  freeSlots,     \* _free_slots: how often the sorted list holds each row
  pendingList,   \* prefill_manager.pending_list
  runningReqs,   \* decode_manager.running_reqs
  pending,       \* the fields of each request's PendingReq
  req,           \* the Req (or ChunkedReq) built for it last
  stage,         \* where the step is: idle, in the admission loop, in forward
  batch,         \* the requests of the batch being forwarded
  adder,         \* the PrefillAdder and the locals of schedule_next_batch
  kv,            \* history: the positions whose K/V the forwards have written
  outcome,       \* history: what became of each request
  steps,         \* history: non-idle engine steps since generate() was called
  stepBudget,    \* history: the steps that call granted
  counted        \* history: the requests it granted them to, {} once others share

vars == <<freeSlots, pendingList, runningReqs, pending, req, stage, batch,
          adder, kv, outcome, steps, stepBudget, counted>>

Rows == 0 .. (MaxRunningReq - 1)

\* The kinds of Req object: none built yet, a partial prompt, a whole prompt.
NoReq == [kind |-> "none", cachedLen |-> 0, deviceLen |-> 0,
          maxDeviceLen |-> 0, aborted |-> FALSE]

NoPending == [inputLen |-> 0, cachedLen |-> 0, outputLen |-> 0, tableIdx |-> 0]

IdleAdder == [cursor |-> 1, tokenBudget |-> 0, reservedSize |-> 0,
              runningCount |-> 0, admitted |-> {}, chunked |-> <<>>,
              skipped |-> <<>>]

(***************************************************************************)
(* Req properties (core.py) and what the managers derive from them.        *)
(***************************************************************************)
remain_len(r) == req[r].maxDeviceLen - req[r].deviceLen

\* Req.can_decode, overridden with False by ChunkedReq.
can_decode(q) ==
  q.kind = "full" /\ q.maxDeviceLen - q.deviceLen > 0 /\ ~q.aborted

\* PendingReq.chunked_req is the ChunkedReq of the last chunk, or None.
is_continuation(r) == req[r].kind = "chunked"

\* DecodeManager.inflight_tokens.
inflight_tokens ==
  MapThenSumSet(remain_len, runningReqs)
    + (PageSize - 1) * Cardinality(runningReqs)

\* The whole footprint _try_allocate_one reserves for a fresh prompt.
estimated_len(r) ==
  (pending[r].inputLen - pending[r].cachedLen) + pending[r].outputLen

InQueue(r) == r \in Range(pendingList)

Init ==
  /\ freeSlots = [row \in Rows |-> 1]
  /\ pendingList = <<>>
  /\ runningReqs = {}
  /\ pending = [r \in Requests |-> NoPending]
  /\ req = [r \in Requests |-> NoReq]
  /\ stage = "idle"
  /\ batch = {}
  /\ adder = IdleAdder
  /\ kv = [r \in Requests |-> {}]
  /\ outcome = [r \in Requests |-> "new"]
  /\ steps = 0
  /\ stepBudget = 0
  /\ counted = {}

(***************************************************************************)
(* Scheduler.add: pop the lowest free row and queue the prompt.  With no   *)
(* free row it raises and changes nothing.  The engine has matched the     *)
(* prompt against the prefix cache first and leaves at least one token to  *)
(* extend, so cachedLen < inputLen.                                        *)
(***************************************************************************)
\* A bug: the "no free row" check of add() is missing.
lowest_free_unchecked(row) == \A other \in Rows : freeSlots[other] > 0 => row <= other

lowest_free(row) ==
  /\ freeSlots[row] > 0
  /\ \A other \in Rows : freeSlots[other] > 0 => row <= other

\* ceil(prompt / max_extend_tokens) prefill steps and one per output token.
generate_budget(inputLen, outputLen) ==
  (inputLen + MaxExtendTokens - 1) \div MaxExtendTokens + outputLen

add(r, inputLen, cachedLen, outputLen) ==
  /\ stage # "pass"
  /\ outcome[r] = "new"
  /\ \E row \in Rows :
       /\ lowest_free(row)
       /\ freeSlots' = [freeSlots EXCEPT ![row] = @ - 1]
       /\ pending' = [pending EXCEPT ![r] =
                        [inputLen |-> inputLen, cachedLen |-> cachedLen,
                         outputLen |-> outputLen, tableIdx |-> row]]
  /\ pendingList' = Append(pendingList, r)
  /\ kv' = [kv EXCEPT ![r] = 0 .. (cachedLen - 1)]
  /\ outcome' = [outcome EXCEPT ![r] = "live"]
  /\ counted' = {}
  /\ UNCHANGED <<runningReqs, req, stage, batch, adder, steps, stepBudget>>

(***************************************************************************)
(* The start of a call of Engine.generate: it grants the queue its steps,  *)
(* once, and one step to every request that is decoding already.  What is  *)
(* added later shares them, and so does what was decoding.  The sum over   *)
(* the queue is the number of the steps tagged with their request.         *)
(***************************************************************************)
generate ==
  /\ stage = "idle"
  /\ pendingList # <<>>
  /\ steps' = 0
  /\ stepBudget' =
       Cardinality(UNION {{r} \X (1 .. generate_budget(pending[r].inputLen, pending[r].outputLen)) :
                            r \in Range(pendingList)})
         + Cardinality(runningReqs)
  /\ counted' = IF runningReqs = {} THEN Range(pendingList) ELSE {}
  /\ UNCHANGED <<freeSlots, pendingList, runningReqs, pending, req, stage, batch,
                 adder, kv, outcome>>

(***************************************************************************)
(* Scheduler.abort: a queued prompt (chunked or not) leaves the queue, a   *)
(* decoding request leaves the decode set; either way its row is freed.    *)
(* The engine calls it between steps.                                      *)
(***************************************************************************)
abort(r) ==
  /\ stage = "idle"
  /\ \/ /\ \E i \in 1 .. Len(pendingList) :
             pendingList[i] = r /\ pendingList' = RemoveAt(pendingList, i)
        /\ UNCHANGED runningReqs
     \/ /\ ~InQueue(r)
        /\ r \in runningReqs
        /\ runningReqs' = runningReqs \ {r}
        /\ UNCHANGED pendingList
  /\ freeSlots' = [freeSlots EXCEPT ![pending[r].tableIdx] = @ + 1]
  /\ outcome' = [outcome EXCEPT ![r] = "aborted"]
  /\ UNCHANGED <<pending, req, stage, batch, adder, kv, steps, stepBudget, counted>>

(***************************************************************************)
(* Scheduler.schedule, the prefill half: PrefillManager.schedule_next_batch*)
(* builds a PrefillAdder and offers it every queue entry in order.         *)
(***************************************************************************)
begin_pass ==
  /\ stage = "idle"
  /\ pendingList # <<>>
  /\ stage' = "pass"
  /\ adder' = [cursor |-> 1,
               tokenBudget |-> MaxExtendTokens,
               reservedSize |-> inflight_tokens,
               runningCount |-> Cardinality(runningReqs),
               admitted |-> {}, chunked |-> <<>>, skipped |-> <<>>]
  /\ UNCHANGED <<freeSlots, pendingList, runningReqs, pending, req, batch, kv,
                 outcome, steps, stepBudget, counted>>

\* PrefillAdder._try_allocate_one: the request-cap and the KV-pool gate.
try_allocate_one(r) ==
  /\ adder.runningCount < MaxRunningReq
  /\ adder.reservedSize + estimated_len(r) <= CacheBudget

\* A bug: a continuation resumes at the start of its last chunk.
chunk_start_stale(r) ==
  IF is_continuation(r) THEN req[r].cachedLen ELSE pending[r].cachedLen

\* try_add_one: where this chunk of r starts.
chunk_start(r) ==
  IF is_continuation(r) THEN req[r].deviceLen ELSE pending[r].cachedLen

\* The first prompt of a step may be split; a later one fits whole or waits.
may_split(r) == is_continuation(r) \/ adder.tokenBudget = MaxExtendTokens

\* _add_one_req: how many prompt tokens this step extends r by.
chunk_size(r) ==
  LET remain == pending[r].inputLen - chunk_start(r)
  IN  IF may_split(r) /\ adder.tokenBudget < remain
        THEN adder.tokenBudget ELSE remain

\* try_add_one returns a Req rather than None.
admissible(r) ==
  /\ adder.tokenBudget > 0
  /\ is_continuation(r) \/ try_allocate_one(r)
  /\ chunk_size(r) <= adder.tokenBudget
  /\ may_split(r) => chunk_size(r) > 0

\* The Req or ChunkedReq that _add_one_req builds for the chunk.
built_req(r) ==
  LET reached == chunk_start(r) + chunk_size(r)
  IN  [kind |-> IF reached < pending[r].inputLen THEN "chunked" ELSE "full",
       cachedLen |-> chunk_start(r),
       deviceLen |-> reached,
       maxDeviceLen |-> reached + pending[r].outputLen,
       aborted |-> FALSE]

admit_one ==
  LET r == pendingList[adder.cursor]
      q == built_req(r)
  IN  /\ stage = "pass"
      /\ adder.cursor <= Len(pendingList)
      /\ admissible(r)
      /\ req' = [req EXCEPT ![r] = q]
      /\ adder' =
           [cursor |-> adder.cursor + 1,
            tokenBudget |-> adder.tokenBudget - chunk_size(r),
            reservedSize |-> IF is_continuation(r) THEN adder.reservedSize
                             ELSE adder.reservedSize + estimated_len(r),
            runningCount |-> IF is_continuation(r) THEN adder.runningCount
                             ELSE adder.runningCount + 1,
            admitted |-> adder.admitted \union {r},
            chunked |-> IF q.kind = "chunked" THEN Append(adder.chunked, r)
                                              ELSE adder.chunked,
            skipped |-> adder.skipped]
      /\ UNCHANGED <<freeSlots, pendingList, runningReqs, pending, stage, batch,
                     kv, outcome, steps, stepBudget, counted>>

\* A fresh prompt that does not fit is passed over; a continuation that does
\* not fit ends the loop.  _undo_allocation leaves the adder as it was.
skip_one ==
  LET r == pendingList[adder.cursor]
      rest == SubSeq(pendingList, adder.cursor, Len(pendingList))
  IN  /\ stage = "pass"
      /\ adder.cursor <= Len(pendingList)
      /\ ~admissible(r)
      /\ adder' =
           [cursor |-> IF is_continuation(r) THEN Len(pendingList) + 1
                                             ELSE adder.cursor + 1,
            tokenBudget |-> adder.tokenBudget,
            reservedSize |-> adder.reservedSize,
            runningCount |-> adder.runningCount,
            admitted |-> adder.admitted,
            chunked |-> adder.chunked,
            skipped |-> IF is_continuation(r) THEN adder.skipped \o rest
                                              ELSE Append(adder.skipped, r)]
      /\ UNCHANGED <<freeSlots, pendingList, runningReqs, pending, req, stage,
                     batch, kv, outcome, steps, stepBudget, counted>>

\* A bug: a split prompt goes behind the ones that were passed over.
requeued_behind == adder.skipped \o adder.chunked

\* The new pending_list: the split prompts, then the ones passed over.
requeued == adder.chunked \o adder.skipped

\* The loop is over and something was admitted: the prefill batch runs.
prefill_batch ==
  /\ stage = "pass"
  /\ adder.cursor > Len(pendingList)
  /\ adder.admitted # {}
  /\ pendingList' = requeued
  /\ batch' = adder.admitted
  /\ stage' = "prefill"
  /\ adder' = IdleAdder
  /\ UNCHANGED <<freeSlots, runningReqs, pending, req, kv, outcome, steps,
                 stepBudget, counted>>

\* Nothing queued, or nothing admitted: DecodeManager.schedule_next_batch.
decode_batch ==
  /\ \/ stage = "idle" /\ pendingList = <<>>
     \/ stage = "pass" /\ adder.cursor > Len(pendingList) /\ adder.admitted = {}
  /\ runningReqs # {}
  /\ batch' = runningReqs
  /\ stage' = "decode"
  /\ adder' = IdleAdder
  /\ UNCHANGED <<freeSlots, pendingList, runningReqs, pending, req, kv, outcome,
                 steps, stepBudget, counted>>

\* Nothing admitted and nothing decoding: schedule() returns None.
idle_step ==
  /\ stage = "pass"
  /\ adder.cursor > Len(pendingList)
  /\ adder.admitted = {}
  /\ runningReqs = {}
  /\ stage' = "idle"
  /\ adder' = IdleAdder
  /\ UNCHANGED <<freeSlots, pendingList, runningReqs, pending, req, batch, kv,
                 outcome, steps, stepBudget, counted>>

(***************************************************************************)
(* Engine.step after schedule(): the forward writes the K/V of the chunk   *)
(* (or of the last sampled token), every request but an unfinished chunk   *)
(* gets one token, and Scheduler.complete promotes, prunes and frees rows. *)
(* eos is the set of requests whose token is an end-of-sequence they obey. *)
(***************************************************************************)
sampled == {r \in batch : req[r].kind = "full"}

\* out_loc of the forward: [cached_len, device_len), or the newest position.
written(r) ==
  IF stage = "prefill" THEN req[r].cachedLen .. (req[r].deviceLen - 1)
                       ELSE {req[r].deviceLen - 1}

\* The bookkeeping of step() for one sampled request.
after_sample(r, eos) ==
  [kind |-> req[r].kind,
   cachedLen |-> IF stage = "prefill" /\ req[r].cachedLen > 0
                   THEN req[r].deviceLen ELSE req[r].cachedLen,
   deviceLen |-> req[r].deviceLen + 1,
   maxDeviceLen |-> req[r].maxDeviceLen,
   aborted |-> (r \in eos \/ req[r].deviceLen + 1 >= req[r].maxDeviceLen)]

\* A bug: a request that finished its prompt is not merged into the decode set.
filter_reqs_no_merge(reqOf) == {r \in runningReqs : can_decode(reqOf[r])}

\* DecodeManager.filter_reqs.
filter_reqs(reqOf) == {r \in runningReqs \union batch : can_decode(reqOf[r])}

\* A bug: only the decode set before and after is compared, so a request that
\* stops in its own prefill step is missed.
freed_count_diff_only(row, reqOf, kept) ==
  Cardinality({r \in runningReqs \ kept : pending[r].tableIdx = row})

\* How often complete() appends a row to the free list: once per request that
\* left the decode set, and once for a stopped request that was never in it.
freed_count(row, reqOf, kept) ==
  LET dropped == {r \in runningReqs \ kept : pending[r].tableIdx = row}
      unseen == {r \in batch : reqOf[r].aborted /\ pending[r].tableIdx = row}
  IN  IF dropped = {} /\ unseen # {} THEN 1 ELSE Cardinality(dropped)

complete(eos) ==
  LET reqOf == [r \in Requests |->
                  IF r \in sampled THEN after_sample(r, eos) ELSE req[r]]
      kept == filter_reqs(reqOf)
  IN  /\ stage \in {"prefill", "decode"}
      /\ req' = reqOf
      /\ kv' = [r \in Requests |->
                  IF r \in batch THEN kv[r] \union written(r) ELSE kv[r]]
      /\ runningReqs' = kept
      /\ freeSlots' = [row \in Rows |->
                         freeSlots[row] + freed_count(row, reqOf, kept)]
      /\ outcome' = [r \in Requests |->
                       IF r \in batch /\ reqOf[r].aborted THEN "done"
                                                          ELSE outcome[r]]
      /\ batch' = {}
      /\ stage' = "idle"
      /\ steps' = steps + 1
      /\ UNCHANGED <<pendingList, pending, adder, stepBudget, counted>>

-----------------------------------------------------------------------------
Add == \E r \in Requests, n \in PromptLens, m \in OutputLens :
         \E c \in 0 .. (n - 1) : add(r, n, c, m)

Abort == \E r \in Requests : abort(r)

Complete == \E eos \in SUBSET sampled : complete(eos)

\* schedule() and complete() as Engine.generate calls them in its loop.
EngineStep ==
  begin_pass \/ admit_one \/ skip_one \/ prefill_batch \/ decode_batch
    \/ idle_step \/ Complete

Next == Add \/ generate \/ Abort \/ EngineStep

Spec == Init /\ [][Next]_vars

\* Engine.generate keeps stepping while requests are admitted, so the step
\* loop is weakly fair.  Clients and their aborts are not.
FairSpec == Spec /\ WF_vars(EngineStep)

-----------------------------------------------------------------------------
(***************************************************************************)
(* Properties.  A definition commented "A bug:" above is a wrong variant   *)
(* of the definition after it; the properties below tell the two apart.    *)
(***************************************************************************)
PendingRecord == [inputLen : Nat, cachedLen : Nat, outputLen : Nat,
                  tableIdx : Rows]

ReqRecord == [kind : {"none", "chunked", "full"}, cachedLen : Nat,
              deviceLen : Nat, maxDeviceLen : Nat, aborted : BOOLEAN]

\* Every variable of the scheduler keeps its type.  reservedSize is a sum over
\* the decode set and is left out.
TypeOK ==
  /\ freeSlots \in [Rows -> Nat]
  /\ pendingList \in Seq(Requests)
  /\ runningReqs \in SUBSET Requests
  /\ pending \in [Requests -> PendingRecord]
  /\ req \in [Requests -> ReqRecord]
  /\ stage \in {"idle", "pass", "prefill", "decode"}
  /\ batch \in SUBSET Requests
  /\ adder.cursor \in Nat \ {0}
  /\ adder.tokenBudget \in Int
  /\ adder.runningCount \in Int
  /\ adder.admitted \in SUBSET Requests
  /\ adder.chunked \in Seq(Requests)
  /\ adder.skipped \in Seq(Requests)
  /\ kv \in [Requests -> SUBSET Int]
  /\ outcome \in [Requests -> {"new", "live", "done", "aborted"}]
  /\ steps \in Nat
  /\ stepBudget \in Nat
  /\ counted \in SUBSET Requests

\* The requests that are somewhere in the scheduler: queued, decoding or in
\* the batch being forwarded.
Live == Range(pendingList) \union runningReqs \union batch

\* Scheduler.add / abort / complete hand page-table rows out and back: a row is
\* on the free list exactly once or belongs to exactly one live request, never
\* both and never neither, and a request is live exactly until it is aborted
\* or stops.
RowOwnership ==
  /\ \A row \in Rows :
       freeSlots[row] + Cardinality({r \in Live : pending[r].tableIdx = row}) = 1
  /\ Live = {r \in Requests : outcome[r] = "live"}

\* PrefillManager keeps at most one split prompt, and keeps it at the head of
\* the queue, so that a step never interleaves two unfinished prompts.
OneContinuation ==
  stage # "pass" =>
    \A i \in 1 .. Len(pendingList) : is_continuation(pendingList[i]) => i = 1

\* Engine.step relies on the scheduler's offsets: when a batch runs, the K/V of
\* every earlier position of each of its requests has been written, whatever
\* way the prompt was cut into chunks, and none is written twice.
HistoryWritten ==
  \A r \in batch :
    kv[r] = IF stage = "prefill" THEN 0 .. (req[r].cachedLen - 1)
                                 ELSE 0 .. (req[r].deviceLen - 2)

\* A prefill batch never extends more than max_extend_tokens prompt tokens,
\* and every request in it extends at least one.
BatchFitsStepBudget ==
  stage = "prefill" =>
    /\ Cardinality(UNION {{r} \X written(r) : r \in batch}) <= MaxExtendTokens
    /\ \A r \in batch : req[r].deviceLen > req[r].cachedLen

\* Engine.generate gives up after ceil(prompt / max_extend_tokens) + max_tokens
\* steps per request that was queued when it was called.  That is enough for all
\* of them, whatever is aborted: no batch is scheduled beyond it, as long as
\* nothing was decoding at the call and nothing is added after it.
StepBudgetSuffices == counted # {} /\ batch # {} => steps < stepBudget

\* A request that is done has emitted at least one token and at most max_tokens
\* (one when max_tokens is 0, as the prefill always samples).
OutputBound ==
  \A r \in Requests :
    outcome[r] = "done" =>
      LET emitted == req[r].deviceLen - pending[r].inputLen
      IN  emitted \in 1 .. Max({1, pending[r].outputLen})

(***************************************************************************)
(* A prompt in chunks is one request: at most one continuation waits, at   *)
(* the head of the queue; a batch finds the K/V of all its history         *)
(* written; batches fit the token budget of a step, and the step budget of *)
(* generate() is enough to finish what it found queued; and no request     *)
(* generates more than it may (PrefillManager, PrefillAdder, generate).    *)
(***************************************************************************)
ChunksAreSound ==
  /\ OneContinuation
  /\ HistoryWritten
  /\ BatchFitsStepBudget
  /\ StepBudgetSuffices
  /\ OutputBound

\* prefill.py's "a continuation already owns a row and must not be starved":
\* whenever the admission loop ends, every split prompt has been given a chunk,
\* whatever else was queued.
ContinuationAdvances ==
  [][stage = "pass" /\ stage' # "pass" =>
       \A r \in Range(pendingList) : is_continuation(r) => r \in batch']_vars

\* A request that fits the pool budget on its own leaves the scheduler: it is
\* neither lost between the queue and the decode set nor starved.
FitsAlone(r) == estimated_len(r) <= CacheBudget

EventuallyFinished ==
  \A r \in Requests :
    (outcome[r] = "live" /\ FitsAlone(r)) ~> (outcome[r] \in {"done", "aborted"})

\* PrefillAdder's docstring: reserved_size is "the token count the decode
\* manager is already holding so a new admission cannot push the step past the
\* pool the decode set is depending on".  The tokens the decoding requests hold
\* or may still write fit the pool budget.
DecodeSetFitsPool ==
  MapThenSumSet(LAMBDA r : req[r].maxDeviceLen - pending[r].cachedLen, runningReqs)
    <= CacheBudget

-----------------------------------------------------------------------------
(***************************************************************************)
(* The inductive invariant behind RowOwnership.                            *)
(***************************************************************************)
Injective(s) == \A i, j \in 1 .. Len(s) : s[i] = s[j] => i = j

\* The queue entries the admission loop has looked at.
Visited == {pendingList[i] : i \in 1 .. (adder.cursor - 1)}

\* Where a request is tells what its Req looks like.
Places ==
  /\ Injective(pendingList)
  /\ Live = {r \in Requests : outcome[r] = "live"}
  /\ Range(pendingList) \cap runningReqs = {}
  /\ \A r \in Requests : outcome[r] = "new" => req[r].kind = "none"
  /\ \A r \in runningReqs : can_decode(req[r])
  /\ \A r \in batch : req[r].kind # "none" /\ ~req[r].aborted
  /\ \A r \in Range(pendingList) :
       req[r].kind = "full" => stage = "pass" /\ r \in adder.admitted
  /\ stage \in {"idle", "pass"} => batch = {}
  /\ stage = "decode" => batch = runningReqs
  /\ stage = "prefill" =>
       /\ batch \cap runningReqs = {}
       /\ \A r \in batch : req[r].kind = "chunked" => r \in Range(pendingList)
       /\ \A r \in batch : req[r].kind = "full" => r \notin Range(pendingList)

\* The admission loop splits the visited entries into admitted and skipped.
Pass ==
  stage = "pass" =>
    /\ adder.cursor <= Len(pendingList) + 1
    /\ adder.admitted \subseteq Visited
    /\ Range(adder.skipped) = Visited \ adder.admitted
    /\ Range(adder.chunked) = {r \in adder.admitted : req[r].kind = "chunked"}
    /\ Injective(adder.skipped)
    /\ Injective(adder.chunked)
    /\ \A r \in adder.admitted : req[r].kind # "none" /\ ~req[r].aborted

\* Rows are on the free list at most once, and exactly those without an owner.
RowsInv ==
  /\ \A row \in Rows : freeSlots[row] \in {0, 1}
  /\ \A row \in Rows :
       freeSlots[row] = 0 => \E r \in Live : pending[r].tableIdx = row
  /\ \A r \in Live : freeSlots[pending[r].tableIdx] = 0
  /\ \A r, s \in Live : pending[r].tableIdx = pending[s].tableIdx => r = s

IInv == TypeOK /\ Places /\ Pass /\ RowsInv
=============================================================================
