----------------------------- MODULE CpuMoeWorker ------------------------------
(***************************************************************************)
(* The native worker of the hybrid MoE split (class AsyncWorker of         *)
(* kernel/csrc/cpu_moe/cpu_moe.cpp, CpuMoeJob and cpu_moe_submit of        *)
(* kernel/cpu_moe.py, and _forward_hybrid of qwen3_moe and qwen3_5_moe).   *)
(*                                                                         *)
(* A forward hands its CPU half to one persistent thread, runs its XPU     *)
(* half, then waits for the result.  The worker holds one job.  A section  *)
(* under mu_ is one step; a notification that is sent after the unlock is  *)
(* a step of its own, and a thread blocked on a condition variable moves   *)
(* only when it is notified or wakes spuriously.                           *)
(***************************************************************************)
EXTENDS Integers

CONSTANTS
  Callers,       \* threads that run a model's forward
  MaxForwards,   \* bound on the forwards of each of them
  XpuMayRaise    \* may the XPU half raise, as copy_missing and ensure_experts may?

ASSUME CpuMoeWorkerAssumption ==
  /\ MaxForwards \in Nat
  /\ XpuMayRaise \in BOOLEAN
  /\ "none" \notin Callers

VARIABLES
  slot,      \* occupied_, done_, handle_, next_handle_ and whose job_ it is
  worker,    \* the native thread and its local copy of the job
  caller,    \* what each calling thread is doing, its job and its handle
  buffers,   \* jobs whose buffers are still referenced
  filled,    \* jobs whose out buffer has been written
  raised,    \* jobs whose forward was left by an exception of its XPU half
  shutdown   \* shutdown_

vars == <<slot, worker, caller, buffers, filled, raised, shutdown>>

NoJob == <<"none", 0>>
Jobs == Callers \X (1..MaxForwards)

Init ==
  /\ slot = [occupied |-> FALSE, done |-> FALSE, handle |-> 0, next_handle |-> 0, job |-> NoJob]
  /\ worker = [pc |-> "unborn", local |-> NoJob]
  /\ caller = [c \in Callers |-> [pc |-> "idle", forwards |-> 0, handle |-> 0]]
  /\ buffers = {}
  /\ filled = {}
  /\ raised = {}
  /\ shutdown = FALSE

goto(c, pc) == caller' = [caller EXCEPT ![c].pc = pc]
JobOf(c) == <<c, caller[c].forwards>>
Pending == slot.occupied /\ ~slot.done

\* A thread that is blocked on cv_job_ is woken; one that is not is unaffected.
NotifyWorker == IF worker.pc = "asleep" THEN [worker EXCEPT !.pc = "awake"] ELSE worker

--------------------------------------------------------------------------------
\* _forward_hybrid, cpu_moe_submit: copy the inputs to the host.
prepare(c) ==
  /\ caller[c].pc = "idle"
  /\ ~shutdown
  /\ caller[c].forwards < MaxForwards
  /\ caller' = [caller EXCEPT ![c].pc = "submit", ![c].forwards = @ + 1]
  /\ buffers' = buffers \union {<<c, caller[c].forwards + 1>>}
  /\ UNCHANGED <<slot, worker, filled, raised, shutdown>>

\* A bug: the slot is not waited for.
submitSlip(c) ==
  /\ caller[c].pc = "submit"
  /\ slot' = [occupied |-> TRUE, done |-> FALSE, handle |-> slot.next_handle + 1,
              next_handle |-> slot.next_handle + 1, job |-> JobOf(c)]
  /\ caller' = [caller EXCEPT ![c].pc = "notify", ![c].handle = slot.next_handle + 1]
  /\ worker' = IF worker.pc = "unborn" THEN [worker EXCEPT !.pc = "awake"] ELSE worker
  /\ UNCHANGED <<buffers, filled, raised, shutdown>>

\* AsyncWorker::submit up to the unlock.  The first call makes the worker.
submit(c) ==
  /\ caller[c].pc = "submit"
  /\ worker' = IF worker.pc = "unborn" THEN [worker EXCEPT !.pc = "awake"] ELSE worker
  /\ IF slot.occupied
     THEN goto(c, "wait_slot") /\ UNCHANGED slot
     ELSE /\ slot' = [occupied |-> TRUE, done |-> FALSE, handle |-> slot.next_handle + 1,
                      next_handle |-> slot.next_handle + 1, job |-> JobOf(c)]
          /\ caller' = [caller EXCEPT ![c].pc = "notify", ![c].handle = slot.next_handle + 1]
  /\ UNCHANGED <<buffers, filled, raised, shutdown>>

\* A bug: the worker is not told.
notify_jobSlip(c) ==
  /\ caller[c].pc = "notify"
  /\ goto(c, "xpu")
  /\ UNCHANGED <<slot, worker, buffers, filled, raised, shutdown>>

\* cv_job_.notify_one, after the unlock.
notify_job(c) ==
  /\ caller[c].pc = "notify"
  /\ worker' = NotifyWorker
  /\ goto(c, "xpu")
  /\ UNCHANGED <<slot, buffers, filled, raised, shutdown>>

\* _forward_offload with the CPU experts excluded.
xpu_half(c) ==
  /\ caller[c].pc = "xpu"
  /\ goto(c, "result")
  /\ UNCHANGED <<slot, worker, buffers, filled, raised, shutdown>>

\* It raises: the frame goes, the CpuMoeJob with it, and nobody waits.
xpu_raises(c) ==
  /\ XpuMayRaise
  /\ caller[c].pc = "xpu"
  /\ goto(c, "idle")
  /\ buffers' = buffers \ {JobOf(c)}
  /\ raised' = raised \union {JobOf(c)}
  /\ UNCHANGED <<slot, worker, filled, shutdown>>

\* A bug: whatever is there is collected.
waitSlip(c) ==
  /\ caller[c].pc \in {"result", "done_woken"}
  /\ slot' = [slot EXCEPT !.occupied = FALSE]
  /\ goto(c, "free")
  /\ UNCHANGED <<worker, buffers, filled, raised, shutdown>>

\* CpuMoeJob.result, AsyncWorker::wait: an unknown handle is refused (rc -100
\* raises); a thread that has been waiting tests only the predicate.
wait(c) ==
  /\ caller[c].pc \in {"result", "done_woken"}
  /\ LET mine == slot.handle = caller[c].handle IN
       IF caller[c].pc = "result" /\ ~(slot.occupied /\ mine)
       THEN /\ goto(c, "idle")
            /\ buffers' = buffers \ {JobOf(c)}
            /\ UNCHANGED slot
       ELSE /\ IF slot.done /\ mine
               THEN slot' = [slot EXCEPT !.occupied = FALSE] /\ goto(c, "free")
               ELSE goto(c, "wait_done") /\ UNCHANGED slot
            /\ UNCHANGED buffers
  /\ UNCHANGED <<worker, filled, raised, shutdown>>

\* A bug: nobody is told.
notify_slotSlip(c) ==
  /\ caller[c].pc = "free"
  /\ goto(c, "combine")
  /\ UNCHANGED <<slot, worker, buffers, filled, raised, shutdown>>

\* cv_slot_free_.notify_one: some submitter blocked on it, if there is one.
notify_slot(c) ==
  /\ caller[c].pc = "free"
  /\ LET blocked == {d \in Callers : caller[d].pc = "wait_slot"} IN
       IF blocked = {} THEN goto(c, "combine")
       ELSE \E d \in blocked :
              caller' = [caller EXCEPT ![c].pc = "combine", ![d].pc = "submit"]
  /\ UNCHANGED <<slot, worker, buffers, filled, raised, shutdown>>

\* The CPU rows are added to the XPU rows; the job goes out of scope.
combine(c) ==
  /\ caller[c].pc = "combine"
  /\ goto(c, "idle")
  /\ buffers' = buffers \ {JobOf(c)}
  /\ UNCHANGED <<slot, worker, filled, raised, shutdown>>

--------------------------------------------------------------------------------
\* The predicate of cv_job_, and what follows when it holds.
Awake ==
  IF Pending THEN [pc |-> "running", local |-> slot.job]
  ELSE [worker EXCEPT !.pc = IF shutdown THEN "exited" ELSE "asleep"]

work_starts ==
  /\ worker.pc = "awake"
  /\ worker' = Awake
  /\ UNCHANGED <<slot, caller, buffers, filled, raised, shutdown>>

\* A bug: done_ is set before the rows are written.
work_endsSlip ==
  /\ worker.pc = "running"
  /\ slot' = [slot EXCEPT !.done = TRUE]
  /\ caller' = [c \in Callers |-> IF caller[c].pc = "wait_done"
                                  THEN [caller[c] EXCEPT !.pc = "done_woken"] ELSE caller[c]]
  /\ worker' = [worker EXCEPT !.pc = IF shutdown THEN "exited" ELSE "asleep"]
  /\ UNCHANGED <<buffers, filled, raised, shutdown>>

\* run_job has written the rows; under the lock again, done_ is set, every
\* thread blocked on cv_done_ is woken, and the predicate is tested at once.
work_ends ==
  /\ worker.pc = "running"
  /\ filled' = filled \union {worker.local}
  /\ slot' = [slot EXCEPT !.done = TRUE]
  /\ caller' = [c \in Callers |-> IF caller[c].pc = "wait_done"
                                  THEN [caller[c] EXCEPT !.pc = "done_woken"] ELSE caller[c]]
  /\ worker' = [worker EXCEPT !.pc = IF shutdown THEN "exited" ELSE "asleep"]
  /\ UNCHANGED <<buffers, raised, shutdown>>

\* A condition variable may return for no reason.
wakes_spuriously ==
  \/ /\ worker.pc = "asleep"
     /\ worker' = NotifyWorker
     /\ UNCHANGED <<slot, caller, buffers, filled, raised, shutdown>>
  \/ \E c \in Callers :
       /\ caller[c].pc \in {"wait_slot", "wait_done"}
       /\ goto(c, IF caller[c].pc = "wait_slot" THEN "submit" ELSE "done_woken")
       /\ UNCHANGED <<slot, worker, buffers, filled, raised, shutdown>>

\* ~AsyncWorker at exit, once the Python threads are gone.
quit ==
  /\ ~shutdown
  /\ \A c \in Callers : caller[c].pc = "idle"
  /\ shutdown' = TRUE
  /\ worker' = NotifyWorker
  /\ UNCHANGED <<slot, caller, buffers, filled, raised>>

Step(c) ==
  \/ submit(c) \/ notify_job(c) \/ xpu_half(c) \/ xpu_raises(c) \/ wait(c)
  \/ notify_slot(c) \/ combine(c)

Work == work_starts \/ work_ends

Next ==
  \/ \E c \in Callers : prepare(c) \/ Step(c)
  \/ Work
  \/ wakes_spuriously
  \/ quit

Spec == Init /\ [][Next]_vars

\* Threads that can move do; new forwards, spurious wakeups and an exit are not owed.
FairSpec == Spec /\ WF_vars(Work) /\ \A c \in Callers : WF_vars(Step(c))

--------------------------------------------------------------------------------
CallerPcs == {"idle", "submit", "wait_slot", "notify", "xpu", "result", "wait_done",
              "done_woken", "free", "combine"}

\* The shape of the state; the slot's handle is the last one given out.
TypeOK ==
  /\ slot.occupied \in BOOLEAN /\ slot.done \in BOOLEAN
  /\ slot.next_handle \in Nat
  /\ slot.handle = slot.next_handle
  /\ slot.job \in Jobs \union {NoJob}
  /\ worker.pc \in {"unborn", "awake", "asleep", "running", "exited"}
  /\ worker.local \in Jobs \union {NoJob}
  /\ \A c \in Callers : caller[c].pc \in CallerPcs /\ caller[c].forwards \in 0..MaxForwards
  /\ buffers \subseteq Jobs /\ filled \subseteq Jobs /\ raised \subseteq Jobs
  /\ shutdown \in BOOLEAN

Submitted(c) == caller[c].pc \in {"notify", "xpu", "result", "wait_done", "done_woken"}

\* "the slot can never be silently double-booked or a result dropped": while a
\* forward has a job with the worker, the slot holds that job.
SlotIsMine ==
  \A c \in Callers : Submitted(c) =>
    /\ slot.occupied
    /\ slot.handle = caller[c].handle
    /\ slot.job = JobOf(c)

\* The rows a forward adds to its output are the finished rows of its own job.
ResultIsMine ==
  \A c \in Callers : caller[c].pc \in {"free", "combine"} => JobOf(c) \in filled

\* "The caller must keep every buffer passed here alive until the matching
\* freetoken_cpu_moe_wait() call returns."
BuffersAlive == worker.pc = "running" => worker.local \in buffers

\* What the callers keep of it, whether or not their XPU halves raise: the worker
\* runs on freed buffers only where the forward of that very job has raised.
BuffersKept == worker.pc = "running" => worker.local \in buffers \/ worker.local \in raised

\* What a raise costs: nobody collects its job, so the slot is occupied by it for
\* good, and no forward has a job with the worker any more.
RaiseKeepsTheSlot ==
  raised # {} => slot.occupied /\ raised = {slot.job} /\ \A c \in Callers : ~Submitted(c)

\* No wakeup is lost: a worker that sleeps on a pending job is about to be told.
NoLostJob ==
  worker.pc = "asleep" /\ Pending => \E c \in Callers : caller[c].pc = "notify"

\* A job is computed once: the worker never takes up a finished one.
ComputedOnce == [][worker'.pc = "running" /\ worker.pc # "running" =>
                     worker'.local \notin filled]_vars

\* Every forward that has begun ends, however many threads share the worker.
ForwardsEnd == \A c \in Callers : caller[c].pc # "idle" ~> caller[c].pc = "idle"

\* What of it is true where an XPU half raises: until one has.
ForwardsEndUntilARaise ==
  \A c \in Callers : caller[c].pc # "idle" ~> caller[c].pc = "idle" \/ raised # {}

\* The process can exit: the destructor's join returns.
WorkerJoins == shutdown ~> worker.pc \in {"unborn", "exited"}

\* The dispatch is a one-slot executor.
Executor == INSTANCE OneSlotExecutor WITH
  current <- IF slot.occupied THEN slot.job ELSE NoJob,
  computed <- filled,
  collected <- {j \in filled : j # slot.job \/ ~slot.occupied}

ImplementsExecutor == Executor!Spec
================================================================================
