---------------------------- MODULE ExpertsProofs -----------------------------
(***************************************************************************)
(* Proofs about the components whose run MCExperts shares: CpuMoeWorker,   *)
(* for any number of threads and of forwards, and BenchProfile, for any    *)
(* cards and formats.                                                      *)
(*                                                                         *)
(* The slot's own invariants (SlotIsMine, ResultIsMine, NoLostJob) are     *)
(* inductive only together: a result is the forward's own because the slot *)
(* still holds its job, which nobody replaces because it is occupied until *)
(* the job's owner has seen it done.                                       *)
(***************************************************************************)
EXTENDS MCExperts, TLAPS

WorkerPcs == {"unborn", "awake", "asleep", "running", "exited"}

CallerRecords == [Callers -> [pc : CallerPcs, forwards : 0..MaxForwards, handle : Nat]]

Typed ==
  /\ slot \in [occupied : BOOLEAN, done : BOOLEAN, handle : Nat, next_handle : Nat,
               job : Jobs \union {NoJob}]
  /\ slot.handle = slot.next_handle
  /\ worker \in [pc : WorkerPcs, local : Jobs \union {NoJob}]
  /\ caller \in CallerRecords
  /\ buffers \in SUBSET Jobs
  /\ filled \in SUBSET Jobs
  /\ raised \in SUBSET Jobs
  /\ shutdown \in BOOLEAN

\* A thread inside a forward has a job.
Begun == \A c \in Callers : caller[c].pc # "idle" => caller[c].forwards # 0

\* A running worker works on the job in the slot.
Working ==
  worker.pc = "running" => slot.occupied /\ ~slot.done /\ worker.local = slot.job

\* done_ tells whether the rows of the slot's job are written.
DoneIsFilled == slot.occupied => slot.job \in Jobs /\ (slot.done <=> slot.job \in filled)

\* What the worker has had of a thread's jobs are those it submitted.
Handed(c) ==
  IF caller[c].pc \in {"submit", "wait_slot"} THEN caller[c].forwards - 1
  ELSE caller[c].forwards
OnlySubmitted ==
  \A c \in Callers : \A n \in 1..MaxForwards :
    \/ <<c, n>> \in filled
    \/ slot.occupied /\ slot.job = <<c, n>>
    => n <= Handed(c)

\* An occupied slot has an owner or its owner has raised, a forward under way has
\* its buffers, and after a raise nobody has the slot again.
Owned ==
  /\ slot.occupied => slot.job \in raised \/ \E c \in Callers : Submitted(c)
  /\ \A c \in Callers : caller[c].pc # "idle" => JobOf(c) \in buffers
  /\ raised # {} => slot.occupied /\ raised = {slot.job} /\ \A c \in Callers : ~Submitted(c)

IInv ==
  /\ Typed
  /\ Begun
  /\ SlotIsMine
  /\ Working
  /\ DoneIsFilled
  /\ OnlySubmitted
  /\ NoLostJob
  /\ ResultIsMine
  /\ Owned

--------------------------------------------------------------------------------
\* The job of a thread inside a forward is a job, and no two threads share one.
LEMMA JobOfIsAJob ==
  ASSUME Typed, Begun, NEW c \in Callers, caller[c].pc # "idle"
  PROVE  JobOf(c) \in Jobs /\ JobOf(c) # NoJob
  <1>1. caller[c].forwards \in 1..MaxForwards
    BY CpuMoeWorkerAssumption DEF Typed, Begun, CallerRecords
  <1>2. c # "none"
    BY CpuMoeWorkerAssumption
  <1> QED
    BY <1>1, <1>2 DEF JobOf, Jobs, NoJob

\* The empty slot's job is nobody's.
LEMMA NoJobIsNone == NoJob \notin Jobs
  BY CpuMoeWorkerAssumption DEF NoJob, Jobs

\* A process that has dispatched nothing satisfies the invariant.
LEMMA InitInv == Init => IInv
  <1> SUFFICES ASSUME Init PROVE IInv
    OBVIOUS
  <1>1. Typed
    <2>1. 0 \in 0..MaxForwards
      BY CpuMoeWorkerAssumption
    <2>2. caller \in CallerRecords
      BY <2>1 DEF Init, CallerRecords, CallerPcs
    <2>3. worker \in [pc : WorkerPcs, local : Jobs \union {NoJob}]
      BY DEF Init, WorkerPcs
    <2> QED
      BY <2>2, <2>3 DEF Init, Typed
  <1>2. Begun /\ SlotIsMine /\ NoLostJob /\ ResultIsMine /\ Owned
    BY DEF Init, Begun, SlotIsMine, NoLostJob, ResultIsMine, Owned, Submitted, Pending
  <1>3. Working /\ DoneIsFilled
    BY DEF Init, Working, DoneIsFilled
  <1>4. OnlySubmitted
    BY DEF Init, OnlySubmitted
  <1> QED
    BY <1>1, <1>2, <1>3, <1>4 DEF IInv

\* A submit moves its own thread, to the notification, with the new handle.
LEMMA SubmittedCaller ==
  ASSUME caller \in CallerRecords, NEW c \in Callers, NEW h \in Nat,
         caller' = [caller EXCEPT ![c].pc = "notify", ![c].handle = h]
  PROVE  /\ caller' \in CallerRecords
         /\ caller'[c].pc = "notify" /\ caller'[c].handle = h
         /\ caller'[c].forwards = caller[c].forwards
         /\ \A d \in Callers \ {c} : caller'[d] = caller[d]
  <1>1. caller'[c] = [caller[c] EXCEPT !.pc = "notify", !.handle = h]
    BY DEF CallerRecords
  <1>2. \A d \in Callers \ {c} : caller'[d] = caller[d]
    BY DEF CallerRecords
  <1>3. caller[c] \in [pc : CallerPcs, forwards : 0..MaxForwards, handle : Nat]
    BY DEF CallerRecords
  <1>4. caller'[c] \in [pc : CallerPcs, forwards : 0..MaxForwards, handle : Nat]
    BY <1>1, <1>3, ZenonT(60) DEF CallerPcs
  <1>5. /\ caller'[c].pc = "notify" /\ caller'[c].handle = h
        /\ caller'[c].forwards = caller[c].forwards
    BY <1>1, <1>3
  <1>6. caller' = [d \in Callers |-> caller'[d]]
    BY DEF CallerRecords
  <1>7. \A d \in Callers : caller'[d] \in [pc : CallerPcs, forwards : 0..MaxForwards, handle : Nat]
    BY <1>2, <1>4 DEF CallerRecords
  <1>8. caller' \in CallerRecords
    BY <1>6, <1>7 DEF CallerRecords
  <1> QED
    BY <1>2, <1>5, <1>8

\* Every step keeps the shape of the state, and a thread in a forward keeps its job.
LEMMA TypedStep ==
  ASSUME Typed, Begun, Working, DoneIsFilled, [Next]_vars
  PROVE  Typed' /\ Begun'
  <1>0. ASSUME NEW c \in Callers, caller[c].pc # "idle" PROVE JobOf(c) \in Jobs
    BY <1>0, JobOfIsAJob
  <1>w. worker.pc = "running" => worker.local \in Jobs
    BY DEF Working, DoneIsFilled
  <1> USE CpuMoeWorkerAssumption DEF Typed, Begun, CallerRecords, CallerPcs, WorkerPcs
  <1>1. ASSUME NEW c \in Callers, prepare(c) PROVE Typed' /\ Begun'
    <2>1. caller[c].forwards + 1 \in 1..MaxForwards
      BY <1>1 DEF prepare
    <2> QED
      BY <1>1, <2>1 DEF prepare, Jobs
  <1>2. ASSUME NEW c \in Callers, submit(c) PROVE Typed' /\ Begun'
    <2>1. JobOf(c) \in Jobs
      BY <1>0, <1>2 DEF submit
    <2> QED
      <3>1. worker' \in [pc : WorkerPcs, local : Jobs \union {NoJob}]
        BY <1>2 DEF submit
      <3>2. UNCHANGED <<buffers, filled, raised, shutdown>>
        BY <1>2 DEF submit
      <3>3. CASE slot.occupied
        BY <1>2, <3>1, <3>2, <3>3 DEF submit, goto
      <3>4. CASE ~slot.occupied
        <4>1. PICK h \in Nat : h = slot.next_handle + 1
          OBVIOUS
        <4>2. slot' = [occupied |-> TRUE, done |-> FALSE, handle |-> h, next_handle |-> h,
                       job |-> JobOf(c)]
          BY <1>2, <3>4, <4>1 DEF submit
        <4>3. slot'.handle = slot'.next_handle /\ slot' \in
                [occupied : BOOLEAN, done : BOOLEAN, handle : Nat, next_handle : Nat,
                 job : Jobs \union {NoJob}]
          BY <4>2, <2>1
        <4>4. caller' = [caller EXCEPT ![c].pc = "notify", ![c].handle = h]
          BY <1>2, <3>4, <4>1 DEF submit
        <4>5. caller[c].pc # "idle"
          BY <1>2 DEF submit
        <4>6. /\ caller' \in CallerRecords
              /\ caller'[c].forwards = caller[c].forwards
              /\ \A d \in Callers \ {c} : caller'[d] = caller[d]
          BY ONLY Typed, <4>4, SubmittedCaller DEF Typed
        <4> QED
          BY <4>3, <4>5, <4>6, <3>1, <3>2
      <3> QED
        BY <3>3, <3>4
  <1>3. ASSUME NEW c \in Callers, notify_job(c) PROVE Typed' /\ Begun'
    BY <1>3 DEF notify_job, NotifyWorker, goto
  <1>4. ASSUME NEW c \in Callers, xpu_half(c) PROVE Typed' /\ Begun'
    BY <1>4 DEF xpu_half, goto
  <1>5. ASSUME NEW c \in Callers, xpu_raises(c) PROVE Typed' /\ Begun'
    <2>1. JobOf(c) \in Jobs
      BY <1>0, <1>5 DEF xpu_raises
    <2>2. raised' \in SUBSET Jobs /\ buffers' \in SUBSET Jobs
      BY <1>5, <2>1 DEF xpu_raises
    <2> QED
      BY <1>5, <2>2 DEF xpu_raises, goto
  <1>6. ASSUME NEW c \in Callers, wait(c) PROVE Typed' /\ Begun'
    <2>1. buffers' \subseteq buffers /\ UNCHANGED <<worker, filled, raised, shutdown>>
      BY <1>6 DEF wait
    <2>2. UNCHANGED slot \/ slot' = [slot EXCEPT !.occupied = FALSE]
      BY <1>6 DEF wait
    <2>3. \E pc \in CallerPcs : goto(c, pc)
      BY <1>6 DEF wait
    <2>4. caller[c].pc # "idle"
      BY <1>6 DEF wait
    <2>5. slot'.handle = slot'.next_handle /\ slot' \in
            [occupied : BOOLEAN, done : BOOLEAN, handle : Nat, next_handle : Nat,
             job : Jobs \union {NoJob}]
      BY <2>2
    <2>6. /\ caller' \in CallerRecords
          /\ \A d \in Callers : caller'[d].forwards = caller[d].forwards
          /\ \A d \in Callers \ {c} : caller'[d].pc = caller[d].pc
      BY <2>3 DEF goto
    <2> QED
      BY <2>1, <2>4, <2>5, <2>6
  <1>7. ASSUME NEW c \in Callers, notify_slot(c) PROVE Typed' /\ Begun'
    BY <1>7 DEF notify_slot, goto
  <1>8. ASSUME NEW c \in Callers, combine(c) PROVE Typed' /\ Begun'
    BY <1>8 DEF combine, goto
  <1>9. CASE work_starts
    BY <1>9 DEF work_starts, Awake, Pending
  <1>10. CASE work_ends
    <2>1. worker.local \in Jobs
      BY <1>10, <1>w DEF work_ends
    <2> QED
      BY <1>10, <2>1, ZenonT(60) DEF work_ends
  <1>11. CASE wakes_spuriously
    BY <1>11 DEF wakes_spuriously, NotifyWorker, goto
  <1>12. CASE quit
    BY <1>12 DEF quit, NotifyWorker
  <1>13. CASE UNCHANGED vars
    BY <1>13 DEF vars
  <1> QED
    BY <1>1, <1>2, <1>3, <1>4, <1>5, <1>6, <1>7, <1>8, <1>9, <1>10, <1>11, <1>12, <1>13
    DEF Next, Step, Work

--------------------------------------------------------------------------------
\* A move of one thread changes that thread's place and nothing else.
LEMMA CallerMoves ==
  ASSUME Typed, NEW c \in Callers, NEW pc \in CallerPcs, goto(c, pc)
  PROVE  /\ caller'[c].pc = pc
         /\ caller'[c].forwards = caller[c].forwards /\ caller'[c].handle = caller[c].handle
         /\ \A d \in Callers \ {c} : caller'[d] = caller[d]
  BY DEF Typed, CallerRecords, goto

\* SlotIsMine, for one thread.
LEMMA HandleIsCurrent ==
  ASSUME Typed, NEW c \in Callers, SlotIsMine, Submitted(c)
  PROVE  slot.occupied /\ slot.handle = caller[c].handle /\ slot.job = JobOf(c)
  BY DEF SlotIsMine

\* Two threads cannot both have a job with the worker.
LEMMA OneSubmitted ==
  ASSUME SlotIsMine, NEW c \in Callers, NEW d \in Callers, Submitted(c), Submitted(d)
  PROVE  c = d
  BY DEF SlotIsMine, JobOf

\* A job that is about to be submitted was never with the worker.
LEMMA SubmittedIsNew ==
  ASSUME Typed, Begun, OnlySubmitted, NEW c \in Callers, caller[c].pc = "submit"
  PROVE  JobOf(c) \notin filled
  <1>1. caller[c].forwards \in 1..MaxForwards
    BY CpuMoeWorkerAssumption DEF Typed, Begun, CallerRecords
  <1>2. Handed(c) = caller[c].forwards - 1
    BY DEF Handed
  <1>3. ~(caller[c].forwards <= caller[c].forwards - 1)
    BY <1>1
  <1> QED
    BY <1>1, <1>2, <1>3 DEF OnlySubmitted, JobOf

Inner ==
  /\ SlotIsMine
  /\ Working
  /\ DoneIsFilled
  /\ OnlySubmitted
  /\ NoLostJob
  /\ ResultIsMine
  /\ Owned

\* A forward that begins changes nothing the worker sees.
LEMMA PrepareInner ==
  ASSUME Typed, Typed', Inner, NEW c \in Callers, prepare(c)
  PROVE  Inner'
  <1>1. /\ caller[c].pc = "idle" /\ caller'[c].pc = "submit"
        /\ caller'[c].forwards = caller[c].forwards + 1
        /\ \A d \in Callers \ {c} : caller'[d] = caller[d]
    BY DEF prepare, Typed, CallerRecords
  <1>2. UNCHANGED <<slot, worker, filled, raised, shutdown>>
    BY DEF prepare
  <1>3. buffers' = buffers \union {<<c, caller[c].forwards + 1>>}
    BY DEF prepare
  <1>4. \A d \in Callers : Submitted(d)' <=> Submitted(d)
    BY <1>1 DEF Submitted
  <1>5. \A d \in Callers : Handed(d)' = Handed(d)
    <2>1. caller[c].forwards \in Nat
      BY CpuMoeWorkerAssumption DEF Typed, CallerRecords
    <2>2. caller'[c].forwards - 1 = caller[c].forwards
      BY <1>1, <2>1
    <2>3. Handed(c) = caller[c].forwards
      BY <1>1 DEF Handed
    <2>4. Handed(c)' = caller'[c].forwards - 1
      BY <1>1 DEF Handed
    <2>5. \A d \in Callers \ {c} : Handed(d)' = Handed(d)
      BY <1>1 DEF Handed
    <2> QED
      BY <2>2, <2>3, <2>4, <2>5
  <1>6. \A d \in Callers \ {c} : JobOf(d)' = JobOf(d)
    BY <1>1 DEF JobOf
  <1>7. JobOf(c)' = <<c, caller[c].forwards + 1>>
    BY <1>1 DEF JobOf
  <1>8. SlotIsMine'
    BY <1>1, <1>2, <1>4, <1>6 DEF Inner, SlotIsMine, Submitted
  <1>9. Working' /\ DoneIsFilled'
    BY <1>2 DEF Inner, Working, DoneIsFilled
  <1>10. OnlySubmitted'
    BY <1>2, <1>5 DEF Inner, OnlySubmitted
  <1>11. NoLostJob'
    BY <1>1, <1>2 DEF Inner, NoLostJob, Pending
  <1>12. ResultIsMine'
    BY <1>1, <1>2, <1>6 DEF Inner, ResultIsMine
  <1>13. Owned'
    BY <1>1, <1>2, <1>3, <1>4, <1>6, <1>7 DEF Inner, Owned
  <1> QED
    BY <1>8, <1>9, <1>10, <1>11, <1>12, <1>13 DEF Inner

\* A submit blocks, or books a free slot for a job the worker has not had.
LEMMA SubmitInner ==
  ASSUME Typed, Typed', Begun, Inner, NEW c \in Callers, submit(c)
  PROVE  Inner'
  <1>1. CASE slot.occupied
    <2>1. goto(c, "wait_slot") /\ caller[c].pc = "submit"
      BY <1>1 DEF submit
    <2>2. /\ caller'[c].pc = "wait_slot" /\ caller'[c].forwards = caller[c].forwards
          /\ \A d \in Callers \ {c} : caller'[d] = caller[d]
      BY <2>1, CallerMoves DEF CallerPcs
    <2>3. UNCHANGED <<slot, buffers, filled, raised, shutdown>>
      BY <1>1 DEF submit
    <2>4. worker' = worker \/ (worker'.pc = "awake" /\ worker.pc = "unborn")
      BY DEF submit, Typed
    <2>5. \A d \in Callers : /\ Submitted(d)' <=> Submitted(d)
                             /\ Handed(d)' = Handed(d)
                             /\ JobOf(d)' = JobOf(d)
      BY <2>1, <2>2 DEF Submitted, Handed, JobOf
    <2>6. SlotIsMine' /\ ResultIsMine' /\ Owned'
      BY <2>1, <2>2, <2>3, <2>5 DEF Inner, SlotIsMine, ResultIsMine, Owned, Submitted
    <2>7. Working' /\ DoneIsFilled' /\ OnlySubmitted'
      BY <2>3, <2>4, <2>5 DEF Inner, Working, DoneIsFilled, OnlySubmitted
    <2>8. NoLostJob'
      BY <2>1, <2>2, <2>3, <2>4 DEF Inner, NoLostJob, Pending
    <2> QED
      BY <2>6, <2>7, <2>8 DEF Inner
  <1>2. CASE ~slot.occupied
    <2>1. PICK h \in Nat : h = slot.next_handle + 1
      BY DEF Typed
    <2>2. slot' = [occupied |-> TRUE, done |-> FALSE, handle |-> h, next_handle |-> h,
                   job |-> JobOf(c)]
      BY <1>2, <2>1 DEF submit
    <2>3. caller[c].pc = "submit"
          /\ caller' = [caller EXCEPT ![c].pc = "notify", ![c].handle = h]
      BY <1>2, <2>1 DEF submit
    <2>4. /\ caller'[c].pc = "notify" /\ caller'[c].handle = h
          /\ caller'[c].forwards = caller[c].forwards
          /\ \A d \in Callers \ {c} : caller'[d] = caller[d]
      BY ONLY Typed, <2>3, SubmittedCaller DEF Typed
    <2>5. UNCHANGED <<buffers, filled, raised, shutdown>>
      BY DEF submit
    <2>6. worker' = worker \/ (worker'.pc = "awake" /\ worker.pc = "unborn")
      BY DEF submit, Typed
    <2>7. \A d \in Callers : JobOf(d)' = JobOf(d)
      BY <2>4 DEF JobOf
    <2>8. \A d \in Callers : ~Submitted(d)
      BY <1>2 DEF Inner, SlotIsMine
    <2>9. \A d \in Callers \ {c} : ~Submitted(d)'
      BY <2>4, <2>8 DEF Submitted
    <2>10. JobOf(c) \in Jobs /\ JobOf(c) \notin filled
      <3>1. JobOf(c) \in Jobs
        BY ONLY Typed, Begun, <2>3, JobOfIsAJob
      <3>2. JobOf(c) \notin filled
        BY <2>3, SubmittedIsNew DEF Inner
      <3> QED
        BY <3>1, <3>2
    <2>11. SlotIsMine'
      BY <2>2, <2>4, <2>7, <2>9 DEF SlotIsMine
    <2>12. Working'
      <3>1. worker.pc # "running"
        BY <1>2 DEF Inner, Working
      <3> QED
        BY <2>6, <3>1 DEF Working
    <2>13. DoneIsFilled'
      BY <2>2, <2>5, <2>10 DEF DoneIsFilled
    <2>14. OnlySubmitted'
      <3> SUFFICES ASSUME NEW d \in Callers, NEW n \in 1..MaxForwards,
                          <<d, n>> \in filled \/ JobOf(c) = <<d, n>>
                   PROVE  n <= Handed(d)'
        BY <2>2, <2>5 DEF OnlySubmitted
      <3>1. caller[d].forwards \in Nat
        BY CpuMoeWorkerAssumption DEF Typed, CallerRecords
      <3>2. CASE JobOf(c) = <<d, n>>
        <4>1. d = c /\ n = caller[c].forwards
          BY <3>2 DEF JobOf
        <4>2. Handed(d)' = caller[c].forwards
          BY <2>4, <4>1 DEF Handed
        <4> QED
          BY <3>1, <4>1, <4>2
      <3>3. CASE <<d, n>> \in filled
        <4>1. n <= Handed(d)
          BY <3>3 DEF Inner, OnlySubmitted
        <4>2. Handed(d) <= Handed(d)' /\ Handed(d) \in Int /\ Handed(d)' \in Int
          <5>1. CASE d = c
            <6>1. Handed(d) = caller[d].forwards - 1
              BY <2>3, <5>1 DEF Handed
            <6>2. Handed(d)' = caller[d].forwards
              BY <2>4, <5>1 DEF Handed
            <6> QED
              BY <3>1, <6>1, <6>2
          <5>2. CASE d # c
            <6>1. Handed(d)' = Handed(d)
              BY <2>4, <5>2 DEF Handed
            <6>2. Handed(d) \in Int
              BY <3>1 DEF Handed
            <6> QED
              BY <6>1, <6>2
          <5> QED
            BY <5>1, <5>2
        <4> QED
          BY <4>1, <4>2
      <3> QED
        BY <3>2, <3>3
    <2>15. NoLostJob'
      BY <2>4 DEF NoLostJob
    <2>16. ResultIsMine'
      BY <2>4, <2>5, <2>7 DEF Inner, ResultIsMine
    <2>17. Owned'
      <3>1. Submitted(c)'
        BY <2>4 DEF Submitted
      <3>2. \A d \in Callers : caller'[d].pc # "idle" => caller[d].pc # "idle"
        BY <2>3, <2>4
      <3> QED
        BY <1>2, <2>5, <2>7, <3>1, <3>2 DEF Inner, Owned
    <2> QED
      BY <2>11, <2>12, <2>13, <2>14, <2>15, <2>16, <2>17 DEF Inner
  <1> QED
    BY <1>1, <1>2

\* A step of one thread that leaves its claims on the slot as they are.
Quiet(c) ==
  /\ caller'[c].forwards = caller[c].forwards /\ caller'[c].handle = caller[c].handle
  /\ \A d \in Callers \ {c} : caller'[d] = caller[d]
  /\ UNCHANGED <<slot, filled, shutdown>>
  /\ worker' = worker \/ (worker'.pc = "awake" /\ worker.pc # "running")
  /\ caller[c].pc = "notify" => worker'.pc # "asleep"
  /\ Submitted(c)' => Submitted(c)
  /\ \/ raised' = raised /\ (Submitted(c) => Submitted(c)')
     \/ raised' = raised \union {JobOf(c)} /\ Submitted(c) /\ ~Submitted(c)'
  /\ caller'[c].pc \in {"free", "combine"} => caller[c].pc \in {"free", "combine"}
  /\ caller'[c].pc \in {"submit", "wait_slot"} <=> caller[c].pc \in {"submit", "wait_slot"}
  /\ \/ caller[c].pc # "idle" /\ buffers' = buffers
     \/ caller'[c].pc = "idle" /\ buffers' = buffers \ {JobOf(c)}

\* A step that leaves the slot alone and submits nothing keeps the invariant.
LEMMA QuietInner ==
  ASSUME Typed, Inner, NEW c \in Callers, Quiet(c)
  PROVE  Inner'
  <1>1. /\ caller'[c].forwards = caller[c].forwards
        /\ caller'[c].handle = caller[c].handle
        /\ \A d \in Callers \ {c} : caller'[d] = caller[d]
    BY DEF Quiet
  <1>q. UNCHANGED <<slot, filled, shutdown>>
    BY DEF Quiet
  <1>2. \A d \in Callers : JobOf(d)' = JobOf(d)
    BY <1>1 DEF JobOf
  <1>3. \A d \in Callers : Submitted(d)' => Submitted(d)
    BY <1>1 DEF Quiet, Submitted
  <1>4. \A d \in Callers : Handed(d)' = Handed(d)
    BY <1>1 DEF Quiet, Handed
  <1>5. SlotIsMine'
    BY <1>1, <1>2, <1>3, <1>q DEF Inner, SlotIsMine
  <1>6. Working' /\ DoneIsFilled' /\ OnlySubmitted'
    BY <1>4 DEF Quiet, Inner, Working, DoneIsFilled, OnlySubmitted
  <1>7. NoLostJob'
    BY <1>1 DEF Quiet, Inner, NoLostJob, Pending
  <1>8. ResultIsMine'
    BY <1>1, <1>2 DEF Quiet, Inner, ResultIsMine
  <1>9. Owned'
    <2>1. ASSUME NEW d \in Callers, caller'[d].pc # "idle" PROVE JobOf(d)' \in buffers'
      <3>1. JobOf(d) \in buffers
        <4>1. caller[d].pc # "idle"
          BY <1>1, <2>1 DEF Quiet
        <4> QED
          BY <4>1 DEF Inner, Owned
      <3>2. d # c => JobOf(d) # JobOf(c)
        BY DEF JobOf
      <3> QED
        BY <1>1, <1>2, <2>1, <3>1, <3>2 DEF Quiet
    <2>2. CASE raised' = raised /\ (Submitted(c) => Submitted(c)')
      <3>1. \A d \in Callers : Submitted(d) => Submitted(d)'
        BY <1>1, <2>2 DEF Submitted
      <3> QED
        BY <1>3, <1>q, <2>1, <2>2, <3>1 DEF Inner, Owned
    <2>3. CASE raised' = raised \union {JobOf(c)} /\ Submitted(c) /\ ~Submitted(c)'
      <3>1. raised = {} /\ slot.occupied /\ slot.job = JobOf(c)
        BY <2>3 DEF Inner, Owned, SlotIsMine
      <3>2. raised' = {slot.job}
        BY <2>3, <3>1
      <3>3. \A d \in Callers : ~Submitted(d)'
        BY <1>3, <2>3, OneSubmitted DEF Inner
      <3> QED
        BY <1>q, <2>1, <3>1, <3>2, <3>3 DEF Owned
    <2> QED
      BY <2>2, <2>3 DEF Quiet
  <1> QED
    BY <1>5, <1>6, <1>7, <1>8, <1>9 DEF Inner

\* A wait blocks, or frees the slot of the finished job that is its own.
LEMMA WaitInner ==
  ASSUME Typed, Typed', Begun, Inner, NEW c \in Callers, wait(c)
  PROVE  Inner'
  <1>1. Submitted(c) /\ caller[c].pc \in {"result", "done_woken"}
    BY DEF wait, Submitted
  <1>2. slot.occupied /\ slot.handle = caller[c].handle /\ slot.job = JobOf(c)
    BY <1>1, HandleIsCurrent DEF Inner
  <1>3. UNCHANGED <<worker, filled, raised, shutdown, buffers>>
    BY <1>2 DEF wait
  <1>4. CASE ~slot.done
    <2>1. goto(c, "wait_done") /\ UNCHANGED slot
      BY <1>2, <1>4 DEF wait
    <2>2. /\ caller'[c].pc = "wait_done" /\ caller'[c].forwards = caller[c].forwards
          /\ caller'[c].handle = caller[c].handle
          /\ \A d \in Callers \ {c} : caller'[d] = caller[d]
      BY <2>1, CallerMoves DEF CallerPcs
    <2>q. Quiet(c)
      BY <1>1, <1>3, <2>1, <2>2 DEF Quiet, Submitted
    <2> QED
      BY <2>q, QuietInner
  <1>5. CASE slot.done
    <2>1. goto(c, "free") /\ slot' = [slot EXCEPT !.occupied = FALSE]
      BY <1>2, <1>5 DEF wait
    <2>2. /\ caller'[c].pc = "free" /\ caller'[c].forwards = caller[c].forwards
          /\ \A d \in Callers \ {c} : caller'[d] = caller[d]
      BY <2>1, CallerMoves DEF CallerPcs
    <2>3. ~slot'.occupied /\ slot'.job = slot.job
      BY <2>1 DEF Typed
    <2>4. \A d \in Callers : JobOf(d)' = JobOf(d) /\ Handed(d)' = Handed(d)
      BY <1>1, <2>2 DEF JobOf, Handed
    <2>5. \A d \in Callers : ~Submitted(d)'
      <3>1. ASSUME NEW d \in Callers, d # c PROVE ~Submitted(d)
        BY <1>1, <3>1, OneSubmitted DEF Inner
      <3> QED
        BY <2>2, <3>1 DEF Submitted
    <2>6. SlotIsMine' /\ NoLostJob' /\ DoneIsFilled'
      BY <2>3, <2>5 DEF SlotIsMine, NoLostJob, Pending, DoneIsFilled
    <2>7. Working'
      BY <1>3, <1>5 DEF Inner, Working
    <2>8. OnlySubmitted'
      BY <1>3, <2>3, <2>4 DEF Inner, OnlySubmitted
    <2>9. ResultIsMine'
      <3>1. JobOf(c) \in filled
        BY <1>2, <1>5 DEF Inner, DoneIsFilled
      <3> QED
        BY <1>3, <2>2, <2>4, <3>1 DEF Inner, ResultIsMine
    <2>10. Owned'
      <3>1. \A d \in Callers : caller'[d].pc # "idle" => caller[d].pc # "idle"
        BY <1>1, <2>2
      <3> QED
        BY <1>1, <1>3, <2>3, <2>4, <3>1 DEF Inner, Owned
    <2> QED
      BY <2>6, <2>7, <2>8, <2>9, <2>10 DEF Inner
  <1>6. slot.done \in BOOLEAN
    BY DEF Typed
  <1> QED
    BY <1>4, <1>5, <1>6

\* Waking a blocked submitter changes no job.
LEMMA NotifySlotInner ==
  ASSUME Typed, Inner, NEW c \in Callers, notify_slot(c)
  PROVE  Inner'
  <1>0. caller[c].pc = "free"
    BY DEF notify_slot
  <1>1. /\ caller'[c].pc = "combine"
        /\ \A d \in Callers : /\ caller'[d].forwards = caller[d].forwards
                              /\ caller'[d].handle = caller[d].handle
        /\ \A d \in Callers \ {c} : \/ caller'[d].pc = caller[d].pc
                                    \/ caller[d].pc = "wait_slot" /\ caller'[d].pc = "submit"
    <2>1. CASE {d \in Callers : caller[d].pc = "wait_slot"} = {}
      <3>1. goto(c, "combine")
        BY <2>1 DEF notify_slot
      <3>2. /\ caller'[c].pc = "combine" /\ caller'[c].forwards = caller[c].forwards
            /\ caller'[c].handle = caller[c].handle
            /\ \A d \in Callers \ {c} : caller'[d] = caller[d]
        BY <3>1, CallerMoves DEF CallerPcs
      <3>3. ASSUME NEW d \in Callers
            PROVE  /\ caller'[d].forwards = caller[d].forwards
                   /\ caller'[d].handle = caller[d].handle
                   /\ d # c => caller'[d].pc = caller[d].pc
        BY <3>2
      <3> QED
        BY <3>2, <3>3
    <2>2. CASE {d \in Callers : caller[d].pc = "wait_slot"} # {}
      <3>1. PICK b \in {d \in Callers : caller[d].pc = "wait_slot"} :
                   caller' = [caller EXCEPT ![c].pc = "combine", ![b].pc = "submit"]
        BY <2>2 DEF notify_slot
      <3>2. b \in Callers /\ caller[b].pc = "wait_slot" /\ b # c
        BY <1>0, <3>1
      <3>3. caller'[c] = [caller[c] EXCEPT !.pc = "combine"]
        BY <3>1, <3>2 DEF Typed, CallerRecords
      <3>4. caller'[b] = [caller[b] EXCEPT !.pc = "submit"]
        BY <3>1, <3>2 DEF Typed, CallerRecords
      <3>5. \A d \in Callers \ {b, c} : caller'[d] = caller[d]
        BY <3>1, <3>2 DEF Typed, CallerRecords
      <3>6. /\ caller'[c].pc = "combine" /\ caller'[c].forwards = caller[c].forwards
            /\ caller'[c].handle = caller[c].handle
        BY <3>3 DEF Typed, CallerRecords
      <3>7. /\ caller'[b].pc = "submit" /\ caller'[b].forwards = caller[b].forwards
            /\ caller'[b].handle = caller[b].handle
        BY <3>2, <3>4 DEF Typed, CallerRecords
      <3>8. ASSUME NEW d \in Callers
            PROVE  /\ caller'[d].forwards = caller[d].forwards
                   /\ caller'[d].handle = caller[d].handle
                   /\ d # c => \/ caller'[d].pc = caller[d].pc
                               \/ caller[d].pc = "wait_slot" /\ caller'[d].pc = "submit"
        <4>1. CASE d \in {b, c}
          BY <3>2, <3>6, <3>7, <4>1
        <4>2. CASE d \notin {b, c}
          BY <3>5, <4>2
        <4> QED
          BY <4>1, <4>2
      <3> QED
        BY <3>6, <3>8
    <2> QED
      BY <2>1, <2>2
  <1>2. UNCHANGED <<slot, worker, buffers, filled, raised, shutdown>>
    BY DEF notify_slot
  <1>3. \A d \in Callers : JobOf(d)' = JobOf(d) /\ Handed(d)' = Handed(d)
    BY <1>0, <1>1 DEF JobOf, Handed
  <1>s. \A d \in Callers : Submitted(d)' <=> Submitted(d)
    BY <1>0, <1>1 DEF Submitted
  <1>4. SlotIsMine' /\ Owned'
    <2>1. \A d \in Callers : caller'[d].pc # "idle" => caller[d].pc # "idle"
      BY <1>0, <1>1
    <2>2. SlotIsMine'
      BY <1>0, <1>1, <1>2, <1>3, <1>s DEF Inner, SlotIsMine, Submitted
    <2>3. Owned'
      BY <1>2, <1>3, <1>s, <2>1 DEF Inner, Owned, Submitted
    <2> QED
      BY <2>2, <2>3
  <1>5. Working' /\ DoneIsFilled' /\ OnlySubmitted'
    BY <1>2, <1>3 DEF Inner, Working, DoneIsFilled, OnlySubmitted
  <1>6. NoLostJob' /\ ResultIsMine'
    BY <1>0, <1>1, <1>2, <1>3 DEF Inner, NoLostJob, Pending, ResultIsMine
  <1> QED
    BY <1>4, <1>5, <1>6 DEF Inner

\* The worker takes up the pending job of the slot, or sleeps when there is none.
LEMMA WorkStartsInner ==
  ASSUME Typed, Inner, work_starts
  PROVE  Inner'
  <1>1. UNCHANGED <<slot, caller, buffers, filled, raised, shutdown>>
    BY DEF work_starts
  <1>2. SlotIsMine' /\ DoneIsFilled' /\ OnlySubmitted' /\ ResultIsMine' /\ Owned'
    BY <1>1 DEF Inner, SlotIsMine, DoneIsFilled, OnlySubmitted, ResultIsMine, Owned, Submitted,
                Handed, JobOf
  <1>3. Working' /\ NoLostJob'
    <2>1. CASE Pending
      <3>1. worker' = [pc |-> "running", local |-> slot.job]
        BY <2>1 DEF work_starts, Awake
      <3> QED
        BY <1>1, <2>1, <3>1 DEF Working, NoLostJob, Pending
    <2>2. CASE ~Pending
      <3>1. worker'.pc \in {"exited", "asleep"}
        BY <2>2 DEF work_starts, Awake, Typed
      <3> QED
        BY <1>1, <2>2, <3>1 DEF Working, NoLostJob, Pending
    <2> QED
      BY <2>1, <2>2
  <1> QED
    BY <1>2, <1>3 DEF Inner

\* The worker finishes the job that is still in the slot.
LEMMA WorkEndsInner ==
  ASSUME Typed, Inner, work_ends
  PROVE  Inner'
  <1>1. /\ slot.occupied /\ ~slot.done /\ worker.local = slot.job
        /\ slot.job \in Jobs /\ slot.job \notin filled
    BY DEF work_ends, Inner, Working, DoneIsFilled
  <1>2. /\ slot'.occupied = slot.occupied /\ slot'.done = TRUE
        /\ slot'.handle = slot.handle /\ slot'.job = slot.job
    BY DEF work_ends, Typed
  <1>3. filled' = filled \union {slot.job} /\ buffers' = buffers
    BY <1>1 DEF work_ends
  <1>4. worker'.pc \in {"exited", "asleep"}
    BY DEF work_ends, Typed
  <1>5. \A d \in Callers :
          /\ caller'[d].forwards = caller[d].forwards
          /\ caller'[d].handle = caller[d].handle
          /\ \/ caller'[d].pc = caller[d].pc
             \/ caller[d].pc = "wait_done" /\ caller'[d].pc = "done_woken"
    BY DEF work_ends, Typed, CallerRecords
  <1>6. \A d \in Callers : JobOf(d)' = JobOf(d) /\ Handed(d)' = Handed(d)
    BY <1>5 DEF JobOf, Handed
  <1>s. \A d \in Callers : Submitted(d)' <=> Submitted(d)
    BY <1>5 DEF Submitted
  <1>7. SlotIsMine' /\ Owned'
    <2>1. \A d \in Callers : caller'[d].pc # "idle" => caller[d].pc # "idle"
      BY <1>5
    <2>2. SlotIsMine'
      BY <1>2, <1>5, <1>6, <1>s DEF Inner, SlotIsMine, Submitted
    <2>3. Owned'
      <3>1. raised' = raised
        BY DEF work_ends
      <3>2. slot'.occupied => slot'.job \in raised' \/ \E d \in Callers : Submitted(d)'
        BY <1>2, <1>s, <3>1 DEF Inner, Owned
      <3>3. \A d \in Callers : caller'[d].pc # "idle" => JobOf(d)' \in buffers'
        BY <1>3, <1>6, <2>1 DEF Inner, Owned
      <3>4. raised' # {} => slot'.occupied /\ raised' = {slot'.job} /\ \A d \in Callers : ~Submitted(d)'
        BY <1>2, <1>s, <3>1 DEF Inner, Owned
      <3> QED
        BY <3>2, <3>3, <3>4 DEF Owned
    <2> QED
      BY <2>2, <2>3
  <1>8. Working' /\ NoLostJob'
    BY <1>2, <1>4 DEF Working, NoLostJob, Pending
  <1>9. DoneIsFilled' /\ OnlySubmitted'
    BY <1>1, <1>2, <1>3, <1>6 DEF Inner, DoneIsFilled, OnlySubmitted
  <1>10. ResultIsMine'
    BY <1>3, <1>5, <1>6 DEF Inner, ResultIsMine
  <1> QED
    BY <1>7, <1>8, <1>9, <1>10 DEF Inner

\* A step of the worker alone that does not take up a job.
LEMMA IdleWorkerInner ==
  ASSUME Inner, UNCHANGED <<slot, caller, buffers, filled, raised>>,
         worker' = worker \/ worker'.pc = "awake"
  PROVE  Inner'
  <1>1. SlotIsMine' /\ DoneIsFilled' /\ OnlySubmitted' /\ ResultIsMine' /\ Owned'
    BY DEF Inner, SlotIsMine, DoneIsFilled, OnlySubmitted, ResultIsMine, Owned, Submitted,
           Handed, JobOf
  <1>2. Working' /\ NoLostJob'
    BY DEF Inner, Working, NoLostJob, Pending
  <1> QED
    BY <1>1, <1>2 DEF Inner

\* Every step keeps the worker's invariants.
LEMMA InnerStep ==
  ASSUME Typed, Begun, Inner, Typed', [Next]_vars
  PROVE  Inner'
  <1>0. NotifyWorker = worker \/ (NotifyWorker.pc = "awake" /\ worker.pc = "asleep")
    BY DEF NotifyWorker, Typed
  <1>1. ASSUME NEW c \in Callers, prepare(c) PROVE Inner'
    BY <1>1, PrepareInner
  <1>2. ASSUME NEW c \in Callers, submit(c) PROVE Inner'
    BY <1>2, SubmitInner
  <1>3. ASSUME NEW c \in Callers, notify_job(c) PROVE Inner'
    <2>1. /\ caller[c].pc = "notify" /\ goto(c, "xpu")
          /\ UNCHANGED <<slot, buffers, filled, raised, shutdown>>
          /\ worker' = NotifyWorker
      BY <1>3 DEF notify_job
    <2>2. worker'.pc # "asleep"
      BY <2>1 DEF NotifyWorker, Typed
    <2>3. /\ caller'[c].pc = "xpu" /\ caller'[c].forwards = caller[c].forwards
          /\ caller'[c].handle = caller[c].handle
          /\ \A d \in Callers \ {c} : caller'[d] = caller[d]
      BY <2>1, CallerMoves DEF CallerPcs
    <2>q. Quiet(c)
      BY <1>0, <2>1, <2>2, <2>3 DEF Quiet, Submitted
    <2> QED
      BY <2>q, QuietInner
  <1>4. ASSUME NEW c \in Callers, xpu_half(c) PROVE Inner'
    <2>1. /\ caller[c].pc = "xpu" /\ goto(c, "result")
          /\ UNCHANGED <<slot, worker, buffers, filled, raised, shutdown>>
      BY <1>4 DEF xpu_half
    <2>2. /\ caller'[c].pc = "result" /\ caller'[c].forwards = caller[c].forwards
          /\ caller'[c].handle = caller[c].handle
          /\ \A d \in Callers \ {c} : caller'[d] = caller[d]
      BY <2>1, CallerMoves DEF CallerPcs
    <2>q. Quiet(c)
      BY <2>1, <2>2 DEF Quiet, Submitted
    <2> QED
      BY <2>q, QuietInner
  <1>5. ASSUME NEW c \in Callers, xpu_raises(c) PROVE Inner'
    <2>1. /\ caller[c].pc = "xpu" /\ goto(c, "idle")
          /\ UNCHANGED <<slot, worker, filled, shutdown>>
          /\ buffers' = buffers \ {JobOf(c)}
          /\ raised' = raised \union {JobOf(c)}
      BY <1>5 DEF xpu_raises
    <2>2. /\ caller'[c].pc = "idle" /\ caller'[c].forwards = caller[c].forwards
          /\ caller'[c].handle = caller[c].handle
          /\ \A d \in Callers \ {c} : caller'[d] = caller[d]
      BY <2>1, CallerMoves DEF CallerPcs
    <2>q. Quiet(c)
      BY <2>1, <2>2 DEF Quiet, Submitted
    <2> QED
      BY <2>q, QuietInner
  <1>6. ASSUME NEW c \in Callers, wait(c) PROVE Inner'
    BY <1>6, WaitInner
  <1>7. ASSUME NEW c \in Callers, notify_slot(c) PROVE Inner'
    BY <1>7, NotifySlotInner
  <1>8. ASSUME NEW c \in Callers, combine(c) PROVE Inner'
    <2>1. /\ caller[c].pc = "combine" /\ goto(c, "idle")
          /\ UNCHANGED <<slot, worker, filled, raised, shutdown>>
          /\ buffers' = buffers \ {JobOf(c)}
      BY <1>8 DEF combine
    <2>2. /\ caller'[c].pc = "idle" /\ caller'[c].forwards = caller[c].forwards
          /\ caller'[c].handle = caller[c].handle
          /\ \A d \in Callers \ {c} : caller'[d] = caller[d]
      BY <2>1, CallerMoves DEF CallerPcs
    <2>q. Quiet(c)
      BY <2>1, <2>2 DEF Quiet, Submitted
    <2> QED
      BY <2>q, QuietInner
  <1>9. CASE work_starts
    BY <1>9, WorkStartsInner
  <1>10. CASE work_ends
    BY <1>10, WorkEndsInner
  <1>11. CASE wakes_spuriously
    <2>1. CASE /\ worker.pc = "asleep" /\ worker' = NotifyWorker
               /\ UNCHANGED <<slot, caller, buffers, filled, raised, shutdown>>
      BY <1>0, <2>1, IdleWorkerInner
    <2>2. ASSUME NEW c \in Callers, caller[c].pc = "wait_slot", goto(c, "submit"),
                 UNCHANGED <<slot, worker, buffers, filled, raised, shutdown>>
          PROVE  Inner'
      <3>1. /\ caller'[c].pc = "submit" /\ caller'[c].forwards = caller[c].forwards
            /\ caller'[c].handle = caller[c].handle
            /\ \A d \in Callers \ {c} : caller'[d] = caller[d]
        BY <2>2, CallerMoves DEF CallerPcs
      <3>q. Quiet(c)
        BY <2>2, <3>1 DEF Quiet, Submitted
      <3> QED
        BY <3>q, QuietInner
    <2>3. ASSUME NEW c \in Callers, caller[c].pc = "wait_done", goto(c, "done_woken"),
                 UNCHANGED <<slot, worker, buffers, filled, raised, shutdown>>
          PROVE  Inner'
      <3>1. /\ caller'[c].pc = "done_woken" /\ caller'[c].forwards = caller[c].forwards
            /\ caller'[c].handle = caller[c].handle
            /\ \A d \in Callers \ {c} : caller'[d] = caller[d]
        BY <2>3, CallerMoves DEF CallerPcs
      <3>q. Quiet(c)
        BY <2>3, <3>1 DEF Quiet, Submitted
      <3> QED
        BY <3>q, QuietInner
    <2> QED
      BY <1>11, <2>1, <2>2, <2>3 DEF wakes_spuriously
  <1>12. CASE quit
    BY <1>0, <1>12, IdleWorkerInner DEF quit
  <1>13. CASE UNCHANGED vars
    BY <1>13, IdleWorkerInner DEF vars
  <1> QED
    BY <1>1, <1>2, <1>3, <1>4, <1>5, <1>6, <1>7, <1>8, <1>9, <1>10, <1>11, <1>12, <1>13
    DEF Next, Step, Work

\* The invariant is inductive: it holds in every reachable state.
LEMMA Inductive == Spec => []IInv
  <1>1. IInv /\ [Next]_vars => IInv'
    <2> SUFFICES ASSUME IInv, [Next]_vars PROVE IInv'
      OBVIOUS
    <2>1. Typed' /\ Begun'
      BY TypedStep DEF IInv
    <2>2. Inner
      BY DEF IInv, Inner
    <2>3. Inner'
      BY <2>1, <2>2, InnerStep DEF IInv
    <2> QED
      BY <2>1, <2>3 DEF IInv, Inner
  <1> QED
    BY InitInv, <1>1, PTL DEF Spec

\* Every variable of the dispatch keeps its type, and the slot's handle is the
\* last one given out.
THEOREM TypeCorrect == Spec => []TypeOK
  <1>1. IInv => TypeOK
    BY DEF IInv, Typed, TypeOK, WorkerPcs, CallerRecords
  <1> QED
    BY <1>1, Inductive, PTL

\* While a forward has a job with the worker the slot holds that job, under that
\* forward's handle: submit never double-books it.
THEOREM SlotAlwaysMine == Spec => []SlotIsMine
  <1>1. IInv => SlotIsMine
    BY DEF IInv
  <1> QED
    BY <1>1, Inductive, PTL

\* What wait returns to a forward is the finished result of its own job.
THEOREM ResultAlwaysMine == Spec => []ResultIsMine
  <1>1. IInv => ResultIsMine
    BY DEF IInv
  <1> QED
    BY <1>1, Inductive, PTL

\* The worker never sleeps on a pending job without a notification on its way,
\* although submit notifies after it has unlocked.
THEOREM NoJobIsLost == Spec => []NoLostJob
  <1>1. IInv => NoLostJob
    BY DEF IInv
  <1> QED
    BY <1>1, Inductive, PTL

\* The worker reads and writes only buffers that a forward still holds, but for
\* those of a job whose forward was left by an exception of its XPU half.
THEOREM BuffersStayAlive == Spec => []BuffersKept
  <1>1. IInv => BuffersKept
    <2> SUFFICES ASSUME IInv, worker.pc = "running", worker.local \notin raised
                 PROVE  worker.local \in buffers
      BY DEF BuffersKept
    <2>1. slot.occupied /\ worker.local = slot.job
      BY DEF IInv, Working
    <2>2. PICK c \in Callers : Submitted(c)
      BY <2>1 DEF IInv, Owned
    <2>3. slot.job = JobOf(c) /\ JobOf(c) \in buffers
      BY <2>2 DEF IInv, SlotIsMine, Owned, Submitted
    <2> QED
      BY <2>1, <2>3
  <1> QED
    BY <1>1, Inductive, PTL

--------------------------------------------------------------------------------
\* The abstract executor's view of the slot: the job it is busy with, and the
\* jobs whose results it has handed back.
Current == IF slot.occupied THEN slot.job ELSE NoJob
Collected == {j \in filled : j # slot.job \/ ~slot.occupied}

\* A step that leaves the slot and the results alone is a stutter of the executor.
LEMMA Stutters ==
  ASSUME UNCHANGED <<slot, filled>>
  PROVE  UNCHANGED <<Current, filled, Collected>>
  BY DEF Current, Collected

\* A submit into the free slot is the executor accepting a new job.
LEMMA SubmitAccepts ==
  ASSUME IInv, NEW c \in Callers, submit(c), ~slot.occupied
  PROVE  Executor!Next
  <1>1. caller[c].pc = "submit" /\ slot'.occupied /\ slot'.job = JobOf(c) /\ filled' = filled
    BY DEF submit
  <1>2. JobOf(c) \in Jobs /\ JobOf(c) \notin filled
    BY <1>1, JobOfIsAJob, SubmittedIsNew DEF IInv
  <1>3. Current = NoJob /\ Current' = JobOf(c)
    BY <1>1 DEF Current
  <1>4. Collected = filled /\ Collected' = filled
    BY <1>1, <1>2 DEF Collected
  <1>5. Executor!Accept(JobOf(c))
    BY <1>1, <1>2, <1>3, <1>4 DEF Executor!Accept, Current, Collected
  <1> QED
    BY <1>2, <1>5 DEF Executor!Next

\* A wait that finds its job done is the executor handing the result back.
LEMMA WaitCollects ==
  ASSUME IInv, NEW c \in Callers, wait(c)
  PROVE  UNCHANGED <<slot, filled>> \/ Executor!Next
  <1>1. Submitted(c) /\ caller[c].pc \in {"result", "done_woken"} /\ filled' = filled
    BY DEF wait, Submitted
  <1>2. slot.occupied /\ slot.handle = caller[c].handle /\ slot.job = JobOf(c)
    BY <1>1, HandleIsCurrent DEF IInv
  <1>3. CASE ~slot.done
    BY <1>1, <1>2, <1>3 DEF wait
  <1>4. CASE slot.done
    <2>1. slot' = [slot EXCEPT !.occupied = FALSE]
      BY <1>2, <1>4 DEF wait
    <2>2. ~slot'.occupied /\ slot'.job = slot.job
      BY <2>1 DEF IInv, Typed
    <2>3. slot.job \in filled /\ slot.job \in Jobs
      BY <1>2, <1>4 DEF IInv, DoneIsFilled
    <2>4. Current = slot.job /\ Current # NoJob /\ Current' = NoJob
      BY <1>2, <2>2, <2>3, NoJobIsNone DEF Current
    <2>5. Collected' = filled /\ Collected \union {slot.job} = filled
      BY <1>1, <1>2, <2>2, <2>3 DEF Collected
    <2>6. Executor!Collect
      BY <1>1, <2>3, <2>4, <2>5 DEF Executor!Collect, Current, Collected
    <2> QED
      BY <2>6 DEF Executor!Next
  <1> QED
    BY <1>3, <1>4

\* The end of the worker's run is the executor computing its job.
LEMMA WorkComputes ==
  ASSUME IInv, work_ends
  PROVE  Executor!Next
  <1>1. /\ slot.occupied /\ worker.local = slot.job
        /\ slot.job \in Jobs /\ slot.job \notin filled
    BY DEF work_ends, IInv, Working, DoneIsFilled
  <1>2. slot'.occupied /\ slot'.job = slot.job /\ filled' = filled \union {slot.job}
    BY <1>1 DEF work_ends, IInv, Typed
  <1>3. Current = slot.job /\ Current # NoJob /\ Current' = Current
    BY <1>1, <1>2, NoJobIsNone DEF Current
  <1>4. Collected' = Collected
    BY <1>1, <1>2 DEF Collected
  <1>5. Executor!Compute
    BY <1>1, <1>2, <1>3, <1>4 DEF Executor!Compute, Current, Collected
  <1> QED
    BY <1>5 DEF Executor!Next

\* Every step of the dispatch is a step of the executor, or one it does not see.
LEMMA StepsImplement ==
  ASSUME IInv, [Next]_vars
  PROVE  UNCHANGED <<Current, filled, Collected>> \/ Executor!Next
  <1>1. ASSUME NEW c \in Callers, submit(c)
        PROVE  UNCHANGED <<slot, filled>> \/ Executor!Next
    <2>1. CASE slot.occupied
      BY <1>1, <2>1 DEF submit
    <2>2. CASE ~slot.occupied
      BY <1>1, <2>2, SubmitAccepts
    <2> QED
      BY <2>1, <2>2
  <1>2. ASSUME NEW c \in Callers, wait(c)
        PROVE  UNCHANGED <<slot, filled>> \/ Executor!Next
    BY <1>2, WaitCollects
  <1>3. ASSUME work_ends PROVE Executor!Next
    BY <1>3, WorkComputes
  <1>4. ASSUME NEW c \in Callers,
               \/ prepare(c) \/ notify_job(c) \/ xpu_half(c)
               \/ xpu_raises(c) \/ notify_slot(c) \/ combine(c)
        PROVE  UNCHANGED <<slot, filled>>
    BY <1>4 DEF prepare, notify_job, xpu_half, xpu_raises, notify_slot, combine
  <1>5. ASSUME work_starts \/ wakes_spuriously \/ quit \/ UNCHANGED vars
        PROVE  UNCHANGED <<slot, filled>>
    BY <1>5 DEF work_starts, wakes_spuriously, quit, vars
  <1>6. UNCHANGED <<slot, filled>> \/ Executor!Next
    BY <1>1, <1>2, <1>3, <1>4, <1>5 DEF Next, Step, Work
  <1> QED
    BY <1>6, Stutters

\* The dispatch with its lock, its three condition variables and its spurious
\* wakeups is a one-slot executor, for any number of threads.
THEOREM DispatchImplementsExecutor == Spec => ImplementsExecutor
  <1>1. Init => Executor!Init
    BY DEF Init, Executor!Init
  <1>2. IInv /\ [Next]_vars => [Executor!Next]_(Executor!executorVars)
    BY StepsImplement DEF Executor!executorVars, Current, Collected
  <1> QED
    BY <1>1, <1>2, Inductive, PTL DEF Spec, Executor!Spec, ImplementsExecutor

--------------------------------------------------------------------------------
\* A profile that was written to its end holds what one bench measured, its
\* verdict and the fraction that belongs to it, or nothing.
Overlapped(e) == e.cpu_ov > 0 /\ e.pcie_ov > 0
Measured(e) ==
  /\ {e.cpu, e.pcie, e.cpu_ov, e.pcie_ov} \subseteq Nat
  /\ e.fraction \in 0 .. 100
  /\ e.recommended \in {"hybrid", "offload", "none"}
  /\ e # Bench!NoEntry => e.recommended # "none"
  /\ e.recommended = "hybrid" =>
       /\ e.pcie > 0 /\ e.cpu > Bench!Threshold * e.pcie
       /\ e.fraction = IF Overlapped(e) THEN (100 * e.pcie_ov) \div (e.pcie_ov + e.cpu_ov)
                       ELSE (100 * e.pcie) \div (e.pcie + e.cpu)
Sound(prof) ==
  /\ prof.state \in {"absent", "torn", "whole"}
  /\ prof.state = "whole" => Measured(prof.entry) /\ prof.fmt \in BenchDtypes \union {"bf16"}

BenchTyped ==
  /\ bench_env \in BenchEnvs
  /\ bench_card \in Boxes
  /\ bench_disk = [p \in DOMAIN bench_disk |-> bench_disk[p]]
  /\ DOMAIN bench_disk = Bench!Paths
  /\ \A p \in Bench!Paths : Sound(bench_disk[p])
  /\ bench_bench.on \in BOOLEAN
  /\ Sound(bench_last.profile)

\* The file of the last bench is its profile, unless a later one tore it.
LastIsOnDisk ==
  LET l == bench_last IN
  l.profile.state = "whole" =>
    /\ l.path \in Bench!Paths
    /\ bench_disk[l.path].state # "absent"
    /\ bench_disk[l.path].state = "whole" => bench_disk[l.path] = l.profile

\* What a server runs with follows from the profile that it read.
ServerFollows ==
  LET s == bench_server IN
  IF s.up
  THEN /\ Sound(s.read)
       /\ s.read.state = "whole" => s.read.xpu = s.card.name
       /\ s.backend = IF Bench!HasEntry(s.read, s.fmt) THEN s.read.entry.recommended ELSE "offload"
       /\ IF s.backend # "hybrid" THEN s.fraction = 0
          ELSE IF Overlapped(s.read.entry) THEN s.fraction = s.read.entry.fraction
          ELSE s.fraction \in s.read.entry.fraction .. 50
  ELSE s.fraction = 0

BenchInv ==
  /\ BenchTyped
  /\ bench_bench.on =>
       /\ bench_bench.path \in Bench!Paths
       /\ bench_bench.profile.state = "whole" /\ Sound(bench_bench.profile)
  /\ LastIsOnDisk
  /\ ServerFollows
  /\ Bench!BenchIsConsulted

--------------------------------------------------------------------------------
\* A verdict is one of two, and hybrid only for a CPU that is fast enough.
LEMMA Verdicts ==
  \A pcie, cpu : /\ Bench!_recommend(pcie, cpu) \in {"hybrid", "offload"}
                 /\ Bench!_recommend(pcie, cpu) = "hybrid" =>
                      pcie > 0 /\ cpu > Bench!Threshold * pcie
  BY DEF Bench!_recommend

\* A part of a whole in percent.
LEMMA Percent ==
  \A x, y \in Nat \ {0} : (100 * x) \div (x + y) \in 0 .. 100
  <1> SUFFICES ASSUME NEW x \in Nat \ {0}, NEW y \in Nat \ {0}
               PROVE  (100 * x) \div (x + y) \in 0 .. 100
    OBVIOUS
  <1> DEFINE a == 100 * x
             b == x + y
  <1>1. a \in Nat /\ b \in Nat \ {0} /\ a <= 100 * b
    OBVIOUS
  <1> HIDE DEF a, b
  <1>2. a \div b \in Int /\ a = b * (a \div b) + (a % b) /\ a % b \in 0 .. b - 1
    BY <1>1
  <1> QED
    BY <1>1, <1>2 DEF a, b

\* The reader's quotient of a standalone pair with a verdict of hybrid lies
\* between the writer's and a half.
LEMMA Quotients ==
  ASSUME NEW x \in Nat \ {0}, NEW y \in Nat, y > 2 * x
  PROVE  /\ (100 * x) \div y \in (100 * x) \div (x + y) .. 50
         /\ (100 * x) \div (x + y) \in 0 .. 100
         /\ (100 * x) \div y \in 0 .. 50
  <1> DEFINE a == 100 * x
             b == x + y
             q == a \div y
             r == a \div b
  <1>1. a \in Nat /\ b \in Nat \ {0} /\ y \in Nat \ {0} /\ y <= b /\ a < 50 * y
    OBVIOUS
  <1> HIDE DEF a, b
  <1>2. q \in Int /\ a = y * q + (a % y) /\ a % y \in 0 .. y - 1
    BY <1>1
  <1>3. r \in Int /\ a = b * r + (a % b) /\ a % b \in 0 .. b - 1
    BY <1>1
  <1> HIDE DEF q, r
  <1>4. q < 50 /\ q >= 0
    BY <1>1, <1>2
  <1>5. r >= 0
    BY <1>1, <1>3
  <1>6. r <= q
    <2> SUFFICES ASSUME r >= q + 1 PROVE FALSE
      BY <1>2, <1>3
    <2>1. b * r >= y * r
      BY <1>1, <1>3, <1>5
    <2>2. y * r >= y * (q + 1)
      BY <1>1, <1>2, <1>3
    <2>3. y * (q + 1) = y * q + y
      BY <1>1, <1>2
    <2> QED
      BY <1>1, <1>2, <1>3, <2>1, <2>2, <2>3
  <1> QED
    BY <1>2, <1>3, <1>4, <1>5, <1>6 DEF a, b, q, r

\* What a bench measures of the card in the box, whatever gives a number.
LEMMA BenchMeasures ==
  ASSUME bench_card \in Boxes, NEW got
  PROVE  Measured(Bench!_bench_format(got))
  <1>1. bench_card.cpu \in Nat \ {0} /\ bench_card.pcie \in Nat \ {0}
    BY ExpertsAssumption DEF ExpertsAssumption, Bench!BenchProfileAssumption
  <1> DEFINE o == Bench!Overlap(got)
             c == Bench!Gbs(got, "cpu")
             p == Bench!Gbs(got, "pcie")
             f == Bench!_fetch_fraction(o, o, p, c)
  <1>2. o \in Nat
    <2>1. PICK m \in {bench_card.cpu, bench_card.pcie} :
            \A y \in {bench_card.cpu, bench_card.pcie} : m <= y
      BY <1>1
    <2> QED
      BY <1>1, <2>1 DEF Bench!Overlap, Bench!Min
  <1>3. c \in Nat /\ p \in Nat
    BY <1>1 DEF Bench!Gbs
  <1> HIDE DEF o, c, p
  <1>4. f \in 0 .. 100
    <2>1. CASE o > 0
      <3>1. f = (100 * o) \div (o + o)
        BY <1>2, <2>1 DEF Bench!_fetch_fraction
      <3> QED
        BY <1>2, <2>1, <3>1, Percent
    <2>2. CASE o = 0 /\ p > 0 /\ c > 0
      <3>1. f = (100 * p) \div (p + c)
        BY <2>2 DEF Bench!_fetch_fraction
      <3> QED
        BY <1>3, <2>2, <3>1, Percent
    <2>3. CASE o = 0 /\ ~(p > 0 /\ c > 0)
      BY <2>3 DEF Bench!_fetch_fraction
    <2> QED
      BY <1>2, <2>1, <2>2, <2>3
  <1>5. p > 0 /\ c > 0 => f = IF o > 0 THEN (100 * o) \div (o + o) ELSE (100 * p) \div (p + c)
    BY DEF Bench!_fetch_fraction
  <1> HIDE DEF f
  <1>6. CASE got \intersect {"cpu", "pcie"} = {}
    BY <1>6 DEF Measured, Bench!_bench_format, Bench!NoEntry
  <1>7. CASE got \intersect {"cpu", "pcie"} # {}
    <2> DEFINE e == Bench!_bench_format(got)
    <2>1. /\ e.cpu = c /\ e.pcie = p /\ e.cpu_ov = o /\ e.pcie_ov = o
          /\ e.recommended = Bench!_recommend(p, c) /\ e.fraction = f
      BY <1>7 DEF Bench!_bench_format, o, c, p, f
    <2> HIDE DEF e
    <2>2. p > 0 /\ c > Bench!Threshold * p => c > 0
      BY <1>3 DEF Bench!Threshold
    <2> QED
      BY <1>2, <1>3, <1>4, <1>5, <2>1, <2>2, Verdicts DEF Measured, Overlapped, e
  <1> QED
    BY <1>6, <1>7

\* No bench was run and no server started at first.
LEMMA BenchInitInv == Bench!Init => BenchInv
  <1> SUFFICES ASSUME Bench!Init PROVE BenchInv
    OBVIOUS
  <1>1. Sound(Bench!NoProfile) /\ Bench!NoProfile.state = "absent"
    BY DEF Sound, Bench!NoProfile
  <1>2. Bench!NoBench.on = FALSE /\ Bench!NoBench.profile = Bench!NoProfile
    BY DEF Bench!NoBench
  <1>3. bench_server.up = FALSE /\ bench_server.fraction = 0
    BY DEF Bench!Init
  <1> QED
    BY <1>1, <1>2, <1>3 DEF Bench!Init, BenchInv, BenchTyped, LastIsOnDisk, ServerFollows, Bench!BenchIsConsulted

\* A bench measures, and opens the file.
LEMMA MeasuresInv ==
  ASSUME BenchInv, NEW dtype \in BenchDtypes, NEW model \in BenchModels,
         NEW out \in BenchOuts[bench_env], NEW got \in SomeMeasurements,
         Bench!bench_measures(dtype, model, out, got)
  PROVE  BenchInv'
  <1> DEFINE path == IF out THEN <<"env", 0>> ELSE Bench!default_profile_path(bench_card.uuid)
             torn == [Bench!NoProfile EXCEPT !.state = "torn"]
  <1>1. path \in Bench!Paths
    BY DEF Bench!Paths, Bench!default_profile_path, BenchInv, BenchTyped
  <1>2. torn.state = "torn" /\ Sound(torn)
    BY DEF Bench!NoProfile, Sound
  <1>3. bench_disk' = [bench_disk EXCEPT ![path] = torn]
    BY DEF Bench!bench_measures
  <1>4. /\ bench_bench'.on = TRUE /\ bench_bench'.path = path /\ bench_bench'.dtype = dtype
        /\ bench_bench'.profile.state = "whole" /\ bench_bench'.profile.entry = Bench!_bench_format(got)
        /\ bench_bench'.profile.fmt \in BenchDtypes \union {"bf16"}
    BY DEF Bench!bench_measures, Bench!_model_shapes
  <1> HIDE DEF path, torn
  <1>5. (bench_bench.path \in Bench!Paths)'
    BY <1>1, <1>4 DEF Bench!Paths
  <1>6. Sound(bench_bench.profile)'
    BY <1>4, BenchMeasures DEF Sound, BenchInv, BenchTyped, Measured
  <1>7. /\ UNCHANGED <<bench_env, bench_card, bench_last, bench_server>>
    BY DEF Bench!bench_measures
  <1>8. /\ DOMAIN bench_disk' = DOMAIN bench_disk /\ bench_disk' = [p \in DOMAIN bench_disk' |-> bench_disk'[p]]
        /\ \A p \in Bench!Paths : bench_disk'[p] = bench_disk[p] \/ bench_disk'[p] = torn
    BY <1>3 DEF BenchInv, BenchTyped
  <1>9. BenchTyped'
    <2>1. \A p \in Bench!Paths : Sound(bench_disk'[p])
      BY <1>2, <1>8, SMTT(20) DEF BenchInv, BenchTyped
    <2>2. Sound(bench_last.profile)' /\ \A p \in Bench!Paths : Sound(bench_disk[p])'
      BY <1>7, <2>1 DEF BenchInv, BenchTyped, Sound, Measured
    <2> QED
      BY <1>4, <1>7, <1>8, <2>2 DEF BenchInv, BenchTyped
  <1>10. LastIsOnDisk'
    BY <1>2, <1>7, <1>8 DEF BenchInv, LastIsOnDisk
  <1>11. ServerFollows' /\ Bench!BenchIsConsulted'
    BY <1>7 DEF BenchInv, ServerFollows, Sound, Measured, Bench!HasEntry, Bench!BenchIsConsulted, Bench!LastIsMine
  <1> QED
    BY <1>4, <1>5, <1>6, <1>9, <1>10, <1>11 DEF BenchInv

\* A bench ends.
LEMMA WritesInv ==
  ASSUME BenchInv, Bench!bench_writes
  PROVE  BenchInv'
  <1>1. /\ bench_disk' = [bench_disk EXCEPT ![bench_bench.path] = bench_bench.profile]
        /\ bench_last' = bench_bench /\ bench_bench' = Bench!NoBench
        /\ UNCHANGED <<bench_env, bench_card, bench_server>>
    BY DEF Bench!bench_writes
  <1>2. /\ bench_bench.path \in Bench!Paths /\ bench_bench.profile.state = "whole" /\ Sound(bench_bench.profile)
    BY DEF BenchInv, Bench!bench_writes
  <1>3. Bench!NoBench.on = FALSE
    BY DEF Bench!NoBench
  <1>4. /\ DOMAIN bench_disk' = DOMAIN bench_disk /\ bench_disk' = [p \in DOMAIN bench_disk' |-> bench_disk'[p]]
        /\ bench_disk'[bench_bench.path] = bench_bench.profile
        /\ \A p \in Bench!Paths : bench_disk'[p] = bench_disk[p] \/ bench_disk'[p] = bench_bench.profile
    BY <1>1, <1>2, Zenon DEF BenchInv, BenchTyped
  <1>5. BenchTyped'
    <2>1. \A p \in Bench!Paths : Sound(bench_disk'[p])
      BY <1>2, <1>4 DEF BenchInv, BenchTyped
    <2> QED
      BY <1>1, <1>2, <1>3, <1>4, <2>1 DEF BenchInv, BenchTyped
  <1>6. LastIsOnDisk'
    BY <1>1, <1>2, <1>4, SMTT(20) DEF LastIsOnDisk
  <1>7. ServerFollows' /\ Bench!BenchIsConsulted'
    BY <1>1 DEF BenchInv, ServerFollows, Sound, Measured, Bench!HasEntry, Bench!BenchIsConsulted, Bench!LastIsMine
  <1> QED
    BY <1>1, <1>3, <1>5, <1>6, <1>7 DEF BenchInv

\* A server starts.
LEMMA ServeInv ==
  ASSUME BenchInv, NEW quant \in BenchFormats, Bench!serve(quant)
  PROVE  BenchInv'
  <1> DEFINE read == Bench!usable_profile
             backend == Bench!load_backend_recommendation(quant)
  <1>1. /\ bench_server'.up = TRUE /\ bench_server'.fmt = quant /\ bench_server'.card = bench_card
        /\ bench_server'.read = read /\ bench_server'.last = bench_last
        /\ bench_server'.backend = backend
        /\ bench_server'.fraction =
             IF backend = "hybrid" THEN Bench!load_hybrid_fetch_fraction(quant) ELSE 0
        /\ UNCHANGED <<bench_env, bench_card, bench_disk, bench_bench, bench_last, bench_benches>>
    BY DEF Bench!serve
  <1>2. Sound(Bench!found)
    <2>1. Bench!default_profile_path(bench_card.uuid) \in Bench!Paths
          /\ <<"env", 0>> \in Bench!Paths /\ <<"legacy", 0>> \in Bench!Paths
      BY DEF Bench!Paths, Bench!default_profile_path, BenchInv, BenchTyped
    <2> QED
      BY <2>1 DEF Bench!found, BenchInv, BenchTyped
  <1>3. /\ Sound(read)
        /\ read.state = "whole" => read = Bench!found /\ read.xpu = bench_card.name
    <2>1. Sound(Bench!NoProfile) /\ Bench!NoProfile.state = "absent"
      BY DEF Sound, Bench!NoProfile
    <2> QED
      BY <1>2, <2>1 DEF Bench!usable_profile
  <1>4. backend = IF Bench!HasEntry(read, quant) THEN read.entry.recommended ELSE "offload"
    BY DEF Bench!load_backend_recommendation
  <1> HIDE DEF read, backend
  <1>5. backend = "hybrid" =>
          IF Overlapped(read.entry)
          THEN Bench!load_hybrid_fetch_fraction(quant) = read.entry.fraction
          ELSE Bench!load_hybrid_fetch_fraction(quant) \in read.entry.fraction .. 50
    <2> SUFFICES ASSUME backend = "hybrid"
                 PROVE  IF Overlapped(read.entry)
                        THEN Bench!load_hybrid_fetch_fraction(quant) = read.entry.fraction
                        ELSE Bench!load_hybrid_fetch_fraction(quant) \in read.entry.fraction .. 50
      OBVIOUS
    <2>1. Bench!HasEntry(read, quant)
      BY <1>4
    <2>2. Measured(read.entry) /\ read.entry.recommended = "hybrid"
      BY <1>3, <1>4, <2>1 DEF Sound, Bench!HasEntry
    <2> DEFINE x == read.entry.pcie
               y == read.entry.cpu
    <2>3. x \in Nat \ {0} /\ y \in Nat /\ y > 2 * x
      BY <2>2 DEF Measured, Bench!Threshold
    <2>4. CASE Overlapped(read.entry)
      BY <2>1, <2>2, <2>4 DEF Bench!load_hybrid_fetch_fraction, Measured, Overlapped, read
    <2>5. CASE ~Overlapped(read.entry)
      <3>1. Bench!load_hybrid_fetch_fraction(quant) = Bench!Min({100, (100 * x) \div y})
        BY <2>1, <2>3, <2>5 DEF Bench!load_hybrid_fetch_fraction, Overlapped, read
      <3>2. read.entry.fraction = (100 * x) \div (x + y)
        BY <2>2, <2>5 DEF Measured
      <3> HIDE DEF x, y
      <3> DEFINE v == (100 * x) \div y
      <3>3. v \in (100 * x) \div (x + y) .. 50 /\ v \in 0 .. 50
        BY <2>3, Quotients
      <3> HIDE DEF v
      <3>4. Bench!Min({100, v}) = v
        BY <3>3 DEF Bench!Min
      <3> QED
        BY <2>5, <3>1, <3>2, <3>3, <3>4 DEF v
    <2> QED
      BY <2>4, <2>5
  <1>6. ServerFollows'
    BY <1>1, <1>3, <1>4, <1>5 DEF ServerFollows, Sound, Measured, Bench!HasEntry
  <1>7. Bench!BenchIsConsulted'
    <2> SUFFICES ASSUME Bench!LastIsMine', read.state = "whole"
                 PROVE  backend = IF Bench!HasEntry(bench_last.profile, quant)
                                  THEN bench_last.profile.entry.recommended ELSE "offload"
      BY <1>1 DEF Bench!BenchIsConsulted, Bench!HasEntry
    <2>1. /\ bench_last.profile.state = "whole"
          /\ bench_last.path = IF bench_env THEN <<"env", 0>>
                               ELSE Bench!default_profile_path(bench_card.uuid)
      BY <1>1 DEF Bench!LastIsMine
    <2>2. bench_disk[bench_last.path].state # "absent"
      BY <2>1 DEF BenchInv, LastIsOnDisk
    <2>3. Bench!found = bench_disk[bench_last.path]
      BY <2>1, <2>2 DEF Bench!found
    <2>4. read = bench_last.profile
      BY <1>3, <2>1, <2>3 DEF BenchInv, LastIsOnDisk
    <2> QED
      BY <1>4, <2>4
  <1>8. BenchTyped' /\ LastIsOnDisk'
    BY <1>1 DEF BenchInv, BenchTyped, LastIsOnDisk
  <1> QED
    BY <1>1, <1>6, <1>7, <1>8 DEF BenchInv

\* Every step keeps the invariant; a bench that dies leaves the file torn.
LEMMA BenchStepInv == BenchInv /\ Bench!Next => BenchInv'
  <1> SUFFICES ASSUME BenchInv, Bench!Next PROVE BenchInv'
    OBVIOUS
  <1>1. CASE Bench!bench_dies
    <2>1. /\ bench_bench' = Bench!NoBench /\ Bench!NoBench.on = FALSE
          /\ UNCHANGED <<bench_env, bench_card, bench_disk, bench_last, bench_server>>
      BY <1>1 DEF Bench!bench_dies, Bench!NoBench
    <2>2. BenchTyped' /\ LastIsOnDisk'
      BY <2>1 DEF BenchInv, BenchTyped, LastIsOnDisk
    <2>3. ServerFollows' /\ Bench!BenchIsConsulted'
      BY <2>1 DEF BenchInv, ServerFollows, Sound, Measured, Bench!HasEntry, Bench!BenchIsConsulted, Bench!LastIsMine
    <2> QED
      BY <2>1, <2>2, <2>3 DEF BenchInv
  <1>2. ASSUME NEW c \in Boxes, Bench!swap(c) PROVE BenchInv'
    <2>1. /\ bench_card' = c
          /\ UNCHANGED <<bench_env, bench_disk, bench_bench, bench_last, bench_server>>
      BY <1>2 DEF Bench!swap
    <2>2. BenchTyped' /\ LastIsOnDisk'
      BY <2>1 DEF BenchInv, BenchTyped, LastIsOnDisk
    <2>3. ServerFollows' /\ Bench!BenchIsConsulted'
      BY <2>1 DEF BenchInv, ServerFollows, Sound, Measured, Bench!HasEntry, Bench!BenchIsConsulted, Bench!LastIsMine
    <2> QED
      BY <2>1, <2>2, <2>3 DEF BenchInv
  <1> QED
    BY <1>1, <1>2, MeasuresInv, WritesInv, ServeInv DEF Bench!Next

\* Every state of a suite that benches satisfies the invariant.
LEMMA BenchInvariant == SuiteSpec => []BenchInv
  <1>1. SuiteInit => BenchInv
    BY BenchInitInv DEF SuiteInit
  <1>2. BenchInv /\ [SuiteNext]_allVars => BenchInv'
    <2> SUFFICES ASSUME BenchInv, [SuiteNext]_allVars PROVE BenchInv'
      OBVIOUS
    <2>1. CASE StepBenchProfile
      BY <2>1, BenchStepInv DEF StepBenchProfile
    <2>2. CASE UNCHANGED benchProfileVars
      <3>1. BenchTyped' /\ LastIsOnDisk'
        BY <2>2 DEF benchProfileVars, BenchInv, BenchTyped, LastIsOnDisk
      <3>2. ServerFollows' /\ Bench!BenchIsConsulted'
        BY <2>2 DEF benchProfileVars, BenchInv, ServerFollows, Sound, Measured, Bench!HasEntry,
            Bench!BenchIsConsulted, Bench!LastIsMine
      <3> QED
        BY <2>2, <3>1, <3>2 DEF benchProfileVars, BenchInv
    <2> QED
      BY <2>1, <2>2 DEF SuiteNext, StepCpuMoeWorker, StepRaising, StepMoeDispatch, StepExpertRouter,
          Stops, allVars
  <1> QED
    BY <1>1, <1>2, PTL DEF SuiteSpec

(***************************************************************************)
(* Any cards, formats, exchanges and benches, those that die or give no    *)
(* number included: a server is hybrid only by a whole measurement of a    *)
(* card of its name, under the key its format is looked up by, that says   *)
(* so; the last bench decides; and the fraction is the writer's, or lies   *)
(* between it and a half where the overlapped pair is missing              *)
(* (moe/benchbw.py, moe/bench_profile.py).                                 *)
(***************************************************************************)
THEOREM HybridIsAlwaysMeasured == SuiteSpec => []HybridIsMeasured
  <1>1. BenchInv => HybridIsMeasured
    <2> SUFFICES ASSUME BenchInv PROVE HybridIsMeasured
      OBVIOUS
    <2>1. Bench!TypeOK
      <3>1. \A p \in Bench!Paths :
              /\ bench_disk[p].state \in {"absent", "torn", "whole"}
              /\ bench_disk[p].state = "whole" =>
                   /\ bench_disk[p].entry.recommended \in {"hybrid", "offload", "none"}
                   /\ bench_disk[p].entry.fraction \in 0 .. 100
        BY Verdicts DEF BenchInv, BenchTyped, Sound, Measured
      <3>2. /\ bench_server.up => bench_server.backend \in {"hybrid", "offload"}
            /\ bench_server.fraction \in 0 .. 100
        <4> DEFINE e == bench_server.read.entry
        <4>1. CASE ~bench_server.up \/ bench_server.backend # "hybrid"
          BY <4>1 DEF BenchInv, ServerFollows, Sound, Measured, Bench!HasEntry
        <4>2. CASE bench_server.up /\ bench_server.backend = "hybrid"
          <5>1. Bench!HasEntry(bench_server.read, bench_server.fmt)
            BY <4>2 DEF BenchInv, ServerFollows
          <5>2. e.fraction \in 0 .. 100
            BY <4>2, <5>1 DEF BenchInv, ServerFollows, Sound, Measured, Bench!HasEntry
          <5>3. bench_server.fraction = e.fraction \/ bench_server.fraction \in e.fraction .. 50
            BY <4>2 DEF BenchInv, ServerFollows
          <5> HIDE DEF e
          <5> QED
            BY <4>2, <5>2, <5>3
        <4> QED
          BY <4>1, <4>2
      <3> QED
        BY <3>1, <3>2 DEF Bench!TypeOK, BenchInv, BenchTyped
    <2>2. Bench!HybridIsMeasured
      BY DEF Bench!HybridIsMeasured, BenchInv, ServerFollows, Sound, Measured, Bench!HasEntry
    <2>3. Bench!FractionIsWrittenIfOverlapped
      BY DEF Bench!FractionIsWrittenIfOverlapped, BenchInv, ServerFollows, Overlapped
    <2>4. Bench!Mxfp4NeedsItsKey
      BY DEF Bench!Mxfp4NeedsItsKey, Bench!HasEntry, Bench!bench_format, BenchInv, ServerFollows, Sound
    <2> QED
      BY <2>1, <2>2, <2>3, <2>4 DEF HybridIsMeasured, BenchInv
  <1> QED
    BY <1>1, BenchInvariant, PTL
================================================================================
