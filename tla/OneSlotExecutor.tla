---------------------------- MODULE OneSlotExecutor ----------------------------
(***************************************************************************)
(* What the CPU half's dispatch promises its call sites ("the same         *)
(* backpressure a max_workers=1 executor would apply"): one job at a time  *)
(* is accepted, computed once, and handed back to whoever submitted it     *)
(* before another is accepted.                                             *)
(***************************************************************************)
CONSTANTS Jobs, NoJob

VARIABLES
  current,    \* the accepted job whose result is not collected yet, or NoJob
  computed,   \* jobs computed so far
  collected   \* jobs whose result was handed back

executorVars == <<current, computed, collected>>

Init == current = NoJob /\ computed = {} /\ collected = {}

Accept(j) ==
  /\ current = NoJob
  /\ j \notin computed
  /\ current' = j
  /\ UNCHANGED <<computed, collected>>

Compute ==
  /\ current # NoJob
  /\ current \notin computed
  /\ computed' = computed \union {current}
  /\ UNCHANGED <<current, collected>>

Collect ==
  /\ current # NoJob
  /\ current \in computed
  /\ collected' = collected \union {current}
  /\ current' = NoJob
  /\ UNCHANGED computed

Next == Compute \/ Collect \/ \E j \in Jobs : Accept(j)

Spec == Init /\ [][Next]_executorVars
================================================================================
