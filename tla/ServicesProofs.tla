--------------------------- MODULE ServicesProofs ---------------------------
(***************************************************************************)
(* Proofs about components whose runs MCServices and MCStartup share: the  *)
(* daemon and its child, the HTTP server with its lazy engine, the cache   *)
(* of compiled kernels and the loader of models.  Each is one component of *)
(* the shared run, so its invariant speaks of that component's variables   *)
(* alone and the steps of the others are stutters.                         *)
(***************************************************************************)
EXTENDS MCServices, MCStartup, FiniteSetTheorems, TLAPS

Routes == {"none", "begin", "spawn", "terminate", "kill", "report", "answered"}
Told == {"none", "waiting", "ok", "error", "unreachable"}

DaemonTyped ==
  /\ daemon_lock \in DaemonCalls \union {"nobody"}
  /\ daemon_children \in Seq(BOOLEAN)
  /\ daemon_proc \in 0 .. Len(daemon_children)
  /\ daemon_call \in [DaemonCalls ->
       [kind : Supervisor!Kinds, route : Routes, client : Told,
        target : 0 .. Len(daemon_children), report : 0 .. Len(daemon_children)]]
  /\ daemon_restarts = 0

\* The lock is held by the one route that is inside its with block.
LockIsHeld ==
  \A c \in DaemonCalls :
    daemon_call[c].route \in {"spawn", "terminate", "kill"} <=> daemon_lock = c

\* Every child that runs is the one the manager knows, and none runs while
\* start is about to spawn one.
ChildIsKnown ==
  /\ \A p \in 1 .. Len(daemon_children) : daemon_children[p] => p = daemon_proc
  /\ \A c \in DaemonCalls : daemon_call[c].route = "spawn" =>
       \A p \in 1 .. Len(daemon_children) : ~daemon_children[p]

\* A stop waits for the child it took from the manager; a call that has not
\* begun has none, nor has a client that has not called.
StopHasItsChild ==
  \A c \in DaemonCalls :
    /\ daemon_call[c].client = "none" => daemon_call[c].route = "none"
    /\ daemon_call[c].route \in {"none", "begin"} => daemon_call[c].target = 0
    /\ daemon_call[c].route = "spawn" => daemon_call[c].kind = "start"
    /\ daemon_call[c].route \in {"terminate", "kill"} => daemon_call[c].target = daemon_proc

DaemonInv ==
  /\ DaemonTyped
  /\ LockIsHeld
  /\ ChildIsKnown
  /\ StopHasItsChild
  /\ Supervisor!StopMeansDead

--------------------------------------------------------------------------------
\* A daemon that has started and was called by nobody satisfies the invariant.
LEMMA DaemonInitInv == Supervisor!Init => DaemonInv
  <1> SUFFICES ASSUME Supervisor!Init PROVE DaemonInv
    OBVIOUS
  <1>1. DaemonTyped
    BY DEF Supervisor!Init, Supervisor!NewCall, Supervisor!NoCall, Supervisor!NoProc, DaemonTyped,
        Supervisor!Kinds, Routes, Told
  <1>2. LockIsHeld /\ ChildIsKnown /\ StopHasItsChild /\ Supervisor!StopMeansDead
    BY ServicesAssumption DEF ServicesAssumption, Supervisor!DaemonAssumption, Supervisor!Init,
        Supervisor!NewCall, Supervisor!NoCall, Supervisor!NoProc, LockIsHeld, ChildIsKnown,
        StopHasItsChild, Supervisor!StopMeansDead
  <1> QED
    BY <1>1, <1>2 DEF DaemonInv

\* What a step does to one call leaves the others alone.
LEMMA DaemonStepInv == DaemonInv /\ Supervisor!Next => DaemonInv'
  <1> SUFFICES ASSUME DaemonInv, Supervisor!Next PROVE DaemonInv'
    OBVIOUS
  <1>a. "nobody" \notin DaemonCalls
    BY ServicesAssumption DEF ServicesAssumption, Supervisor!DaemonAssumption, Supervisor!NoCall
  <1>b. /\ {"begin", "spawn", "terminate", "kill", "report", "answered"} \subseteq Routes
        /\ {"waiting", "ok", "error", "unreachable"} \subseteq Told
        /\ Len(daemon_children) \in Nat
        /\ 0 \in 0 .. Len(daemon_children)
    BY DEF Routes, Told, DaemonInv, DaemonTyped
  <1>1. ASSUME NEW c \in DaemonCalls, NEW kind \in Supervisor!Kinds, NEW header \in BOOLEAN,
               Supervisor!request(c, kind, header)
        PROVE  DaemonInv'
    <2>1. DaemonTyped'
      BY <1>b, <1>1 DEF DaemonInv, DaemonTyped, Supervisor!request
    <2>2. LockIsHeld' /\ ChildIsKnown' /\ StopHasItsChild' /\ Supervisor!StopMeansDead'
      BY <1>1 DEF DaemonInv, DaemonTyped, Supervisor!request, Supervisor!Kinds, Routes, Told,
        LockIsHeld, ChildIsKnown, StopHasItsChild, Supervisor!StopMeansDead, Supervisor!Alive,
        Supervisor!NoProc
    <2> QED
      BY <2>1, <2>2 DEF DaemonInv
  <1>2. ASSUME NEW c \in DaemonCalls, Supervisor!start_check(c)
        PROVE  DaemonInv'
    <2>1. CASE Supervisor!is_running
      <3>1. /\ daemon_call' = [daemon_call EXCEPT ![c].route = "answered",
                 ![c].client = IF @ = "waiting" THEN "error" ELSE @]
            /\ daemon_call[c].client # "none"
        BY <1>2, <2>1 DEF DaemonInv, DaemonTyped, StopHasItsChild, Supervisor!start_check
      <3>2. UNCHANGED <<daemon_lock, daemon_proc, daemon_children, daemon_restarts>>
        BY <1>2, <2>1 DEF Supervisor!start_check
      <3>3. DaemonTyped'
        BY <1>b, <3>1, <3>2 DEF DaemonInv, DaemonTyped
      <3>4. LockIsHeld' /\ ChildIsKnown' /\ StopHasItsChild' /\ Supervisor!StopMeansDead'
        BY <1>2, <3>1, <3>2 DEF DaemonInv, DaemonTyped, LockIsHeld, ChildIsKnown, StopHasItsChild,
            Supervisor!start_check, Supervisor!StopMeansDead, Supervisor!Alive, Supervisor!NoProc
      <3> QED
        BY <3>3, <3>4 DEF DaemonInv
    <2>2. CASE ~Supervisor!is_running
      <3>1. daemon_call' = [daemon_call EXCEPT ![c].route = "spawn"]
        BY <1>2, <2>2 DEF DaemonInv, DaemonTyped, Supervisor!start_check
      <3>2. /\ daemon_lock = "nobody" /\ daemon_lock' = c
            /\ UNCHANGED <<daemon_proc, daemon_children, daemon_restarts>>
        BY <1>2, <2>2 DEF Supervisor!start_check, Supervisor!lock_free, Supervisor!NoCall
      <3>3. DaemonTyped'
        BY <1>b, <3>1, <3>2 DEF DaemonInv, DaemonTyped
      <3>4. \A p \in 1 .. Len(daemon_children) : ~daemon_children[p]
        BY <2>2 DEF DaemonInv, DaemonTyped, ChildIsKnown, Supervisor!is_running,
            Supervisor!Alive, Supervisor!NoProc
      <3>5. LockIsHeld' /\ ChildIsKnown'
        BY <1>a, <3>1, <3>2, <3>4 DEF DaemonInv, DaemonTyped, LockIsHeld, ChildIsKnown
      <3>6. StopHasItsChild' /\ Supervisor!StopMeansDead'
        BY <1>2, <3>1, <3>2 DEF DaemonInv, DaemonTyped, StopHasItsChild, Supervisor!start_check,
            Supervisor!StopMeansDead, Supervisor!Alive, Supervisor!NoProc
      <3> QED
        BY <3>3, <3>5, <3>6 DEF DaemonInv
    <2> QED
      BY <2>1, <2>2
  <1>3. ASSUME NEW c \in DaemonCalls, Supervisor!start_spawn(c)
        PROVE  DaemonInv'
    <2>0. /\ Len(daemon_children') = Len(daemon_children) + 1
          /\ daemon_children' \in Seq(BOOLEAN)
          /\ \A p \in 1 .. Len(daemon_children) : daemon_children'[p] = daemon_children[p]
          /\ Len(daemon_children) \in Nat
      BY <1>3 DEF DaemonInv, DaemonTyped, Supervisor!start_spawn
    <2>1. DaemonTyped'
      BY <1>b, <1>3, <2>0 DEF DaemonInv, DaemonTyped, Supervisor!start_spawn,
          Supervisor!NoCall
    <2>2. LockIsHeld' /\ ChildIsKnown' /\ StopHasItsChild' /\ Supervisor!StopMeansDead'
      BY <1>3, <1>a, <2>0 DEF DaemonInv, DaemonTyped, Supervisor!start_spawn,
        LockIsHeld, ChildIsKnown, StopHasItsChild, Supervisor!StopMeansDead, Supervisor!Alive,
        Supervisor!NoProc, Supervisor!NoCall
    <2> QED
      BY <2>1, <2>2 DEF DaemonInv
  <1>4. ASSUME NEW c \in DaemonCalls, Supervisor!stop_begin(c)
        PROVE  DaemonInv'
    <2>0. daemon_lock = "nobody"
      BY <1>4 DEF Supervisor!stop_begin, Supervisor!lock_free, Supervisor!NoCall
    <2>1. CASE Supervisor!is_running
      <3>1. /\ daemon_call' = [daemon_call EXCEPT ![c].route = "terminate", ![c].target = daemon_proc]
            /\ daemon_lock' = c
            /\ UNCHANGED <<daemon_proc, daemon_children, daemon_restarts>>
        BY <1>4, <2>1 DEF Supervisor!stop_begin
      <3>2. DaemonTyped'
        BY <1>b, <3>1 DEF DaemonInv, DaemonTyped
      <3>3. LockIsHeld' /\ ChildIsKnown'
        BY <1>a, <2>0, <3>1 DEF DaemonInv, DaemonTyped, LockIsHeld, ChildIsKnown
      <3>4. StopHasItsChild' /\ Supervisor!StopMeansDead'
        BY <1>4, <3>1 DEF DaemonInv, DaemonTyped, StopHasItsChild, Supervisor!stop_begin,
            Supervisor!StopMeansDead, Supervisor!Alive, Supervisor!NoProc
      <3> QED
        BY <3>2, <3>3, <3>4 DEF DaemonInv
    <2>2. CASE ~Supervisor!is_running
      <3>1. /\ daemon_call' = [daemon_call EXCEPT ![c].route = "report"]
            /\ daemon_proc' = 0
            /\ UNCHANGED <<daemon_lock, daemon_children, daemon_restarts>>
        BY <1>4, <2>2 DEF Supervisor!stop_begin, Supervisor!NoProc
      <3>2. DaemonTyped'
        BY <1>b, <3>1 DEF DaemonInv, DaemonTyped
      <3>3. \A p \in 1 .. Len(daemon_children) : ~daemon_children[p]
        BY <2>2 DEF DaemonInv, DaemonTyped, ChildIsKnown, Supervisor!is_running,
            Supervisor!Alive, Supervisor!NoProc
      <3>4. LockIsHeld' /\ ChildIsKnown'
        BY <1>4, <1>a, <2>0, <3>1, <3>3 DEF DaemonInv, DaemonTyped, LockIsHeld, ChildIsKnown,
            Supervisor!stop_begin
      <3>5. StopHasItsChild' /\ Supervisor!StopMeansDead'
        BY <1>4, <1>a, <2>0, <3>1 DEF DaemonInv, DaemonTyped, StopHasItsChild, LockIsHeld,
            Supervisor!stop_begin, Supervisor!StopMeansDead, Supervisor!Alive, Supervisor!NoProc
      <3> QED
        BY <3>2, <3>4, <3>5 DEF DaemonInv
    <2> QED
      BY <2>1, <2>2
  <1>5. ASSUME NEW c \in DaemonCalls, Supervisor!stop_done(c)
        PROVE  DaemonInv'
    <2>1. /\ daemon_call' = [daemon_call EXCEPT ![c].route = "report"]
          /\ daemon_proc' = 0
          /\ daemon_lock' = "nobody"
          /\ UNCHANGED <<daemon_children, daemon_restarts>>
      BY <1>5 DEF Supervisor!stop_done, Supervisor!NoProc, Supervisor!NoCall
    <2>2. /\ daemon_lock = c
          /\ daemon_call[c].route \in {"terminate", "kill"}
          /\ daemon_call[c].target = daemon_proc
      BY <1>5 DEF DaemonInv, LockIsHeld, StopHasItsChild, Supervisor!stop_done
    <2>3. /\ ~Supervisor!Alive(daemon_proc)
          /\ \A p \in 1 .. Len(daemon_children) : ~daemon_children[p]
      BY <1>5 DEF DaemonInv, DaemonTyped, ChildIsKnown, Supervisor!stop_done, Supervisor!stop_wait,
          Supervisor!Alive, Supervisor!NoProc
    <2>4. DaemonTyped'
      BY <1>b, <2>1 DEF DaemonInv, DaemonTyped
    <2>5. LockIsHeld' /\ ChildIsKnown'
      BY <1>a, <2>1, <2>2, <2>3 DEF DaemonInv, DaemonTyped, LockIsHeld, ChildIsKnown
    <2>6. StopHasItsChild'
      BY <2>1, <2>2 DEF DaemonInv, DaemonTyped, StopHasItsChild, LockIsHeld
    <2>7. Supervisor!StopMeansDead'
      BY <2>1, <2>2, <2>3 DEF DaemonInv, DaemonTyped, Supervisor!StopMeansDead, Supervisor!Alive,
          Supervisor!NoProc
    <2> QED
      BY <2>4, <2>5, <2>6, <2>7 DEF DaemonInv
  <1>6. ASSUME NEW c \in DaemonCalls, Supervisor!stop_kill(c)
        PROVE  DaemonInv'
    <2>1. DaemonTyped'
      BY <1>b, <1>6 DEF DaemonInv, DaemonTyped, Supervisor!stop_kill
    <2>2. LockIsHeld' /\ ChildIsKnown' /\ StopHasItsChild' /\ Supervisor!StopMeansDead'
      BY <1>6 DEF DaemonInv, DaemonTyped, Supervisor!stop_kill,
        LockIsHeld, ChildIsKnown, StopHasItsChild, Supervisor!StopMeansDead, Supervisor!Alive,
        Supervisor!NoProc
    <2> QED
      BY <2>1, <2>2 DEF DaemonInv
  <1>7. ASSUME NEW c \in DaemonCalls, Supervisor!stop_expires(c)
        PROVE  DaemonInv'
    <2>1. /\ daemon_call[c].route = "kill"
          /\ daemon_call' = [daemon_call EXCEPT ![c].route = "answered",
               ![c].client = IF @ = "waiting" THEN "error" ELSE @]
          /\ daemon_lock' = "nobody"
          /\ UNCHANGED <<daemon_proc, daemon_children, daemon_restarts>>
      BY <1>7 DEF Supervisor!stop_expires, Supervisor!NoCall
    <2>2. DaemonTyped'
      BY <1>b, <2>1 DEF DaemonInv, DaemonTyped
    <2>3. LockIsHeld' /\ ChildIsKnown'
      BY <1>a, <2>1 DEF DaemonInv, DaemonTyped, LockIsHeld, ChildIsKnown
    <2>4. StopHasItsChild' /\ Supervisor!StopMeansDead'
      BY <2>1 DEF DaemonInv, DaemonTyped, StopHasItsChild, Supervisor!StopMeansDead,
          Supervisor!Alive, Supervisor!NoProc
    <2> QED
      BY <2>2, <2>3, <2>4 DEF DaemonInv
  <1>8. ASSUME NEW c \in DaemonCalls, Supervisor!status(c)
        PROVE  DaemonInv'
    <2>0. PICK report \in 0 .. Len(daemon_children) :
            report = IF Supervisor!Alive(daemon_proc) THEN daemon_proc ELSE 0
      BY <1>b DEF DaemonInv, DaemonTyped
    <2>1. daemon_call' = [daemon_call EXCEPT ![c].route = "answered", ![c].report = report,
            ![c].client = IF @ = "waiting" THEN "ok" ELSE @]
      BY <1>8, <2>0 DEF Supervisor!status, Supervisor!NoProc
    <2>2. /\ daemon_call[c].route = "report"
          /\ UNCHANGED <<daemon_lock, daemon_proc, daemon_children, daemon_restarts>>
      BY <1>8 DEF Supervisor!status
    <2>3. DaemonTyped'
      BY <1>b, <2>1, <2>2, ZenonT(60) DEF DaemonInv, DaemonTyped
    <2>4. LockIsHeld' /\ ChildIsKnown'
      BY <2>1, <2>2 DEF DaemonInv, DaemonTyped, LockIsHeld, ChildIsKnown
    <2>5. StopHasItsChild' /\ Supervisor!StopMeansDead'
      BY <2>1, <2>2 DEF DaemonInv, DaemonTyped, StopHasItsChild, Supervisor!StopMeansDead,
          Supervisor!Alive, Supervisor!NoProc
    <2> QED
      BY <2>3, <2>4, <2>5 DEF DaemonInv
  <1>9. ASSUME NEW c \in DaemonCalls, Supervisor!client_timeout(c)
        PROVE  DaemonInv'
    <2>1. DaemonTyped'
      BY <1>b, <1>9 DEF DaemonInv, DaemonTyped, Supervisor!client_timeout
    <2>2. LockIsHeld' /\ ChildIsKnown' /\ StopHasItsChild' /\ Supervisor!StopMeansDead'
      BY <1>9 DEF DaemonInv, DaemonTyped, Supervisor!client_timeout,
        LockIsHeld, ChildIsKnown, StopHasItsChild, Supervisor!StopMeansDead, Supervisor!Alive,
        Supervisor!NoProc
    <2> QED
      BY <2>1, <2>2 DEF DaemonInv
  <1>10. ASSUME NEW p \in DOMAIN daemon_children, Supervisor!child_exits(p)
        PROVE  DaemonInv'
    <2>0. /\ daemon_children' \in Seq(BOOLEAN)
          /\ Len(daemon_children') = Len(daemon_children)
          /\ p \in 1 .. Len(daemon_children)
          /\ \A q \in 1 .. Len(daemon_children) : daemon_children'[q] => daemon_children[q]
      BY <1>10 DEF DaemonInv, DaemonTyped, Supervisor!child_exits
    <2>1. DaemonTyped'
      BY <1>10, <2>0 DEF DaemonInv, DaemonTyped, Supervisor!child_exits
    <2>2. LockIsHeld' /\ ChildIsKnown' /\ StopHasItsChild'
      BY <1>10, <2>0 DEF DaemonInv, DaemonTyped, Supervisor!child_exits,
        LockIsHeld, ChildIsKnown, StopHasItsChild
    <2>3. Supervisor!StopMeansDead'
      BY <1>10, <2>0 DEF DaemonInv, DaemonTyped, Supervisor!child_exits,
        Supervisor!StopMeansDead, Supervisor!Alive, Supervisor!NoProc
    <2> QED
      BY <2>1, <2>2, <2>3 DEF DaemonInv
  <1>11. ~Supervisor!daemon_restarts
    BY DEF Supervisor!daemon_restarts, DaemonInv, DaemonTyped
  <1> QED
    BY <1>1, <1>2, <1>3, <1>4, <1>5, <1>6, <1>7, <1>8, <1>9, <1>10, <1>11 DEF Supervisor!Next,
        Supervisor!RouteNext

\* Every state of a suite that runs the daemon satisfies its invariant.
LEMMA DaemonInvariant == ServicesSpec => []DaemonInv
  <1>1. ServicesInit => DaemonInv
    BY DaemonInitInv DEF ServicesInit
  <1>2. DaemonInv /\ [ServicesNext]_serviceVars => DaemonInv'
    <2> SUFFICES ASSUME DaemonInv, [ServicesNext]_serviceVars PROVE DaemonInv'
      OBVIOUS
    <2>1. CASE StepDaemon
      BY <2>1, DaemonStepInv DEF StepDaemon
    <2>2. CASE UNCHANGED daemonVars
      BY <2>2 DEF daemonVars, DaemonInv, DaemonTyped, LockIsHeld, ChildIsKnown, StopHasItsChild,
          Supervisor!StopMeansDead, Supervisor!Alive
    <2> QED
      BY <2>1, <2>2 DEF ServicesNext, StepServe, StepLoader, ServicesStop, serviceVars
  <1> QED
    BY <1>1, <1>2, PTL DEF ServicesSpec

(***************************************************************************)
(* However starts, stops, status calls, timeouts and exits of the child    *)
(* interleave: one live child at most, the one the manager knows, and no   *)
(* stop that reports has left its child alive (daemon/serve_manager.py).   *)
(***************************************************************************)
THEOREM SupervisorAlwaysOwnsItsChild == ServicesSpec => []SupervisorOwnsItsChild
  <1>1. DaemonInv => SupervisorOwnsItsChild
    <2> SUFFICES ASSUME DaemonInv PROVE SupervisorOwnsItsChild
      OBVIOUS
    <2>1. Supervisor!TypeOK
      BY DEF DaemonInv, DaemonTyped, Supervisor!TypeOK, Supervisor!NoCall, Routes, Told
    <2>2. Supervisor!NoOrphan /\ Supervisor!OneLiveChild
      BY DEF DaemonInv, DaemonTyped, ChildIsKnown, Supervisor!NoOrphan, Supervisor!OneLiveChild,
          Supervisor!Alive, Supervisor!NoProc
    <2> QED
      BY <2>1, <2>2 DEF DaemonInv, SupervisorOwnsItsChild
  <1> QED
    BY <1>1, DaemonInvariant, PTL

--------------------------------------------------------------------------------
\* Where a route of the one-thread server can be, and its record.
Phases == {"new", "holder", "build", "admit", "generate", "loop", "forward", "answered"}
RouteRecords ==
  [phase : Phases, stream : BOOLEAN, engine : {0, 1}, budget : Nat, batch : SUBSET Clients,
   tokens : Seq(Clients), status : {0, 200, 500, 503}]
EngineRecords == [pending : Seq(Clients), running : SUBSET Clients, freeRows : Seq({1})]

ServeTyped ==
  /\ serve_boot \in -1 .. 7
  /\ serve_client \in [Clients -> RouteRecords]
  /\ serve_gen \in [Clients -> Nat]
  /\ serve_aborted \in SUBSET Clients
  /\ serve_fails \in [build : Nat, forward : Nat]

Empty == <<>>
Only(x) == <<x>>

\* Before the first build, and the one engine after it.
NoneBuilt == serve_engineRef = 0 /\ serve_engines = <<>>
Built(pending, running, freeRows) ==
  /\ serve_engineRef = 1
  /\ serve_engines \in Seq(EngineRecords)
  /\ Len(serve_engines) = 1
  /\ serve_engines[1].pending = pending
  /\ serve_engines[1].running = running
  /\ serve_engines[1].freeRows = freeRows

\* Between requests: idle, or left by a forward that raised with its row taken.
Fresh == serve_fails.forward = 0 /\ (NoneBuilt \/ Built(Empty, {}, Only(1)))
Stuck == serve_fails.forward # 0 /\ Built(Empty, serve_engines[1].running, Empty)
AtRest == Fresh \/ Stuck

\* What a route knows of the engine at each place it can be in.
Routed(c) ==
  LET r == serve_client[c]
      n == serve_gen[c] IN
  /\ r.phase \in {"new", "holder", "build", "admit", "generate"} => n = 0 /\ r.tokens = <<>>
  /\ r.phase = "holder" => AtRest
  /\ r.phase = "build" => NoneBuilt /\ Fresh
  /\ r.phase = "admit" => r.engine = 1 /\ serve_engineRef = 1 /\ AtRest
  /\ r.phase \in {"generate", "loop", "forward"} => serve_fails.forward = 0
  /\ r.phase = "generate" => r.engine = 1 /\ Built(Only(c), {}, Empty)
  /\ r.phase = "loop" =>
       /\ r.engine = 1
       /\ Len(r.tokens) = n
       /\ \/ Built(Only(c), {}, Empty) /\ n = 0 /\ r.budget = 1 + MaxTokens
          \/ /\ Built(Empty, {c}, Empty)
             /\ n \in 1 .. (MaxTokens - 1) /\ r.budget = 1 + MaxTokens - n
             /\ c \notin serve_aborted
          \/ Built(Empty, {}, Only(1)) /\ n >= 1
  /\ r.phase = "forward" =>
       /\ r.engine = 1
       /\ r.batch = {c}
       /\ Len(r.tokens) = n
       /\ n \in 0 .. (MaxTokens - 1) /\ r.budget = 1 + MaxTokens - n
       /\ c \notin serve_aborted
       /\ Built(Empty, {}, Empty) \/ Built(Empty, {c}, Empty)
  /\ r.phase = "answered" /\ r.status = 200 /\ ~r.stream => Len(r.tokens) = n /\ n >= 1
  /\ r.tokens \in Seq({c})
  /\ r.engine \in {0, serve_engineRef}

ServeInv ==
  /\ ServeTyped
  /\ \A c, d \in Clients : Server!Active(c) /\ Server!Active(d) => c = d
  /\ (\A c \in Clients : ~Server!Active(c)) => AtRest
  /\ \A c \in Clients : Routed(c)
  /\ \A c \in serve_aborted : serve_gen[c] >= 1

--------------------------------------------------------------------------------
\* The library's cardinality and enumeration of a set of at most one.
LEMMA CardinalityOfOne ==
  /\ Server!Cardinality({}) = 0
  /\ \A x : Server!Cardinality({x}) = 1
  <1>1. \A S : Server!Cardinality(S) = Cardinality(S)
    BY DEF Server!Cardinality, Cardinality
  <1> QED
    BY <1>1, FS_EmptySet, FS_Singleton

\* The only enumeration of one element.
LEMMA SetToSeqOfOne == \A x : Server!SetToSeq({x}) = <<x>>
  <1> TAKE x
  <1>1. [i \in 1 .. 1 |-> x] = <<x>>
    OBVIOUS
  <1>2. \A f \in [1 .. 1 -> {x}] : f = <<x>>
    OBVIOUS
  <1>3. Server!IsInjective(<<x>>) /\ <<x>> \in [1 .. 1 -> {x}]
    BY DEF Server!IsInjective
  <1>4. Server!SetToSeq({x}) \in [1 .. 1 -> {x}]
    BY <1>3, CardinalityOfOne DEF Server!SetToSeq
  <1> QED
    BY <1>2, <1>4

\* A server that has started nothing satisfies the invariant.
LEMMA ServeInitInv == Server!Init => ServeInv
  <1> SUFFICES ASSUME Server!Init PROVE ServeInv
    OBVIOUS
  <1>1. ServeTyped
    <2>1. <<>> \in Seq(Clients)
      OBVIOUS
    <2>2. Server!NewClient \in RouteRecords
      BY <2>1 DEF Server!NewClient, RouteRecords, Phases, Server!NoEngine
    <2> QED
      BY <2>2 DEF Server!Init, ServeTyped
  <1>2. \A c \in Clients : ~Server!Active(c)
    BY DEF Server!Init, Server!Active, Server!NewClient
  <1>3. AtRest
    BY DEF Server!Init, AtRest, Fresh, NoneBuilt, Server!NoEngine
  <1>4. \A c \in Clients : Routed(c)
    <2> TAKE c \in Clients
    <2>1. /\ serve_client[c].phase = "new"
          /\ serve_client[c].tokens = <<>>
          /\ serve_client[c].engine = 0
          /\ serve_gen[c] = 0
      BY DEF Server!Init, Server!NewClient, Server!NoEngine
    <2>2. <<>> \in Seq({c})
      OBVIOUS
    <2> QED
      BY <2>1, <2>2 DEF Routed
  <1>5. \A c \in serve_aborted : serve_gen[c] >= 1
    BY DEF Server!Init
  <1> QED
    BY <1>1, <1>2, <1>3, <1>4, <1>5 DEF ServeInv

\* While one route is active its step moves no other client, and has to account
\* for the engine only where it leaves it.
LEMMA ServeMoves ==
  ASSUME ServeInv, NEW c \in Clients,
         \A d \in Clients \ {c} : ~Server!Active(d),
         NEW r \in RouteRecords, r.phase # "new",
         serve_client' = [serve_client EXCEPT ![c] = r],
         UNCHANGED serve_boot,
         serve_fails' \in [build : Nat, forward : Nat],
         serve_gen' \in [Clients -> Nat],
         \A d \in Clients \ {c} : serve_gen'[d] = serve_gen[d],
         serve_aborted' \in SUBSET Clients,
         \A d \in serve_aborted' : serve_gen'[d] >= 1,
         serve_engineRef = 0 \/ serve_engineRef' = serve_engineRef,
         Routed(c)',
         r.phase = "answered" => AtRest'
  PROVE  ServeInv'
  <1>1. serve_client'[c] = r /\ \A d \in Clients \ {c} : serve_client'[d] = serve_client[d]
    BY DEF ServeInv, ServeTyped
  <1>2. ServeTyped'
    BY DEF ServeInv, ServeTyped
  <1>3. \A d \in Clients \ {c} : ~Server!Active(d)'
    BY <1>1 DEF Server!Active
  <1>4. (\A d \in Clients : ~Server!Active(d)') => AtRest'
    BY <1>1 DEF Server!Active
  <1>5. ASSUME NEW d \in Clients \ {c} PROVE Routed(d)'
    <2>1. serve_client[d].phase \in {"new", "answered"}
      BY <1>5 DEF Server!Active
    <2>2. serve_client'[d] = serve_client[d] /\ serve_gen'[d] = serve_gen[d]
      BY <1>1, <1>5
    <2>3. serve_client[d].engine \in {0, serve_engineRef'}
      BY <1>5 DEF ServeInv, Routed
    <2> QED
      <3>1. Routed(d)
        BY <1>5 DEF ServeInv
      <3> QED
        BY <2>1, <2>2, <2>3, <3>1, ZenonT(60) DEF Routed
  <1> QED
    BY <1>2, <1>3, <1>4, <1>5 DEF ServeInv

\* Once the only active route is known, the others are at rest.
LEMMA OthersRest ==
  ASSUME ServeInv, NEW c \in Clients, serve_client[c].phase \notin {"new", "answered"}
  PROVE  \A d \in Clients \ {c} : ~Server!Active(d)
  BY DEF ServeInv, Server!Active

\* A queue of one and the free list of one row.
LEMMA QueueOfOne ==
  /\ \A S : Empty \in Seq(S)
  /\ \A x : /\ Append(Empty, x) = Only(x) /\ Tail(Only(x)) = Empty /\ Head(Only(x)) = x
            /\ Only(x) # Empty /\ Len(Only(x)) = 1
            /\ Empty \o Only(x) = Only(x)
  /\ \A S : \A x \in S : Only(x) \in Seq(S)
  /\ Empty \o Empty = Empty
  BY DEF Empty, Only

\* The places a route can be in.
LEMMA PhasesAre ==
  {"new", "holder", "build", "admit", "generate", "loop", "forward", "answered"} \subseteq Phases
  BY DEF Phases

\* A route starts only where none is active: there is one thread.
LEMMA ReceiveInv ==
  ASSUME ServeInv, NEW c \in Clients, NEW stream \in BOOLEAN, Server!receive(c, stream)
  PROVE  ServeInv'
  <1>1. \A d \in Clients : ~Server!Active(d)
    <2> SUFFICES ASSUME NEW d \in Clients, Server!Active(d) PROVE FALSE
      OBVIOUS
    <2>1. {e \in Clients : Server!Active(e)} = {d}
      BY DEF ServeInv
    <2>2. Server!Cardinality({e \in Clients : Server!Active(e)}) < 1
      BY DEF Server!receive
    <2>3. Server!Cardinality({d}) = 1
      BY CardinalityOfOne
    <2>4. Server!Cardinality({d}) < 1
      BY <2>1, <2>2, Zenon
    <2> QED
      BY <2>3, <2>4
  <1> DEFINE code == IF stream THEN 200 ELSE 0
             r == [serve_client[c] EXCEPT !.phase = "holder", !.stream = stream, !.status = code]
  <1>2. r \in RouteRecords
    <2>1. serve_client[c] \in RouteRecords /\ "holder" \in Phases
      BY PhasesAre DEF ServeInv, ServeTyped
    <2>2. code \in {0, 200, 500, 503}
      OBVIOUS
    <2> HIDE DEF code
    <2> QED
      BY <2>1, <2>2, ZenonT(60) DEF RouteRecords
  <1>3. serve_client' = [serve_client EXCEPT ![c] = r]
    BY DEF Server!receive, ServeInv, ServeTyped
  <1>4. serve_client'[c] = r
    BY <1>3 DEF ServeInv, ServeTyped
  <1>5. /\ UNCHANGED <<serve_boot, serve_engineRef, serve_engines, serve_gen, serve_aborted, serve_fails>>
        /\ serve_client[c].phase = "new"
    BY DEF Server!receive
  <1>6. AtRest'
    BY <1>1, <1>5 DEF ServeInv, AtRest, Fresh, Stuck, NoneBuilt, Built
  <1>7. Routed(c)'
    <2>1. Routed(c)
      BY DEF ServeInv
    <2>2. /\ r.phase = "holder"
          /\ r.tokens = serve_client[c].tokens
          /\ r.engine = serve_client[c].engine
      BY DEF ServeInv, ServeTyped, RouteRecords
    <2> QED
      BY <1>4, <1>5, <1>6, <2>1, <2>2 DEF Routed
  <1>8. r.phase # "new" /\ r.phase # "answered"
    BY DEF ServeInv, ServeTyped, RouteRecords
  <1> HIDE DEF r
  <1> QED
    BY <1>1, <1>2, <1>3, <1>5, <1>7, <1>8, ServeMoves DEF ServeInv, ServeTyped

\* The holder gives out the engine it has, which is at rest, or sees none.
LEMMA HolderInv ==
  ASSUME ServeInv, NEW c \in Clients, Server!engine_holder(c)
  PROVE  ServeInv'
  <1> DEFINE seen == serve_engineRef # 0
             next == IF seen THEN "admit" ELSE "build"
             engine == IF seen THEN serve_engineRef ELSE 0
             r == [serve_client[c] EXCEPT !.phase = next, !.engine = engine]
  <1>1. serve_client[c].phase = "holder"
    BY DEF Server!engine_holder
  <1>2. /\ Routed(c)
        /\ AtRest
        /\ serve_engineRef \in {0, 1}
    BY <1>1 DEF ServeInv, Routed, AtRest, Fresh, Stuck, NoneBuilt, Built
  <1>3. r \in RouteRecords
    <2>1. serve_client[c] \in RouteRecords /\ next \in Phases
      BY PhasesAre DEF ServeInv, ServeTyped
    <2>2. engine \in {0, 1}
      BY <1>2
    <2> HIDE DEF next, engine
    <2> QED
      BY <2>1, <2>2, ZenonT(60) DEF RouteRecords
  <1>4. serve_client' = [serve_client EXCEPT ![c] = r]
    BY DEF Server!engine_holder, Server!holder_seen, Server!NoEngine, ServeInv, ServeTyped
  <1>5. serve_client'[c] = r
    BY <1>4 DEF ServeInv, ServeTyped
  <1>6. UNCHANGED <<serve_boot, serve_engineRef, serve_engines, serve_gen, serve_aborted, serve_fails>>
    BY DEF Server!engine_holder
  <1>7. Routed(c)'
    <2>1. /\ r.phase = IF seen THEN "admit" ELSE "build"
          /\ r.tokens = serve_client[c].tokens
          /\ r.engine = IF seen THEN serve_engineRef ELSE 0
      BY DEF ServeInv, ServeTyped, RouteRecords
    <2>2. IF seen THEN serve_engineRef' = 1 /\ AtRest' ELSE NoneBuilt' /\ Fresh'
      BY <1>2, <1>6 DEF AtRest, Fresh, Stuck, NoneBuilt, Built
    <2> QED
      BY <1>1, <1>2, <1>5, <1>6, <2>1, <2>2 DEF Routed
  <1>8. r.phase # "new" /\ r.phase # "answered"
    BY DEF ServeInv, ServeTyped, RouteRecords
  <1> HIDE DEF r
  <1> QED
    BY <1>1, <1>3, <1>4, <1>6, <1>7, <1>8, OthersRest, ServeMoves DEF ServeInv, ServeTyped

\* The one build is of the first engine.
LEMMA BuildInv ==
  ASSUME ServeInv, NEW c \in Clients, Server!build_engine(c)
  PROVE  ServeInv'
  <1> DEFINE r == [serve_client[c] EXCEPT !.phase = "admit", !.engine = 1]
  <1>1. serve_client[c].phase = "build"
    BY DEF Server!build_engine
  <1>2. Routed(c) /\ NoneBuilt /\ serve_fails.forward = 0
    BY <1>1 DEF ServeInv, Routed, Fresh
  <1>3. r \in RouteRecords
    <2>1. serve_client[c] \in RouteRecords /\ "admit" \in Phases
      BY PhasesAre DEF ServeInv, ServeTyped
    <2> QED
      BY <2>1, ZenonT(60) DEF RouteRecords
  <1>4. Len(serve_engines) = 0
    BY <1>2 DEF NoneBuilt
  <1>5. serve_client' = [serve_client EXCEPT ![c] = r]
    <2>1. serve_client' = [serve_client EXCEPT ![c].phase = "admit",
                                               ![c].engine = Len(serve_engines) + 1]
      BY DEF Server!build_engine
    <2>2. Len(serve_engines) + 1 = 1
      BY <1>4
    <2> QED
      BY <2>1, <2>2 DEF ServeInv, ServeTyped
  <1>6. serve_client'[c] = r
    BY <1>5 DEF ServeInv, ServeTyped
  <1>7. UNCHANGED <<serve_boot, serve_gen, serve_aborted, serve_fails>>
    BY DEF Server!build_engine
  <1>8. Built(Empty, {}, Only(1))'
    <2>1. serve_engineRef' = 1
      BY <1>4 DEF Server!build_engine
    <2>2. Server!NewEngine = [pending |-> Empty, running |-> {}, freeRows |-> Only(1)]
      BY DEF Server!NewEngine, Empty, Only
    <2>3. Server!NewEngine \in EngineRecords
      BY <2>2, QueueOfOne DEF EngineRecords
    <2>4. serve_engines' = Only(Server!NewEngine)
      BY <1>2 DEF Server!build_engine, NoneBuilt, Only
    <2>5. serve_engines' \in Seq(EngineRecords) /\ Len(serve_engines') = 1
      BY <2>3, <2>4, QueueOfOne
    <2>6. serve_engines'[1] = Server!NewEngine
      BY <2>4 DEF Only
    <2> QED
      BY <2>1, <2>2, <2>5, <2>6 DEF Built
  <1>9. Routed(c)'
    <2>1. r.phase = "admit" /\ r.tokens = serve_client[c].tokens /\ r.engine = 1
      BY DEF ServeInv, ServeTyped, RouteRecords
    <2>2. serve_engineRef' = 1 /\ AtRest'
      BY <1>2, <1>7, <1>8 DEF Built, AtRest, Fresh
    <2> QED
      BY <1>1, <1>2, <1>6, <1>7, <2>1, <2>2 DEF Routed
  <1>10. r.phase # "new" /\ r.phase # "answered"
    BY DEF ServeInv, ServeTyped, RouteRecords
  <1>11. serve_engineRef = 0
    BY <1>2 DEF NoneBuilt
  <1> HIDE DEF r
  <1> QED
    BY <1>1, <1>3, <1>5, <1>7, <1>9, <1>10, <1>11, OthersRest, ServeMoves DEF ServeInv, ServeTyped

\* A route that fails with no engine taken leaves it at rest.
LEMMA BuildFailsInv ==
  ASSUME ServeInv, NEW c \in Clients, Server!build_fails(c)
  PROVE  ServeInv'
  <1> DEFINE code == IF serve_client[c].stream THEN 200 ELSE 503
             r == [serve_client[c] EXCEPT !.phase = "answered", !.tokens = <<>>, !.status = code]
  <1>1. serve_client[c].phase = "build"
    BY DEF Server!build_fails
  <1>2. Routed(c) /\ NoneBuilt /\ serve_fails.forward = 0
    BY <1>1 DEF ServeInv, Routed, Fresh
  <1>3. r \in RouteRecords
    <2>1. serve_client[c] \in RouteRecords /\ "answered" \in Phases
      BY PhasesAre DEF ServeInv, ServeTyped
    <2>2. <<>> \in Seq(Clients)
      OBVIOUS
    <2>3. code \in {0, 200, 500, 503}
      OBVIOUS
    <2> HIDE DEF code
    <2> QED
      BY <2>1, <2>2, <2>3, ZenonT(60) DEF RouteRecords
  <1>4. serve_client' = [serve_client EXCEPT ![c] = r]
    BY ZenonT(60) DEF Server!build_fails, Server!failed, ServeInv, ServeTyped
  <1>5. serve_client'[c] = r
    BY <1>4 DEF ServeInv, ServeTyped
  <1>6. /\ UNCHANGED <<serve_boot, serve_engineRef, serve_engines, serve_gen, serve_aborted>>
        /\ serve_fails' \in [build : Nat, forward : Nat]
        /\ serve_fails'.forward = serve_fails.forward
    BY DEF Server!build_fails, ServeInv, ServeTyped
  <1>7. AtRest'
    BY <1>2, <1>6 DEF AtRest, Fresh, NoneBuilt
  <1>8. Routed(c)'
    <2>1. /\ r.phase = "answered" /\ r.tokens = <<>> /\ r.engine = serve_client[c].engine
          /\ r.stream = serve_client[c].stream
          /\ r.status = IF serve_client[c].stream THEN 200 ELSE 503
      BY DEF ServeInv, ServeTyped, RouteRecords
    <2>2. <<>> \in Seq({c})
      OBVIOUS
    <2> QED
      BY <1>2, <1>5, <1>6, <2>1, <2>2 DEF Routed
  <1>9. r.phase # "new"
    BY DEF ServeInv, ServeTyped, RouteRecords
  <1> HIDE DEF r
  <1> QED
    BY <1>1, <1>3, <1>4, <1>6, <1>7, <1>8, <1>9, OthersRest, ServeMoves DEF ServeInv, ServeTyped

\* A change of the one engine.
LEMMA TheEngine ==
  \A p, w, f : Built(p, w, f) =>
    /\ serve_engines[1] \in EngineRecords
    /\ serve_engines[1].pending = p /\ serve_engines[1].running = w /\ serve_engines[1].freeRows = f
  <1>1. \A S : \A s \in Seq(S) : Len(s) = 1 => s[1] \in S
    OBVIOUS
  <1> QED
    BY <1>1 DEF Built

\* A step that changes the one engine.
LEMMA EngineMoves ==
  ASSUME NEW p, NEW w, NEW f, Built(p, w, f), NEW e \in EngineRecords,
         serve_engines' = [serve_engines EXCEPT ![1] = e],
         serve_engineRef' = 1
  PROVE  Built(e.pending, e.running, e.freeRows)'
  <1>1. serve_engines \in [1 .. 1 -> EngineRecords]
    BY DEF Built
  <1>2. serve_engines' \in [1 .. 1 -> EngineRecords] /\ serve_engines'[1] = e
    BY <1>1
  <1>3. serve_engines' = Only(e)
    BY <1>2 DEF Only
  <1>4. serve_engines' \in Seq(EngineRecords) /\ Len(serve_engines') = 1
    BY <1>3, QueueOfOne
  <1> QED
    BY <1>2, <1>4 DEF Built

\* A route that answers with an error, and leaves what it shares at rest.
LEMMA RouteFails ==
  ASSUME ServeInv, NEW c \in Clients, serve_client[c].phase \notin {"new", "answered"},
         NEW r \in RouteRecords,
         r.phase = "answered", r.tokens = <<>>, r.engine = serve_client[c].engine,
         r.stream = serve_client[c].stream,
         r.status = IF serve_client[c].stream THEN 200 ELSE 500,
         serve_client' = [serve_client EXCEPT ![c] = r],
         UNCHANGED <<serve_boot, serve_engineRef, serve_gen, serve_aborted>>,
         serve_fails' \in [build : Nat, forward : Nat],
         AtRest'
  PROVE  ServeInv'
  <1>1. serve_client'[c] = r
    BY DEF ServeInv, ServeTyped
  <1>2. Routed(c)'
    <2>1. /\ serve_client'[c].phase = "answered" /\ serve_client'[c].tokens = <<>>
          /\ serve_client'[c].status = 200 => serve_client'[c].stream
          /\ <<>> \in Seq({c})
      BY <1>1
    <2>2. serve_client'[c].engine \in {0, serve_engineRef'}
      BY <1>1 DEF ServeInv, Routed
    <2> QED
      BY <2>1, <2>2, ZenonT(60) DEF Routed
  <1> QED
    BY <1>2, OthersRest, ServeMoves DEF ServeInv, ServeTyped

\* The row is there to be taken unless a forward has raised.
LEMMA TakeRowInv ==
  ASSUME ServeInv, NEW c \in Clients, Server!add_request(c), Fresh
  PROVE  ServeInv'
  <1> DEFINE r == [serve_client[c] EXCEPT !.phase = "generate"]
  <1>1. serve_client[c].phase = "admit"
    BY DEF Server!add_request
  <1>2. Routed(c) /\ serve_client[c].engine = 1 /\ Built(Empty, {}, Only(1))
    BY <1>1 DEF ServeInv, Routed, Fresh, NoneBuilt
  <1>3. r \in RouteRecords
    <2>1. serve_client[c] \in RouteRecords /\ "generate" \in Phases
      BY PhasesAre DEF ServeInv, ServeTyped
    <2> QED
      BY <2>1 DEF RouteRecords
  <1>4. serve_engines[1].freeRows # <<>>
    BY <1>2, QueueOfOne DEF Built, Empty
  <1>5. /\ serve_client' = [serve_client EXCEPT ![c].phase = "generate"]
        /\ serve_engines' = [serve_engines EXCEPT ![1].pending = Append(@, c), ![1].freeRows = Tail(@)]
        /\ UNCHANGED <<serve_boot, serve_engineRef, serve_gen, serve_aborted, serve_fails>>
    BY <1>2, <1>4 DEF Server!add_request
  <1>6. serve_client' = [serve_client EXCEPT ![c] = r]
    BY <1>5 DEF ServeInv, ServeTyped
  <1>7. serve_client'[c] = r
    BY <1>6 DEF ServeInv, ServeTyped
  <1>8. Built(Only(c), {}, Empty)'
    <2> DEFINE e == [serve_engines[1] EXCEPT !.pending = Only(c), !.freeRows = Empty]
    <2>1. /\ serve_engines[1] \in EngineRecords
          /\ serve_engines[1].pending = Empty /\ serve_engines[1].running = {}
          /\ serve_engines[1].freeRows = Only(1)
      BY <1>2, TheEngine
    <2>2. Append(Empty, c) = Only(c) /\ Tail(Only(1)) = Empty
      BY QueueOfOne
    <2>3. /\ e \in EngineRecords
          /\ e.pending = Only(c) /\ e.running = {} /\ e.freeRows = Empty
      BY <2>1, QueueOfOne DEF EngineRecords
    <2>4. serve_engines' = [serve_engines EXCEPT ![1].pending = Only(c), ![1].freeRows = Empty]
      BY <1>5, <2>1, <2>2
    <2>5. serve_engines' = [serve_engines EXCEPT ![1] = e]
      BY <1>2, <2>4 DEF Built
    <2>6. serve_engineRef' = 1
      BY <1>2, <1>5 DEF Built
    <2> HIDE DEF e
    <2> QED
      BY <1>2, <2>3, <2>5, <2>6, EngineMoves
  <1>9. Routed(c)'
    <2>1. /\ r.phase = "generate" /\ r.tokens = serve_client[c].tokens
          /\ r.engine = serve_client[c].engine
      BY DEF ServeInv, ServeTyped, RouteRecords
    <2> QED
      BY <1>1, <1>2, <1>5, <1>7, <1>8, <2>1 DEF Routed, Fresh
  <1>10. r.phase # "new" /\ r.phase # "answered"
    BY DEF ServeInv, ServeTyped, RouteRecords
  <1> HIDE DEF r
  <1> QED
    BY <1>1, <1>3, <1>5, <1>6, <1>9, <1>10, OthersRest, ServeMoves DEF ServeInv, ServeTyped

\* No row is left: add_request raises through the route.
LEMMA NoRowInv ==
  ASSUME ServeInv, NEW c \in Clients, Server!add_request(c), Stuck
  PROVE  ServeInv'
  <1>1. serve_client[c].phase = "admit"
    BY DEF Server!add_request
  <1>2. Routed(c) /\ serve_client[c].engine = 1 /\ serve_engines[1].freeRows = <<>>
    BY <1>1 DEF ServeInv, Routed, Stuck, Built, Empty
  <1>3. /\ serve_client' = Server!failed(c, 500)
        /\ UNCHANGED <<serve_boot, serve_engineRef, serve_engines, serve_gen, serve_aborted,
                       serve_fails>>
    BY <1>2 DEF Server!add_request
  <1>4. AtRest'
    BY <1>3 DEF AtRest, Stuck, Built
  <1> DEFINE code == IF serve_client[c].stream THEN 200 ELSE 500
             r == [serve_client[c] EXCEPT !.phase = "answered", !.tokens = <<>>, !.status = code]
  <1>5. serve_client' = [serve_client EXCEPT ![c] = r]
    BY <1>3, ZenonT(60) DEF Server!failed, ServeInv, ServeTyped
  <1>6. r \in RouteRecords
    <2>1. /\ serve_client[c] \in RouteRecords /\ "answered" \in Phases
          /\ <<>> \in Seq(Clients) /\ code \in {0, 200, 500, 503}
      BY PhasesAre DEF ServeInv, ServeTyped
    <2> HIDE DEF code
    <2> QED
      BY <2>1, ZenonT(60) DEF RouteRecords
  <1>7. /\ r.phase = "answered" /\ r.tokens = <<>> /\ r.engine = serve_client[c].engine
        /\ r.stream = serve_client[c].stream /\ r.status = code
    BY DEF ServeInv, ServeTyped, RouteRecords
  <1> HIDE DEF r
  <1> QED
    BY <1>1, <1>3, <1>4, <1>5, <1>6, <1>7, RouteFails DEF ServeInv, ServeTyped

\* A request finds the row free, or nobody's to give.
LEMMA AddRequestInv ==
  ASSUME ServeInv, NEW c \in Clients, Server!add_request(c)
  PROVE  ServeInv'
  <1>1. Fresh \/ Stuck
    BY DEF ServeInv, Routed, AtRest, Server!add_request
  <1> QED
    BY <1>1, TakeRowInv, NoRowInv

\* generate() grants one prefill step and max_tokens decode steps.
LEMMA GenerateInv ==
  ASSUME ServeInv, NEW c \in Clients, Server!generate(c)
  PROVE  ServeInv'
  <1> DEFINE r == [serve_client[c] EXCEPT !.phase = "loop", !.budget = 1 + MaxTokens]
  <1>1. serve_client[c].phase = "generate"
    BY DEF Server!generate
  <1>2. Routed(c) /\ serve_client[c].engine = 1 /\ Built(Only(c), {}, Empty)
    BY <1>1 DEF ServeInv, Routed
  <1>3. MaxTokens \in Nat
    BY ServicesAssumption DEF ServicesAssumption, Server!ServeAssumption
  <1>4. r \in RouteRecords
    <2>1. serve_client[c] \in RouteRecords /\ "loop" \in Phases /\ 1 + MaxTokens \in Nat
      BY <1>3, PhasesAre DEF ServeInv, ServeTyped
    <2> QED
      BY <2>1, ZenonT(60) DEF RouteRecords
  <1>5. serve_client' = [serve_client EXCEPT ![c] = r]
    <2>1. /\ serve_engines[1].pending = Only(c) /\ serve_engines[1].running = {}
          /\ Only(c) # <<>> /\ Len(Only(c)) = 1
      BY <1>2, QueueOfOne DEF Built, Empty
    <2>2. Len(Only(c)) * (1 + MaxTokens) + Server!Cardinality({}) = 1 + MaxTokens
      BY <1>3, <2>1, CardinalityOfOne
    <2>3. serve_client' = [serve_client EXCEPT ![c].phase = "loop", ![c].status = @,
             ![c].budget = Len(Only(c)) * (1 + MaxTokens) + Server!Cardinality({})]
      BY <1>2, <2>1 DEF Server!generate
    <2>4. serve_client' = [serve_client EXCEPT ![c].phase = "loop", ![c].status = @,
             ![c].budget = 1 + MaxTokens]
      BY <2>2, <2>3
    <2>5. serve_client[c] \in RouteRecords
      BY DEF ServeInv, ServeTyped
    <2>6. r = [serve_client[c] EXCEPT !.phase = "loop", !.status = @, !.budget = 1 + MaxTokens]
      BY <2>5 DEF RouteRecords
    <2> HIDE DEF r
    <2> QED
      BY <2>4, <2>6 DEF ServeInv, ServeTyped
  <1>6. serve_client'[c] = r
    BY <1>5 DEF ServeInv, ServeTyped
  <1>7. UNCHANGED <<serve_boot, serve_engineRef, serve_engines, serve_gen, serve_aborted, serve_fails>>
    BY DEF Server!generate
  <1>8. Routed(c)'
    <2>1. /\ r.phase = "loop" /\ r.tokens = serve_client[c].tokens /\ r.budget = 1 + MaxTokens
          /\ r.engine = serve_client[c].engine
      BY DEF ServeInv, ServeTyped, RouteRecords
    <2>2. Built(Only(c), {}, Empty)'
      BY <1>2, <1>7 DEF Built
    <2>3. serve_gen[c] = 0 /\ serve_client[c].tokens = <<>> /\ Len(<<>>) = 0
      BY <1>1, <1>2 DEF Routed
    <2>4. serve_fails'.forward = 0
      BY <1>1, <1>2, <1>7 DEF Routed
    <2> QED
      BY <1>2, <1>6, <1>7, <2>1, <2>2, <2>3, <2>4 DEF Routed
  <1>9. r.phase # "new" /\ r.phase # "answered"
    BY DEF ServeInv, ServeTyped, RouteRecords
  <1> HIDE DEF r
  <1> QED
    BY <1>1, <1>4, <1>5, <1>7, <1>8, <1>9, OthersRest, ServeMoves DEF ServeInv, ServeTyped

\* The layer walk is no route's.
LEMMA WalkInv ==
  ASSUME ServeInv, NEW ok \in BOOLEAN, Server!walk(ok)
  PROVE  ServeInv'
  <1>1. serve_boot' \in -1 .. 7
    BY DEF Server!walk
  <1>2. UNCHANGED <<serve_engineRef, serve_engines, serve_client, serve_gen, serve_aborted, serve_fails>>
    BY DEF Server!walk
  <1>3. AtRest' <=> AtRest
    BY <1>2 DEF AtRest, Fresh, Stuck, NoneBuilt, Built
  <1>4. ASSUME NEW c \in Clients PROVE Routed(c)' /\ (Server!Active(c)' <=> Server!Active(c))
    <2>1. Routed(c)
      BY DEF ServeInv
    <2> QED
      BY <1>2, <2>1 DEF Routed, AtRest, Fresh, Stuck, NoneBuilt, Built, Server!Active
  <1>5. ServeTyped'
    BY <1>1, <1>2 DEF ServeInv, ServeTyped
  <1> QED
    BY <1>2, <1>3, <1>4, <1>5 DEF ServeInv

\* A forward is begun for the route's own prompt, first waiting, then running;
\* the loop ends only once the request is done.
LEMMA StepBeginInv ==
  ASSUME ServeInv, NEW c \in Clients, Server!step_begin(c)
  PROVE  ServeInv'
  <1>1. serve_client[c].phase = "loop"
    BY DEF Server!step_begin
  <1>2. /\ Routed(c) /\ serve_client[c].engine = 1
        /\ serve_client[c] \in RouteRecords /\ serve_gen[c] \in Nat
        /\ serve_client \in [Clients -> RouteRecords]
    BY <1>1 DEF ServeInv, ServeTyped, Routed
  <1>3. UNCHANGED <<serve_boot, serve_engineRef, serve_gen, serve_aborted, serve_fails>>
    BY DEF Server!step_begin
  <1>4. MaxTokens \in Nat \ {0}
    BY ServicesAssumption DEF ServicesAssumption, Server!ServeAssumption
  <1> DEFINE r == [serve_client[c] EXCEPT !.phase = "forward", !.batch = {c}]
  <1>5. /\ r \in RouteRecords
        /\ r.phase = "forward" /\ r.batch = {c} /\ r.tokens = serve_client[c].tokens
        /\ r.engine = serve_client[c].engine /\ r.budget = serve_client[c].budget
    <2>1. {c} \in SUBSET Clients /\ "forward" \in Phases
      BY PhasesAre
    <2>2. r \in RouteRecords
      BY <1>2, <2>1, ZenonT(60) DEF RouteRecords
    <2> QED
      BY <1>2, <2>2 DEF RouteRecords
  <1>6. CASE Built(Only(c), {}, Empty) /\ serve_gen[c] = 0 /\ serve_client[c].budget = 1 + MaxTokens
    <2>1. /\ serve_engines[1] \in EngineRecords
          /\ serve_engines[1].pending = Only(c) /\ serve_engines[1].running = {}
          /\ serve_engines[1].freeRows = Empty
      BY <1>6, TheEngine
    <2>2. Only(c) # <<>> /\ Head(Only(c)) = c /\ Tail(Only(c)) = Empty
      BY QueueOfOne DEF Empty
    <2>3. /\ serve_client' = [serve_client EXCEPT ![c].phase = "forward", ![c].batch = {c}]
          /\ serve_engines' = [serve_engines EXCEPT ![1].pending = Empty]
      <3>1. serve_client[c].budget # 0
        BY <1>4, <1>6
      <3>2. /\ serve_client' = [serve_client EXCEPT ![c].phase = "forward",
                                      ![c].batch = {Head(serve_engines[1].pending)}]
            /\ serve_engines' = [serve_engines EXCEPT ![1].pending = Tail(@)]
        BY <1>2, <2>1, <2>2, <3>1 DEF Server!step_begin
      <3> QED
        BY <2>1, <2>2, <3>2
    <2>4. serve_client' = [serve_client EXCEPT ![c] = r]
      BY <1>2, <2>3
    <2> DEFINE e == [serve_engines[1] EXCEPT !.pending = Empty]
    <2>5. e \in EngineRecords /\ e.pending = Empty /\ e.running = {} /\ e.freeRows = Empty
      BY <2>1, QueueOfOne DEF EngineRecords
    <2>6. serve_engines' = [serve_engines EXCEPT ![1] = e] /\ serve_engineRef' = 1
      BY <1>3, <1>6, <2>3 DEF Built
    <2>7. Built(Empty, {}, Empty)'
      <3> HIDE DEF e
      <3> QED
        BY <1>6, <2>5, <2>6, EngineMoves
    <2>8. c \notin serve_aborted
      BY <1>6 DEF ServeInv
    <2>9. serve_client'[c] = r
      BY <1>2, <2>4
    <2> HIDE DEF r
    <2>10. Routed(c)'
      BY <1>2, <1>3, <1>4, <1>5, <1>6, <2>6, <2>7, <2>8, <2>9, <1>1 DEF Routed
    <2> QED
      BY <1>1, <1>3, <1>5, <2>4, <2>6, <2>10, OthersRest, ServeMoves DEF ServeInv, ServeTyped
  <1>7. CASE /\ Built(Empty, {c}, Empty)
             /\ serve_gen[c] \in 1 .. (MaxTokens - 1)
             /\ serve_client[c].budget = 1 + MaxTokens - serve_gen[c]
             /\ c \notin serve_aborted
    <2>1. /\ serve_engines[1] \in EngineRecords
          /\ serve_engines[1].pending = <<>> /\ serve_engines[1].running = {c}
          /\ serve_engines[1].freeRows = Empty
      BY <1>7, TheEngine DEF Empty
    <2>2. serve_client[c].budget # 0
      BY <1>4, <1>7
    <2>3. /\ serve_client' = [serve_client EXCEPT ![c].phase = "forward", ![c].batch = {c}]
          /\ serve_engines' = [serve_engines EXCEPT ![1].pending = <<>>]
      BY <1>2, <2>1, <2>2 DEF Server!step_begin
    <2>4. serve_client' = [serve_client EXCEPT ![c] = r]
      BY <1>2, <2>3
    <2> DEFINE e == [serve_engines[1] EXCEPT !.pending = Empty]
    <2>5. e \in EngineRecords /\ e.pending = Empty /\ e.running = {c} /\ e.freeRows = Empty
      BY <2>1, QueueOfOne DEF EngineRecords
    <2>6. serve_engines' = [serve_engines EXCEPT ![1] = e] /\ serve_engineRef' = 1
      BY <1>3, <1>7, <2>3 DEF Built, Empty
    <2>7. Built(Empty, {c}, Empty)'
      <3> HIDE DEF e
      <3> QED
        BY <1>7, <2>5, <2>6, EngineMoves
    <2>8. serve_client'[c] = r
      BY <1>2, <2>4
    <2> HIDE DEF r
    <2>9. Routed(c)'
      BY <1>2, <1>3, <1>4, <1>5, <1>7, <2>6, <2>7, <2>8, <1>1 DEF Routed
    <2> QED
      BY <1>1, <1>3, <1>5, <2>4, <2>6, <2>9, OthersRest, ServeMoves DEF ServeInv, ServeTyped
  <1>8. CASE Built(Empty, {}, Only(1)) /\ serve_gen[c] >= 1
    <2> DEFINE q == [serve_client[c] EXCEPT !.phase = "answered", !.status = 200]
    <2>1. serve_engines[1].pending = <<>> /\ serve_engines[1].running = {}
      BY <1>8 DEF Built, Empty
    <2>2. serve_client' = Server!finish(c) /\ serve_engines' = serve_engines
      BY <1>2, <2>1 DEF Server!step_begin
    <2>3. serve_client' = [serve_client EXCEPT ![c] = q]
      BY <1>2, <2>2 DEF Server!finish
    <2>4. /\ q \in RouteRecords
          /\ q.phase = "answered" /\ q.tokens = serve_client[c].tokens
          /\ q.engine = serve_client[c].engine
      BY <1>2, PhasesAre, ZenonT(60) DEF RouteRecords
    <2>5. serve_client'[c] = q
      BY <1>2, <2>3
    <2>6. AtRest'
      BY <1>1, <1>2, <1>3, <1>8, <2>2 DEF AtRest, Fresh, Built, Routed
    <2>7. Len(serve_client[c].tokens) = serve_gen[c]
      BY <1>1, <1>2 DEF Routed
    <2> HIDE DEF q
    <2>8. Routed(c)'
      BY <1>2, <1>3, <1>8, <2>4, <2>5, <2>7 DEF Routed
    <2> QED
      BY <1>1, <1>3, <2>3, <2>4, <2>6, <2>8, OthersRest, ServeMoves DEF ServeInv, ServeTyped
  <1> QED
    BY <1>1, <1>2, <1>6, <1>7, <1>8 DEF Routed

\* A forward that raises leaves the scheduler as step_begin left it: the row is
\* not free, and nothing waits.
LEMMA StepRaisesInv ==
  ASSUME ServeInv, NEW c \in Clients, Server!step_raises(c)
  PROVE  ServeInv'
  <1> DEFINE code == IF serve_client[c].stream THEN 200 ELSE 500
             r == [serve_client[c] EXCEPT !.phase = "answered", !.tokens = <<>>, !.status = code,
                                          !.batch = {}]
  <1>1. serve_client[c].phase = "forward"
    BY DEF Server!step_raises
  <1>2. /\ serve_client[c] \in RouteRecords /\ serve_client \in [Clients -> RouteRecords]
        /\ serve_fails \in [build : Nat, forward : Nat]
    BY DEF ServeInv, ServeTyped
  <1>3. PICK w : Built(Empty, w, Empty)
    BY <1>1 DEF ServeInv, Routed
  <1>4. /\ UNCHANGED <<serve_boot, serve_engineRef, serve_engines, serve_gen, serve_aborted>>
        /\ serve_fails' = [serve_fails EXCEPT !.forward = @ + 1]
        /\ serve_client' = [Server!failed(c, 500) EXCEPT ![c].batch = {}]
    BY DEF Server!step_raises
  <1>5. serve_fails' \in [build : Nat, forward : Nat] /\ serve_fails'.forward # 0
    BY <1>2, <1>4
  <1>6. AtRest'
    BY <1>3, <1>4, <1>5 DEF AtRest, Stuck, Built
  <1>7. serve_client' = [serve_client EXCEPT ![c] = r]
    <2>1. Server!failed(c, 500) = [serve_client EXCEPT ![c] =
             [serve_client[c] EXCEPT !.phase = "answered", !.tokens = <<>>, !.status = code]]
      BY <1>2, ZenonT(60) DEF Server!failed
    <2> DEFINE q == [serve_client[c] EXCEPT !.phase = "answered", !.tokens = <<>>, !.status = code]
    <2>2. r = [q EXCEPT !.batch = {}]
      BY <1>2 DEF RouteRecords
    <2>3. Server!failed(c, 500) = [serve_client EXCEPT ![c] = q]
      BY <2>1
    <2> HIDE DEF r, q, code
    <2>4. \A f \in [Clients -> RouteRecords] : \A x :
            [[f EXCEPT ![c] = q] EXCEPT ![c].batch = x] = [f EXCEPT ![c] = [q EXCEPT !.batch = x]]
      OBVIOUS
    <2>5. serve_client' = [[serve_client EXCEPT ![c] = q] EXCEPT ![c].batch = {}]
      <3>1. serve_client' = [Server!failed(c, 500) EXCEPT ![c].batch = {}]
        BY <1>4
      <3> QED
        BY <2>3, <3>1, Zenon
    <2>6. serve_client' = [serve_client EXCEPT ![c] = [q EXCEPT !.batch = {}]]
      BY <1>2, <2>4, <2>5
    <2> QED
      BY <2>2, <2>6
  <1>8. r \in RouteRecords
    <2>1. /\ "answered" \in Phases /\ {} \in SUBSET Clients
          /\ <<>> \in Seq(Clients) /\ code \in {0, 200, 500, 503}
      BY PhasesAre
    <2> HIDE DEF code
    <2> QED
      BY <1>2, <2>1, ZenonT(60) DEF RouteRecords
  <1>9. /\ r.phase = "answered" /\ r.tokens = <<>> /\ r.engine = serve_client[c].engine
        /\ r.stream = serve_client[c].stream /\ r.status = code
    BY <1>2 DEF RouteRecords
  <1>10. UNCHANGED <<serve_boot, serve_engineRef, serve_gen, serve_aborted>>
    BY <1>4
  <1> HIDE DEF r
  <1> QED
    BY <1>1, <1>5, <1>6, <1>7, <1>8, <1>9, <1>10, RouteFails

\* The forward's token goes to the route's own client, and complete() frees the
\* row exactly when the request is done.
LEMMA StepEndInv ==
  ASSUME ServeInv, NEW c \in Clients, NEW eos \in SUBSET Clients, Server!step_end(c, eos)
  PROVE  ServeInv'
  <1>1. serve_client[c].phase = "forward"
    BY DEF Server!step_end
  <1>2. /\ Routed(c) /\ serve_client[c].engine = 1 /\ serve_client[c].batch = {c}
        /\ serve_client[c] \in RouteRecords /\ serve_gen[c] \in Nat
        /\ serve_client \in [Clients -> RouteRecords]
        /\ serve_gen \in [Clients -> Nat]
        /\ Len(serve_client[c].tokens) = serve_gen[c]
        /\ serve_client[c].tokens \in Seq({c})
        /\ serve_gen[c] \in 0 .. (MaxTokens - 1)
        /\ serve_client[c].budget = 1 + MaxTokens - serve_gen[c]
        /\ c \notin serve_aborted
    BY <1>1 DEF ServeInv, ServeTyped, Routed
  <1>3. UNCHANGED <<serve_boot, serve_engineRef, serve_fails>> /\ serve_fails'.forward = 0
    BY <1>1 DEF Server!step_end, ServeInv, Routed
  <1>4. MaxTokens \in Nat \ {0}
    BY ServicesAssumption DEF ServicesAssumption, Server!ServeAssumption
  <1> DEFINE n == serve_gen[c] + 1
             gen1 == [d \in Clients |-> IF d \in {c} THEN serve_gen[d] + 1 ELSE serve_gen[d]]
             done == serve_aborted \union eos \union {d \in {c} : gen1[d] >= MaxTokens}
             r == [serve_client[c] EXCEPT !.phase = "loop", !.batch = {},
                     !.budget = MaxTokens - serve_gen[c], !.tokens = @ \o <<c>>]
  <1>5. PICK working \in {{}, {c}} : Built(Empty, working, Empty)
    BY <1>1, <1>2 DEF Routed
  <1>6. /\ serve_engines[1] \in EngineRecords
        /\ serve_engines[1].pending = Empty /\ serve_engines[1].running = working
        /\ serve_engines[1].freeRows = Empty
    BY <1>5, TheEngine
  <1>7. /\ eos \subseteq {c}
        /\ serve_gen' = gen1
        /\ serve_aborted' = done
        /\ serve_engines' = [serve_engines EXCEPT
             ![1].running = {d \in @ \union {c} : Server!can_decode(d, done)},
             ![1].freeRows = @ \o Server!freed({c}, done)]
        /\ serve_client' = [serve_client EXCEPT ![c].phase = "loop", ![c].batch = {},
             ![c].budget = @ - 1, ![c].tokens = @ \o Server!collected(c, {c})]
    BY <1>2 DEF Server!step_end
  <1>8. Server!collected(c, {c}) = <<c>>
    <2>1. {d \in {c} : Server!Uid(d) = Server!Uid(c)} = {c}
      BY DEF Server!Uid
    <2> QED
      BY <2>1, SetToSeqOfOne DEF Server!collected
  <1>9. /\ serve_gen' \in [Clients -> Nat] /\ serve_gen'[c] = n /\ n \in 1 .. MaxTokens
        /\ \A d \in Clients \ {c} : serve_gen'[d] = serve_gen[d]
    BY <1>2, <1>4, <1>7
  <1>10. /\ serve_aborted' \in SUBSET Clients
         /\ \A d \in serve_aborted' : serve_gen'[d] >= 1
         /\ c \in serve_aborted' <=> c \in done
         /\ c \notin serve_aborted' => n < MaxTokens
    <2>1. \A d \in serve_aborted' : d \in serve_aborted \/ d = c
      BY <1>7
    <2>2. \A d \in serve_aborted : d # c /\ serve_gen[d] >= 1
      BY <1>2 DEF ServeInv
    <2>3. serve_aborted \in SUBSET Clients
      BY DEF ServeInv, ServeTyped
    <2>4. c \notin serve_aborted' => ~(n >= MaxTokens)
      BY <1>7, <1>9
    <2> QED
      BY <1>7, <1>9, <1>4, <2>1, <2>2, <2>3, <2>4
  <1> HIDE DEF gen1, done
  <1>11. serve_client' = [serve_client EXCEPT ![c] = r]
    <2>1. serve_client[c].budget - 1 = MaxTokens - serve_gen[c]
      BY <1>2, <1>4
    <2>2. serve_client' = [serve_client EXCEPT ![c].phase = "loop", ![c].batch = {},
             ![c].budget = @ - 1, ![c].tokens = @ \o <<c>>]
      BY <1>7, <1>8
    <2>3. serve_client' = [serve_client EXCEPT ![c].phase = "loop", ![c].batch = {},
             ![c].budget = MaxTokens - serve_gen[c], ![c].tokens = @ \o <<c>>]
      BY <1>2, <2>1, <2>2
    <2> QED
      BY <1>2, <2>3
  <1>12. /\ serve_client[c].tokens \o <<c>> \in Seq({c})
         /\ Len(serve_client[c].tokens \o <<c>>) = n
    BY <1>2
  <1>13. /\ r \in RouteRecords
         /\ r.phase = "loop" /\ r.budget = MaxTokens - serve_gen[c]
         /\ r.tokens = serve_client[c].tokens \o <<c>> /\ r.engine = serve_client[c].engine
    <2>1. "loop" \in Phases /\ MaxTokens - serve_gen[c] \in Nat /\ {} \in SUBSET Clients
      BY <1>2, <1>4, PhasesAre
    <2>2. serve_client[c].tokens \o <<c>> \in Seq(Clients)
      BY <1>2 DEF RouteRecords
    <2>3. r \in RouteRecords
      BY <1>2, <2>1, <2>2, ZenonT(60) DEF RouteRecords
    <2> QED
      BY <1>2, <2>3 DEF RouteRecords
  <1>14. serve_client'[c] = r
    BY <1>2, <1>11
  <1>15. Server!Cardinality({c} \intersect done) = IF c \in done THEN 1 ELSE 0
    BY CardinalityOfOne
  <1>16. CASE c \in done
    <2> DEFINE e == [serve_engines[1] EXCEPT !.running = {}, !.freeRows = Only(1)]
    <2>1. {d \in working \union {c} : Server!can_decode(d, done)} = {}
      BY <1>16 DEF Server!can_decode
    <2>2. Empty \o Server!freed({c}, done) = Only(1)
      <3>1. Server!Cardinality({c} \intersect done) = 1
        BY <1>15, <1>16
      <3>2. Server!freed({c}, done) = [i \in 1 .. 1 |-> 1]
        BY <3>1 DEF Server!freed
      <3>3. [i \in 1 .. 1 |-> 1] = Only(1)
        BY DEF Only
      <3> QED
        BY <3>2, <3>3, QueueOfOne
    <2>3. serve_engines' = [serve_engines EXCEPT ![1].running = {}, ![1].freeRows = Only(1)]
      BY <1>6, <1>7, <2>1, <2>2
    <2>4. /\ serve_engines' = [serve_engines EXCEPT ![1] = e]
          /\ serve_engineRef = 1 /\ serve_engineRef' = 1
      BY <1>3, <1>5, <2>3 DEF Built
    <2>5. /\ e \in EngineRecords
          /\ e.pending = Empty /\ e.running = {} /\ e.freeRows = Only(1)
      BY <1>6, QueueOfOne DEF EngineRecords
    <2>6. Built(Empty, {}, Only(1))'
      <3> HIDE DEF e
      <3> QED
        BY <1>5, <2>4, <2>5, EngineMoves
    <2>7. n >= 1
      BY <1>4, <1>9
    <2> HIDE DEF r, n
    <2>8. Routed(c)'
      BY <1>2, <1>3, <1>9, <1>12, <1>13, <1>14, <2>4, <2>6, <2>7 DEF Routed
    <2> QED
      BY <1>1, <1>3, <1>9, <1>10, <1>11, <1>13, <2>4, <2>8, OthersRest, ServeMoves
      DEF ServeInv, ServeTyped
  <1>17. CASE c \notin done
    <2> DEFINE e == [serve_engines[1] EXCEPT !.running = {c}, !.freeRows = Empty]
    <2>1. {d \in working \union {c} : Server!can_decode(d, done)} = {c}
      BY <1>17 DEF Server!can_decode
    <2>2. Empty \o Server!freed({c}, done) = Empty
      <3>1. Server!Cardinality({c} \intersect done) = 0
        BY <1>15, <1>17
      <3>2. Server!freed({c}, done) = [i \in 1 .. 0 |-> 1]
        BY <3>1 DEF Server!freed
      <3>3. [i \in 1 .. 0 |-> 1] = Empty
        BY DEF Empty
      <3> QED
        BY <3>2, <3>3, QueueOfOne
    <2>3. serve_engines' = [serve_engines EXCEPT ![1].running = {c}, ![1].freeRows = Empty]
      BY <1>6, <1>7, <2>1, <2>2
    <2>4. /\ serve_engines' = [serve_engines EXCEPT ![1] = e]
          /\ serve_engineRef = 1 /\ serve_engineRef' = 1
      BY <1>3, <1>5, <2>3 DEF Built
    <2>5. /\ e \in EngineRecords
          /\ e.pending = Empty /\ e.running = {c} /\ e.freeRows = Empty
      BY <1>6, QueueOfOne DEF EngineRecords
    <2>6. Built(Empty, {c}, Empty)'
      <3> HIDE DEF e
      <3> QED
        BY <1>5, <2>4, <2>5, EngineMoves
    <2>7. n \in 1 .. (MaxTokens - 1) /\ MaxTokens - serve_gen[c] = 1 + MaxTokens - n
      <3>1. n < MaxTokens
        BY <1>10, <1>17
      <3> QED
        BY <1>2, <1>4, <3>1, SMTT(30)
    <2>8. c \notin serve_aborted'
      BY <1>10, <1>17
    <2> HIDE DEF r, n
    <2>9. Routed(c)'
      BY <1>2, <1>3, <1>9, <1>12, <1>13, <1>14, <2>4, <2>6, <2>7, <2>8 DEF Routed
    <2> QED
      BY <1>1, <1>3, <1>9, <1>10, <1>11, <1>13, <2>4, <2>9, OthersRest, ServeMoves
      DEF ServeInv, ServeTyped
  <1> QED
    BY <1>16, <1>17

\* Every step keeps the invariant.
LEMMA ServeStepInv == ServeInv /\ Server!Next => ServeInv'
  BY ReceiveInv, HolderInv, BuildInv, BuildFailsInv, AddRequestInv, GenerateInv, WalkInv,
     StepBeginInv, StepEndInv, StepRaisesInv DEF Server!Next, Server!ThreadNext

\* What OneThreadServes promises follows from where the one route is.
LEMMA ServeInvServes ==
  ServeInv => /\ Server!TypeOK
              /\ Server!OwnTokensOnly
              /\ Server!AnswerComplete
              /\ Server!OneEngine
              /\ Server!IdleUnlessAForwardRaised
              /\ Server!NoneServedAfterAFailure
  <1> SUFFICES ASSUME ServeInv
               PROVE  /\ Server!TypeOK /\ Server!OwnTokensOnly /\ Server!AnswerComplete
                      /\ Server!OneEngine /\ Server!IdleUnlessAForwardRaised
                      /\ Server!NoneServedAfterAFailure
    OBVIOUS
  <1>1. AtRest \/ \E p, w, f : Built(p, w, f)
    <2>1. CASE \A c \in Clients : ~Server!Active(c)
      BY <2>1 DEF ServeInv
    <2>2. ASSUME NEW c \in Clients, Server!Active(c)
          PROVE  AtRest \/ \E p, w, f : Built(p, w, f)
      <3>1. serve_client[c].phase \in {"holder", "build", "admit", "generate", "loop", "forward"}
        BY <2>2 DEF Server!Active, ServeInv, ServeTyped, RouteRecords, Phases
      <3> QED
        BY <3>1 DEF ServeInv, Routed, AtRest, Fresh, Stuck
    <2> QED
      BY <2>1, <2>2
  <1>2. /\ serve_engineRef \in {0, 1} /\ Len(serve_engines) = serve_engineRef
        /\ serve_engineRef = 1 => serve_engines[1] \in EngineRecords
    <2>1. CASE NoneBuilt
      BY <2>1 DEF NoneBuilt
    <2>2. ASSUME NEW p, NEW w, NEW f, Built(p, w, f)
          PROVE  serve_engineRef = 1 /\ Len(serve_engines) = 1 /\ serve_engines[1] \in EngineRecords
      BY <2>2, TheEngine DEF Built
    <2> QED
      BY <1>1, <2>1, <2>2 DEF AtRest, Fresh, Stuck
  <1>3. Server!TypeOK
    <2>1. \A c \in Clients : serve_client[c] \in RouteRecords /\ serve_client[c].engine \in {0, serve_engineRef}
      BY DEF ServeInv, ServeTyped, Routed
    <2>2. \A i \in 1 .. Len(serve_engines) : serve_engines[i] \in EngineRecords
      BY <1>2
    <2>3. serve_boot \in -1 .. (6 + 1)
      BY DEF ServeInv, ServeTyped
    <2> QED
      BY <1>2, <2>1, <2>2, <2>3 DEF Server!TypeOK, RouteRecords, EngineRecords
  <1>4. Server!OwnTokensOnly
    <2>1. \A c \in Clients : serve_client[c].tokens \in Seq({c})
      BY DEF ServeInv, Routed
    <2>2. \A S : \A s \in Seq(S) : \A i \in 1 .. Len(s) : s[i] \in S
      OBVIOUS
    <2>3. ASSUME NEW c \in Clients, NEW i \in 1 .. Len(serve_client[c].tokens)
          PROVE  serve_client[c].tokens[i] \in {c}
      BY <2>1, <2>2
    <2> QED
      BY <2>3 DEF Server!OwnTokensOnly
  <1>5. Server!AnswerComplete
    BY DEF ServeInv, Routed, Server!AnswerComplete
  <1>6. Server!OneEngine
    BY <1>2 DEF Server!OneEngine
  <1>7. Server!IdleUnlessAForwardRaised
    BY <1>2, QueueOfOne DEF Server!IdleUnlessAForwardRaised, ServeInv, AtRest, Fresh, Stuck,
        NoneBuilt, Built, Empty, Server!Rows
  <1>8. Server!NoneServedAfterAFailure
    <2> SUFFICES ASSUME serve_fails.forward > 0 PROVE Server!NoneServedAfterAFailure
      BY DEF Server!NoneServedAfterAFailure
    <2>1. \A c \in Clients : serve_client[c].phase \notin {"generate", "loop", "forward"}
      <3>1. \A c \in Clients : Routed(c) /\ serve_fails.forward # 0
        BY DEF ServeInv
      <3> QED
        BY <3>1 DEF Routed
    <2>2. AtRest
      <3>1. CASE \A c \in Clients : ~Server!Active(c)
        BY <3>1 DEF ServeInv
      <3>2. ASSUME NEW c \in Clients, Server!Active(c) PROVE AtRest
        <4>1. serve_client[c].phase \in {"holder", "build", "admit"}
          BY <2>1, <3>2 DEF Server!Active, ServeInv, ServeTyped, RouteRecords, Phases
        <4> QED
          BY <4>1 DEF ServeInv, Routed, AtRest
      <3> QED
        BY <3>1, <3>2
    <2>3. Len(serve_engines) = 1 /\ serve_engines[1].freeRows = <<>>
      BY <2>2 DEF AtRest, Fresh, Stuck, Built, Empty
    <2> QED
      BY <2>1, <2>3 DEF Server!NoneServedAfterAFailure
  <1> QED
    BY <1>3, <1>4, <1>5, <1>6, <1>7, <1>8

\* Every state of a suite that runs the one-thread server satisfies its invariant.
LEMMA ServeInvariant == ServicesSpec => [](service = "serve" => ServeInv)
  <1> DEFINE P == service = "serve" => ServeInv
  <1>1. ServicesInit => P
    BY ServeInitInv DEF ServicesInit
  <1>2. P /\ [ServicesNext]_serviceVars => P'
    <2> SUFFICES ASSUME P, [ServicesNext]_serviceVars, service' = "serve" PROVE ServeInv'
      OBVIOUS
    <2>1. service = "serve" /\ ServeInv
      BY DEF ServicesNext, StepServe, StepDaemon, StepLoader, ServicesStop, serviceVars
    <2>2. CASE StepServe
      BY <2>1, <2>2, ServeStepInv DEF StepServe
    <2>3. CASE UNCHANGED serveVars
      <3>1. UNCHANGED <<serve_boot, serve_engineRef, serve_engines, serve_client, serve_gen,
                        serve_aborted, serve_fails>>
        BY <2>3 DEF serveVars
      <3>2. ServeTyped' /\ (AtRest' <=> AtRest)
        BY <2>1, <3>1 DEF ServeInv, ServeTyped, AtRest, Fresh, Stuck, NoneBuilt, Built
      <3>3. ASSUME NEW c \in Clients PROVE Routed(c)' /\ (Server!Active(c)' <=> Server!Active(c))
        <4>1. Routed(c)
          BY <2>1 DEF ServeInv
        <4> QED
          BY <3>1, <4>1 DEF Routed, AtRest, Fresh, Stuck, NoneBuilt, Built, Server!Active
      <3> QED
        BY <2>1, <3>1, <3>2, <3>3 DEF ServeInv
    <2> QED
      BY <2>2, <2>3 DEF ServicesNext, StepDaemon, StepLoader, ServicesStop, serviceVars
  <1> QED
    BY <1>1, <1>2, PTL DEF ServicesSpec

(***************************************************************************)
(* With one route thread, for any clients, output length and number of     *)
(* failing builds and forwards: a client answered with a 200 was sent the  *)
(* tokens of its own prompt, all that were sampled, by the one engine.     *)
(* The engine is idle with its row free whenever no route is active, until *)
(* a forward raises; then its row stays taken and no request is run again  *)
(* (server/launch.py, server/generation.py).                               *)
(***************************************************************************)
THEOREM OneThreadAlwaysServes == ServicesSpec => []OneThreadServes
  <1>1. (service = "serve" => ServeInv) => OneThreadServes
    BY ServeInvServes DEF OneThreadServes
  <1> QED
    BY <1>1, ServeInvariant, PTL

--------------------------------------------------------------------------------
\* The files the kernel cache knows: modules under their key, and temporaries.
Keys == [{"cxx", "arch", "src"} -> {0, 1}]
Modules == {<<"cpu_moe", key>> : key \in Keys}
Temporaries == {<<"tmp", n>> : n \in Nat}
FileRecords == [by : Loaders, from : Keys, whole : BOOLEAN]
LoaderRecords ==
  [pc : Kernel!Pcs, kernel : {"none", "cpu_moe"},
   path : {<<"none", 0>>} \union Modules, target : {<<"none", 0>>} \union Temporaries,
   got : {"none", "module", "stale", "CompileFailed"}]

KernelTyped ==
  /\ kernel_world \in [{"oneapi", "ze", "isa", "cxx", "arch", "src"} -> {0, 1}]
  /\ kernel_thread \in [Loaders -> LoaderRecords]
  /\ kernel_disk = [f \in DOMAIN kernel_disk |-> kernel_disk[f]]
  /\ DOMAIN kernel_disk \subseteq Modules \union Temporaries
  /\ \A f \in DOMAIN kernel_disk : kernel_disk[f] \in FileRecords
  /\ kernel_nextTmp \in Nat
  /\ kernel_crashes \in 0 .. MaxCrashes

\* What has its final name is whole, and names of temporaries are not reused.
FilesAreSound ==
  /\ \A f \in DOMAIN kernel_disk \intersect Modules : kernel_disk[f].whole
  /\ \A f \in DOMAIN kernel_disk \intersect Temporaries : f[2] < kernel_nextTmp

Compiling(t) == kernel_thread[t].pc \in {"compile", "link", "install"}

\* A thread that compiles has a temporary of its own, complete before it is
\* renamed; a thread about to load has a file to load.
HasItsFile(t) ==
  LET k == kernel_thread[t] IN
  /\ k.pc \in {"lookup", "build", "compile", "link", "install", "load"} =>
       k.kernel = "cpu_moe" /\ k.path \in Modules
  /\ Compiling(t) => k.target \in Temporaries /\ k.target[2] < kernel_nextTmp
  /\ k.pc \in {"link", "install"} =>
       k.target \in DOMAIN kernel_disk /\ kernel_disk[k.target].by = t
  /\ k.pc = "install" => kernel_disk[k.target].whole
  /\ k.pc = "load" => k.path \in DOMAIN kernel_disk
  /\ (k.got # "none") <=> (k.pc = "over")
TemporariesAreOwn ==
  \A t, u \in Loaders : Compiling(t) /\ Compiling(u)
                        /\ kernel_thread[t].target = kernel_thread[u].target => t = u

\* While no process has died a temporary belongs to a thread that will rename it.
TemporariesAreOwned ==
  kernel_crashes = 0 =>
    \A f \in DOMAIN kernel_disk \intersect Temporaries :
      \E t \in Loaders : /\ kernel_thread[t].pc \in {"link", "install"}
                         /\ kernel_thread[t].target = f

KernelInv ==
  /\ KernelTyped
  /\ FilesAreSound
  /\ \A t \in Loaders : HasItsFile(t)
  /\ TemporariesAreOwn
  /\ TemporariesAreOwned

--------------------------------------------------------------------------------
\* The name of a module is no temporary's.
LEMMA NamesDiffer ==
  /\ \A f \in Modules : Kernel!InstalledPath(f) /\ f \notin Temporaries
  /\ \A f \in Temporaries : ~Kernel!InstalledPath(f)
  BY DEF Modules, Temporaries, Kernel!InstalledPath

\* Nothing is compiled or wanted at first.
LEMMA KernelInitInv == Kernel!Init => KernelInv
  <1> SUFFICES ASSUME Kernel!Init PROVE KernelInv
    OBVIOUS
  <1>1. KernelTyped
    <2>1. kernel_thread \in [Loaders -> LoaderRecords]
      BY DEF Kernel!Init, Kernel!Idle, LoaderRecords, Kernel!Pcs
    <2>2. kernel_crashes \in 0 .. MaxCrashes
      BY StartupAssumption DEF StartupAssumption, Kernel!KernelCacheAssumption, Kernel!Init
    <2>3. DOMAIN kernel_disk = {} /\ kernel_disk = [f \in DOMAIN kernel_disk |-> kernel_disk[f]]
      BY DEF Kernel!Init
    <2> QED
      BY <2>1, <2>2, <2>3 DEF Kernel!Init, Kernel!InitWorld, KernelTyped
  <1>2. FilesAreSound /\ TemporariesAreOwn /\ TemporariesAreOwned
    BY DEF Kernel!Init, Kernel!Idle, FilesAreSound, TemporariesAreOwn, TemporariesAreOwned, Compiling
  <1>3. \A t \in Loaders : HasItsFile(t)
    BY DEF Kernel!Init, Kernel!Idle, HasItsFile, Compiling
  <1> QED
    BY <1>1, <1>2, <1>3 DEF KernelInv

\* A step of one thread that leaves the files alone has only its own record to
\* account for.
LEMMA LoaderMoves ==
  ASSUME KernelInv, NEW t \in Loaders, NEW r \in LoaderRecords,
         kernel_thread' = [kernel_thread EXCEPT ![t] = r],
         UNCHANGED <<kernel_world, kernel_disk, kernel_crashes>>,
         kernel_nextTmp' \in Nat, kernel_nextTmp <= kernel_nextTmp',
         HasItsFile(t)',
         kernel_thread[t].pc \notin {"link", "install"},
         r.pc = "compile" => r.target[2] = kernel_nextTmp,
         r.pc \notin {"link", "install"}
  PROVE  KernelInv'
  <1>1. /\ kernel_thread'[t] = r
        /\ \A u \in Loaders \ {t} : kernel_thread'[u] = kernel_thread[u]
    BY DEF KernelInv, KernelTyped
  <1>2. KernelTyped'
    BY DEF KernelInv, KernelTyped
  <1>3. ASSUME NEW u \in Loaders \ {t} PROVE HasItsFile(u)'
    <2>1. HasItsFile(u)
      BY DEF KernelInv
    <2>2. kernel_thread[u].target \in Temporaries => kernel_thread[u].target[2] \in Nat
      BY DEF Temporaries
    <2> QED
      BY <1>1, <2>1, <2>2 DEF HasItsFile, Compiling, KernelInv, KernelTyped
  <1>4. FilesAreSound'
    <2>1. \A f \in Temporaries : f[2] \in Nat
      BY DEF Temporaries
    <2> QED
      BY <2>1 DEF KernelInv, KernelTyped, FilesAreSound
  <1>5. TemporariesAreOwn'
    <2>1. \A u \in Loaders : Compiling(u) =>
            kernel_thread[u].target \in Temporaries /\ kernel_thread[u].target[2] < kernel_nextTmp
      BY DEF KernelInv, HasItsFile
    <2>2. \A u \in Loaders \ {t} : Compiling(u)' => Compiling(u)
      BY <1>1 DEF Compiling
    <2>3. Compiling(t)' => r.target[2] = kernel_nextTmp
      BY <1>1 DEF Compiling
    <2>4. kernel_nextTmp \in Nat
      BY DEF KernelInv, KernelTyped
    <2>5. \A u \in Loaders \ {t} : Compiling(t)' /\ Compiling(u)' => kernel_thread[u].target # r.target
      BY <2>1, <2>2, <2>3, <2>4
    <2> QED
      BY <1>1, <2>2, <2>5 DEF TemporariesAreOwn, KernelInv
  <1>6. TemporariesAreOwned'
    BY <1>1 DEF KernelInv, TemporariesAreOwned
  <1> QED
    BY <1>2, <1>3, <1>4, <1>5, <1>6 DEF KernelInv

\* The places of a loading thread.
LEMMA PcsAre ==
  {"idle", "lookup", "build", "compile", "link", "install", "load", "over"} \subseteq Kernel!Pcs
  BY DEF Kernel!Pcs

\* The key under the inputs as they are, and the path it gives.
LEMMA KeyIsAKey ==
  KernelTyped => /\ Kernel!Restrict(kernel_world, Kernel!Legs("cpu_moe")) \in Keys
                 /\ Kernel!cache_key("cpu_moe") \in Modules
  <1> SUFFICES ASSUME KernelTyped
               PROVE  /\ Kernel!Restrict(kernel_world, Kernel!Legs("cpu_moe")) \in Keys
                      /\ Kernel!cache_key("cpu_moe") \in Modules
    OBVIOUS
  <1>1. Kernel!Restrict(kernel_world, Kernel!Legs("cpu_moe")) \in Keys
    BY DEF KernelTyped, Kernel!Restrict, Kernel!Legs, Keys
  <1> QED
    BY <1>1 DEF Kernel!cache_key, Modules

\* A load starts with the key, and no compiler is missing.
LEMMA WantInv ==
  ASSUME KernelInv, NEW t \in Loaders, Kernel!want(t)
  PROVE  KernelInv'
  <1> DEFINE r == [Kernel!Idle EXCEPT !.kernel = "cpu_moe", !.pc = "lookup",
                                      !.path = Kernel!cache_key("cpu_moe")]
  <1>1. Kernel!find_compiler("cpu_moe") = "found"
    BY DEF Kernel!find_compiler
  <1>2. /\ kernel_thread' = [kernel_thread EXCEPT ![t] = r]
        /\ kernel_thread[t].pc \in {"idle", "over"}
        /\ UNCHANGED <<kernel_world, kernel_disk, kernel_nextTmp, kernel_crashes>>
    BY <1>1 DEF Kernel!want
  <1>3. /\ r \in LoaderRecords
        /\ r.kernel = "cpu_moe" /\ r.pc = "lookup" /\ r.path \in Modules /\ r.got = "none"
    <2>1. Kernel!cache_key("cpu_moe") \in Modules
      BY KeyIsAKey DEF KernelInv
    <2>2. "lookup" \in Kernel!Pcs
      BY PcsAre
    <2> QED
      BY <2>1, <2>2 DEF LoaderRecords, Kernel!Idle
  <1>4. kernel_thread'[t] = r
    BY <1>2 DEF KernelInv, KernelTyped
  <1> HIDE DEF r
  <1>5. HasItsFile(t)'
    BY <1>3, <1>4 DEF HasItsFile, Compiling
  <1>6. kernel_nextTmp' \in Nat /\ kernel_nextTmp <= kernel_nextTmp'
    BY <1>2 DEF KernelInv, KernelTyped
  <1> QED
    BY <1>2, <1>3, <1>5, <1>6, LoaderMoves

\* What is there is loaded, what is not is built.
LEMMA LookupInv ==
  ASSUME KernelInv, NEW t \in Loaders, Kernel!lookup(t)
  PROVE  KernelInv'
  <1> DEFINE next == IF kernel_thread[t].path \in DOMAIN kernel_disk THEN "load" ELSE "build"
             r == [kernel_thread[t] EXCEPT !.pc = next]
  <1>1. /\ kernel_thread[t].pc = "lookup"
        /\ UNCHANGED <<kernel_world, kernel_disk, kernel_nextTmp, kernel_crashes>>
        /\ kernel_thread' = [kernel_thread EXCEPT ![t] = r]
    BY DEF Kernel!lookup, Kernel!goto, Kernel!Exists, KernelInv, KernelTyped
  <1>2. HasItsFile(t) /\ kernel_thread[t] \in LoaderRecords
    BY DEF KernelInv, KernelTyped
  <1>3. /\ r \in LoaderRecords
        /\ r.kernel = "cpu_moe" /\ r.path \in Modules /\ r.got = "none" /\ r.pc = next
        /\ r.path = kernel_thread[t].path
    <2>1. next \in Kernel!Pcs
      BY PcsAre
    <2>2. /\ kernel_thread[t].kernel = "cpu_moe" /\ kernel_thread[t].path \in Modules
          /\ kernel_thread[t].got = "none"
      BY <1>1, <1>2 DEF HasItsFile
    <2> HIDE DEF next
    <2>3. r \in LoaderRecords
      BY <1>2, <2>1 DEF LoaderRecords
    <2> QED
      BY <1>2, <2>2, <2>3 DEF LoaderRecords
  <1>4. kernel_thread'[t] = r
    BY <1>1 DEF KernelInv, KernelTyped
  <1> HIDE DEF r
  <1>5. HasItsFile(t)'
    BY <1>1, <1>3, <1>4 DEF HasItsFile, Compiling
  <1>6. kernel_nextTmp' \in Nat /\ kernel_nextTmp <= kernel_nextTmp'
    BY <1>1 DEF KernelInv, KernelTyped
  <1>7. next \notin {"link", "install", "compile"}
    OBVIOUS
  <1> HIDE DEF next
  <1> QED
    BY <1>1, <1>3, <1>5, <1>6, <1>7, LoaderMoves

\* A build takes a temporary nobody has had.
LEMMA BuildFileInv ==
  ASSUME KernelInv, NEW t \in Loaders, Kernel!build(t)
  PROVE  KernelInv'
  <1> DEFINE r == [kernel_thread[t] EXCEPT !.pc = "compile", !.target = <<"tmp", kernel_nextTmp>>]
  <1>1. kernel_thread[t].pc = "build" /\ HasItsFile(t) /\ kernel_thread[t] \in LoaderRecords
    BY DEF Kernel!build, KernelInv, KernelTyped
  <1>2. kernel_thread[t].kernel = "cpu_moe" /\ kernel_thread[t].path \in Modules
        /\ kernel_thread[t].got = "none"
    BY <1>1 DEF HasItsFile
  <1>3. Kernel!find_compiler("cpu_moe") = "found" /\ Kernel!Target(t) = <<"tmp", kernel_nextTmp>>
    BY <1>2 DEF Kernel!find_compiler, Kernel!Target, Kernel!TmpName
  <1>4. /\ UNCHANGED <<kernel_world, kernel_disk, kernel_crashes>>
        /\ kernel_nextTmp' = kernel_nextTmp + 1
        /\ kernel_thread' = [kernel_thread EXCEPT ![t].pc = "compile", ![t].target = Kernel!Target(t)]
    BY <1>2, <1>3 DEF Kernel!build
  <1>5. kernel_thread' = [kernel_thread EXCEPT ![t] = r]
    BY <1>3, <1>4 DEF KernelInv, KernelTyped
  <1>6. kernel_nextTmp \in Nat
    BY DEF KernelInv, KernelTyped
  <1>7. /\ <<"tmp", kernel_nextTmp>> \in Temporaries
        /\ <<"tmp", kernel_nextTmp>>[2] = kernel_nextTmp
        /\ "compile" \in Kernel!Pcs
    BY <1>6, PcsAre DEF Temporaries
  <1>8. /\ r \in LoaderRecords
        /\ r.pc = "compile" /\ r.target = <<"tmp", kernel_nextTmp>>
        /\ r.kernel = "cpu_moe" /\ r.path \in Modules /\ r.got = "none"
    <2> DEFINE tmp == <<"tmp", kernel_nextTmp>>
    <2>1. tmp \in Temporaries
      BY <1>7
    <2> HIDE DEF tmp
    <2>2. r \in LoaderRecords
      BY <1>1, <1>7, <2>1 DEF LoaderRecords
    <2> QED
      BY <1>1, <1>2, <2>2 DEF LoaderRecords
  <1>9. kernel_thread'[t] = r
    BY <1>5 DEF KernelInv, KernelTyped
  <1>10. kernel_nextTmp' \in Nat /\ kernel_nextTmp <= kernel_nextTmp' /\ kernel_nextTmp < kernel_nextTmp'
    BY <1>4, <1>6
  <1> HIDE DEF r
  <1>11. HasItsFile(t)'
    <2>1. r.target \in Temporaries /\ r.target[2] < kernel_nextTmp'
      BY <1>7, <1>8, <1>10
    <2> QED
      BY <1>8, <1>9, <2>1 DEF HasItsFile, Compiling
  <1>12. r.target[2] = kernel_nextTmp
    BY <1>7, <1>8
  <1> QED
    BY <1>1, <1>4, <1>5, <1>8, <1>10, <1>11, <1>12, LoaderMoves

\* A module is loaded, or a stale one; neither a partial nor a missing file.
LEMMA LoadInv ==
  ASSUME KernelInv, NEW t \in Loaders, Kernel!load(t)
  PROVE  KernelInv'
  <1>1. /\ kernel_thread[t].pc = "load" /\ HasItsFile(t)
        /\ UNCHANGED <<kernel_world, kernel_disk, kernel_nextTmp, kernel_crashes>>
    BY DEF Kernel!load, KernelInv
  <1>2. /\ kernel_thread[t].path \in DOMAIN kernel_disk
        /\ kernel_disk[kernel_thread[t].path].whole
    BY <1>1 DEF HasItsFile, KernelInv, FilesAreSound
  <1>3. PICK got \in {"module", "stale"} :
          kernel_thread' = [kernel_thread EXCEPT ![t] = [Kernel!Idle EXCEPT !.pc = "over", !.got = got]]
    BY <1>2 DEF Kernel!load, Kernel!raise, Kernel!Exists
  <1> DEFINE r == [Kernel!Idle EXCEPT !.pc = "over", !.got = got]
  <1>4. r \in LoaderRecords /\ r.pc = "over" /\ r.got # "none"
    <2>1. "over" \in Kernel!Pcs
      BY PcsAre
    <2> QED
      BY <2>1 DEF LoaderRecords, Kernel!Idle
  <1>5. kernel_thread'[t] = r
    BY <1>3 DEF KernelInv, KernelTyped
  <1> HIDE DEF r
  <1>6. HasItsFile(t)'
    BY <1>4, <1>5 DEF HasItsFile, Compiling
  <1>7. kernel_nextTmp' \in Nat /\ kernel_nextTmp <= kernel_nextTmp'
    BY <1>1 DEF KernelInv, KernelTyped
  <1> QED
    BY <1>1, <1>3, <1>4, <1>6, <1>7, LoaderMoves DEF r

\* A step of a compiling thread to another place of its compilation.
LEMMA PlaceMoves ==
  ASSUME KernelTyped, NEW t \in Loaders, NEW place \in Kernel!Pcs,
         kernel_thread' = [kernel_thread EXCEPT ![t].pc = place]
  PROVE  /\ kernel_thread' \in [Loaders -> LoaderRecords]
         /\ kernel_thread'[t].pc = place
         /\ kernel_thread'[t].kernel = kernel_thread[t].kernel
         /\ kernel_thread'[t].path = kernel_thread[t].path
         /\ kernel_thread'[t].target = kernel_thread[t].target
         /\ kernel_thread'[t].got = kernel_thread[t].got
         /\ \A u \in Loaders \ {t} : kernel_thread'[u] = kernel_thread[u]
  <1> DEFINE r == [kernel_thread[t] EXCEPT !.pc = place]
  <1>1. kernel_thread[t] \in LoaderRecords /\ kernel_thread' = [kernel_thread EXCEPT ![t] = r]
    BY DEF KernelTyped
  <1>2. /\ r \in LoaderRecords
        /\ r.pc = place /\ r.kernel = kernel_thread[t].kernel /\ r.path = kernel_thread[t].path
        /\ r.target = kernel_thread[t].target /\ r.got = kernel_thread[t].got
    BY <1>1 DEF LoaderRecords
  <1> HIDE DEF r
  <1>3. kernel_thread'[t] = r /\ \A u \in Loaders \ {t} : kernel_thread'[u] = kernel_thread[u]
    BY <1>1 DEF KernelTyped
  <1>4. kernel_thread' \in [Loaders -> LoaderRecords]
    BY <1>1, <1>2 DEF KernelTyped
  <1> QED
    BY <1>2, <1>3, <1>4

\* The compiler starts its output, which no other thread has.
LEMMA CompileBeginsInv ==
  ASSUME KernelInv, NEW t \in Loaders, Kernel!compile_begins(t)
  PROVE  KernelInv'
  <1> DEFINE tmp == kernel_thread[t].target
             file == [by |-> t, from |-> Kernel!Restrict(kernel_world, Kernel!Legs("cpu_moe")),
                      whole |-> FALSE]
  <1>1. /\ kernel_thread[t].pc = "compile" /\ HasItsFile(t) /\ Compiling(t)
        /\ UNCHANGED <<kernel_world, kernel_nextTmp, kernel_crashes>>
        /\ kernel_thread' = [kernel_thread EXCEPT ![t].pc = "link"]
    BY DEF Kernel!compile_begins, Kernel!goto, KernelInv, Compiling
  <1>2. tmp \in Temporaries /\ tmp[2] < kernel_nextTmp /\ tmp \notin Modules
        /\ kernel_thread[t].kernel = "cpu_moe"
    BY <1>1, NamesDiffer DEF HasItsFile
  <1>3. kernel_disk' = [g \in DOMAIN kernel_disk \union {tmp} |->
                          IF g = tmp THEN file ELSE kernel_disk[g]]
    BY <1>2 DEF Kernel!compile_begins, Kernel!Writing
  <1>4. file \in FileRecords /\ file.by = t
    BY KeyIsAKey DEF KernelInv, FileRecords
  <1>5. /\ kernel_thread' \in [Loaders -> LoaderRecords]
        /\ kernel_thread'[t].pc = "link"
        /\ kernel_thread'[t].kernel = kernel_thread[t].kernel
        /\ kernel_thread'[t].path = kernel_thread[t].path
        /\ kernel_thread'[t].target = tmp
        /\ kernel_thread'[t].got = kernel_thread[t].got
        /\ \A u \in Loaders \ {t} : kernel_thread'[u] = kernel_thread[u]
    BY <1>1, PcsAre, PlaceMoves DEF KernelInv
  <1> HIDE DEF tmp, file
  <1>6. /\ DOMAIN kernel_disk' = DOMAIN kernel_disk \union {tmp}
        /\ kernel_disk'[tmp] = file
        /\ \A f \in DOMAIN kernel_disk \ {tmp} : kernel_disk'[f] = kernel_disk[f]
        /\ kernel_disk' = [f \in DOMAIN kernel_disk' |-> kernel_disk'[f]]
    BY <1>3
  <1>7. KernelTyped'
    BY <1>1, <1>2, <1>4, <1>5, <1>6 DEF KernelInv, KernelTyped
  <1>8. FilesAreSound'
    BY <1>1, <1>2, <1>6 DEF KernelInv, FilesAreSound
  <1>9. HasItsFile(t)'
    BY <1>1, <1>2, <1>4, <1>5, <1>6 DEF HasItsFile, Compiling
  <1>10. ASSUME NEW u \in Loaders \ {t} PROVE HasItsFile(u)'
    <2>1. HasItsFile(u)
      BY DEF KernelInv
    <2>2. Compiling(u) => kernel_thread[u].target # tmp
      BY <1>1 DEF KernelInv, TemporariesAreOwn, tmp
    <2>3. kernel_thread'[u] = kernel_thread[u]
      BY <1>5
    <2>4. Compiling(u)' <=> Compiling(u)
      BY <2>3 DEF Compiling
    <2> QED
      BY <1>1, <1>6, <2>1, <2>2, <2>3, <2>4 DEF HasItsFile, Compiling
  <1>11. TemporariesAreOwn'
    BY <1>1, <1>5 DEF KernelInv, TemporariesAreOwn, Compiling, tmp
  <1>12. TemporariesAreOwned'
    <2> SUFFICES ASSUME kernel_crashes = 0, NEW f \in DOMAIN kernel_disk' \intersect Temporaries
                 PROVE  \E u \in Loaders : /\ kernel_thread'[u].pc \in {"link", "install"}
                                           /\ kernel_thread'[u].target = f
      BY <1>1 DEF TemporariesAreOwned
    <2>1. CASE f = tmp
      BY <1>5, <2>1
    <2>2. CASE f # tmp
      <3>1. PICK u \in Loaders : /\ kernel_thread[u].pc \in {"link", "install"}
                                 /\ kernel_thread[u].target = f
        BY <1>6, <2>2 DEF KernelInv, TemporariesAreOwned
      <3> QED
        BY <1>1, <1>5, <3>1
    <2> QED
      BY <2>1, <2>2
  <1> QED
    BY <1>7, <1>8, <1>9, <1>10, <1>11, <1>12 DEF KernelInv

\* The output is complete: nobody else has restarted it.
LEMMA CompileEndsInv ==
  ASSUME KernelInv, NEW t \in Loaders, Kernel!compile_ends(t)
  PROVE  KernelInv'
  <1> DEFINE tmp == kernel_thread[t].target
             file == [kernel_disk[tmp] EXCEPT !.whole = TRUE]
  <1>1. /\ kernel_thread[t].pc = "link" /\ HasItsFile(t) /\ Compiling(t)
        /\ UNCHANGED <<kernel_world, kernel_nextTmp, kernel_crashes>>
    BY DEF Kernel!compile_ends, KernelInv, Compiling
  <1>2. /\ tmp \in Temporaries /\ tmp[2] < kernel_nextTmp /\ tmp \notin Modules
        /\ tmp \in DOMAIN kernel_disk /\ kernel_disk[tmp].by = t
        /\ kernel_thread[t].kernel = "cpu_moe" /\ kernel_disk[tmp] \in FileRecords
    BY <1>1, NamesDiffer DEF HasItsFile, KernelInv, KernelTyped
  <1>3. /\ kernel_disk' = [kernel_disk EXCEPT ![tmp].whole = TRUE]
        /\ kernel_thread' = [kernel_thread EXCEPT ![t].pc = "install"]
    BY <1>2 DEF Kernel!compile_ends, Kernel!Exists, Kernel!goto
  <1>4. file \in FileRecords /\ file.by = t /\ file.whole
    BY <1>2 DEF FileRecords
  <1>5. /\ kernel_thread' \in [Loaders -> LoaderRecords]
        /\ kernel_thread'[t].pc = "install"
        /\ kernel_thread'[t].kernel = kernel_thread[t].kernel
        /\ kernel_thread'[t].path = kernel_thread[t].path
        /\ kernel_thread'[t].target = tmp
        /\ kernel_thread'[t].got = kernel_thread[t].got
        /\ \A u \in Loaders \ {t} : kernel_thread'[u] = kernel_thread[u]
    BY <1>3, PcsAre, PlaceMoves DEF KernelInv
  <1>6. /\ DOMAIN kernel_disk' = DOMAIN kernel_disk
        /\ kernel_disk'[tmp] = file
        /\ \A f \in DOMAIN kernel_disk \ {tmp} : kernel_disk'[f] = kernel_disk[f]
        /\ kernel_disk' = [f \in DOMAIN kernel_disk' |-> kernel_disk'[f]]
    BY <1>2, <1>3 DEF KernelInv, KernelTyped
  <1> HIDE DEF tmp, file
  <1>7. KernelTyped'
    BY <1>1, <1>2, <1>4, <1>5, <1>6 DEF KernelInv, KernelTyped
  <1>8. FilesAreSound'
    BY <1>1, <1>2, <1>6 DEF KernelInv, FilesAreSound
  <1>9. HasItsFile(t)'
    BY <1>1, <1>2, <1>4, <1>5, <1>6 DEF HasItsFile, Compiling
  <1>10. ASSUME NEW u \in Loaders \ {t} PROVE HasItsFile(u)'
    <2>1. HasItsFile(u)
      BY DEF KernelInv
    <2>2. Compiling(u) => kernel_thread[u].target # tmp
      BY <1>1 DEF KernelInv, TemporariesAreOwn, tmp
    <2>3. kernel_thread'[u] = kernel_thread[u]
      BY <1>5
    <2>4. Compiling(u)' <=> Compiling(u)
      BY <2>3 DEF Compiling
    <2> QED
      BY <1>1, <1>6, <2>1, <2>2, <2>3, <2>4 DEF HasItsFile, Compiling
  <1>11. TemporariesAreOwn'
    BY <1>1, <1>5 DEF KernelInv, TemporariesAreOwn, Compiling, tmp
  <1>12. TemporariesAreOwned'
    <2> SUFFICES ASSUME kernel_crashes = 0, NEW f \in DOMAIN kernel_disk' \intersect Temporaries
                 PROVE  \E u \in Loaders : /\ kernel_thread'[u].pc \in {"link", "install"}
                                           /\ kernel_thread'[u].target = f
      BY <1>1 DEF TemporariesAreOwned
    <2>1. PICK u \in Loaders : /\ kernel_thread[u].pc \in {"link", "install"}
                               /\ kernel_thread[u].target = f
      BY <1>6 DEF KernelInv, TemporariesAreOwned
    <2> QED
      BY <1>5, <2>1 DEF tmp
  <1> QED
    BY <1>7, <1>8, <1>9, <1>10, <1>11, <1>12 DEF KernelInv

\* A compiler that fails takes the output of its thread away, nobody else's.
LEMMA CompileFailsInv ==
  ASSUME KernelInv, NEW t \in Loaders, Kernel!compile_fails(t)
  PROVE  KernelInv'
  <1> DEFINE tmp == kernel_thread[t].target
             gone == IF kernel_thread[t].pc = "link" THEN {tmp} ELSE {}
             r == [Kernel!Idle EXCEPT !.pc = "over", !.got = "CompileFailed"]
  <1>1. /\ kernel_thread[t].pc \in {"compile", "link"} /\ HasItsFile(t) /\ Compiling(t)
        /\ UNCHANGED <<kernel_world, kernel_nextTmp, kernel_crashes>>
        /\ kernel_thread' = [kernel_thread EXCEPT ![t] = r]
    BY DEF Kernel!compile_fails, Kernel!raise, KernelInv, Compiling
  <1>2. tmp \in Temporaries /\ tmp \notin Modules
    BY <1>1, NamesDiffer DEF HasItsFile
  <1>3. kernel_disk' = [f \in DOMAIN kernel_disk \ gone |-> kernel_disk[f]]
    <2>1. CASE kernel_thread[t].pc = "link"
      BY <2>1 DEF Kernel!compile_fails, Kernel!Without, Kernel!Restrict
    <2>2. CASE kernel_thread[t].pc = "compile"
      BY <2>2 DEF Kernel!compile_fails, KernelInv, KernelTyped
    <2> QED
      BY <1>1, <2>1, <2>2
  <1>4. r \in LoaderRecords /\ r.pc = "over" /\ r.got # "none"
    <2>1. "over" \in Kernel!Pcs
      BY PcsAre
    <2> QED
      BY <2>1 DEF LoaderRecords, Kernel!Idle
  <1>5. kernel_thread'[t] = r /\ \A u \in Loaders \ {t} : kernel_thread'[u] = kernel_thread[u]
    BY <1>1 DEF KernelInv, KernelTyped
  <1>6. gone \subseteq {tmp}
    OBVIOUS
  <1>7. \A f \in DOMAIN kernel_disk' : f \in DOMAIN kernel_disk /\ kernel_disk'[f] = kernel_disk[f]
    BY <1>3
  <1>8. \A f \in DOMAIN kernel_disk : f # tmp => f \in DOMAIN kernel_disk'
    BY <1>3, <1>6
  <1>9. KernelTyped'
    <2>1. kernel_thread' \in [Loaders -> LoaderRecords]
      BY <1>1, <1>4 DEF KernelInv, KernelTyped
    <2>2. kernel_disk' = [f \in DOMAIN kernel_disk' |-> kernel_disk'[f]]
      BY <1>3
    <2> QED
      BY <1>1, <1>7, <2>1, <2>2 DEF KernelInv, KernelTyped
  <1>10. FilesAreSound'
    BY <1>1, <1>7 DEF KernelInv, FilesAreSound
  <1>11. HasItsFile(t)'
    BY <1>4, <1>5 DEF HasItsFile, Compiling
  <1>12. ASSUME NEW u \in Loaders \ {t} PROVE HasItsFile(u)'
    <2>1. HasItsFile(u) /\ kernel_thread'[u] = kernel_thread[u]
      BY <1>5 DEF KernelInv
    <2>2. Compiling(u) => kernel_thread[u].target # tmp
      BY <1>1 DEF KernelInv, TemporariesAreOwn
    <2>3. kernel_thread[u].pc = "load" => kernel_thread[u].path # tmp
      BY <1>2, <2>1 DEF HasItsFile
    <2>4. Compiling(u)' <=> Compiling(u)
      BY <2>1 DEF Compiling
    <2>5. kernel_thread[u].pc \in {"link", "install"} =>
            /\ kernel_thread[u].target \in DOMAIN kernel_disk'
            /\ kernel_disk'[kernel_thread[u].target] = kernel_disk[kernel_thread[u].target]
      <3> HIDE DEF tmp
      <3> QED
        BY <1>7, <1>8, <2>1, <2>2 DEF HasItsFile, Compiling
    <2>6. kernel_thread[u].pc = "load" => kernel_thread[u].path \in DOMAIN kernel_disk'
      BY <1>8, <2>1, <2>3 DEF HasItsFile
    <2> QED
      BY <1>1, <2>1, <2>4, <2>5, <2>6 DEF HasItsFile
  <1>13. TemporariesAreOwn'
    <2>1. ~Compiling(t)'
      BY <1>4, <1>5 DEF Compiling
    <2>2. \A u \in Loaders \ {t} : /\ Compiling(u)' <=> Compiling(u)
                                  /\ kernel_thread'[u].target = kernel_thread[u].target
      BY <1>5 DEF Compiling
    <2> HIDE DEF tmp
    <2> QED
      BY <2>1, <2>2 DEF KernelInv, TemporariesAreOwn
  <1>14. TemporariesAreOwned'
    <2> SUFFICES ASSUME kernel_crashes = 0, NEW f \in DOMAIN kernel_disk' \intersect Temporaries
                 PROVE  \E u \in Loaders : /\ kernel_thread'[u].pc \in {"link", "install"}
                                           /\ kernel_thread'[u].target = f
      BY <1>1 DEF TemporariesAreOwned
    <2>1. PICK u \in Loaders : /\ kernel_thread[u].pc \in {"link", "install"}
                               /\ kernel_thread[u].target = f
      BY <1>7 DEF KernelInv, TemporariesAreOwned
    <2>2. u # t
      BY <1>1, <1>3, <2>1
    <2> QED
      BY <1>5, <2>1, <2>2
  <1> QED
    BY <1>9, <1>10, <1>11, <1>12, <1>13, <1>14 DEF KernelInv

\* A compiler that outlives its process completes a file nobody waits for.
LEMMA OutliveInv ==
  ASSUME KernelInv, NEW f \in DOMAIN kernel_disk, Kernel!outlive(f)
  PROVE  KernelInv'
  <1>1. /\ kernel_disk' = [kernel_disk EXCEPT ![f].whole = TRUE]
        /\ UNCHANGED <<kernel_world, kernel_thread, kernel_nextTmp, kernel_crashes>>
    BY DEF Kernel!outlive
  <1>2. /\ DOMAIN kernel_disk' = DOMAIN kernel_disk
        /\ kernel_disk' = [g \in DOMAIN kernel_disk' |-> kernel_disk'[g]]
        /\ \A g \in DOMAIN kernel_disk :
             /\ kernel_disk'[g] \in FileRecords
             /\ kernel_disk'[g].by = kernel_disk[g].by
             /\ kernel_disk[g].whole => kernel_disk'[g].whole
    BY <1>1 DEF KernelInv, KernelTyped, FileRecords
  <1>3. KernelTyped'
    BY <1>1, <1>2 DEF KernelInv, KernelTyped
  <1>4. FilesAreSound'
    BY <1>1, <1>2 DEF KernelInv, FilesAreSound
  <1>5. ASSUME NEW u \in Loaders PROVE HasItsFile(u)'
    <2>1. HasItsFile(u)
      BY DEF KernelInv
    <2> QED
      BY <1>1, <1>2, <2>1 DEF HasItsFile, Compiling
  <1>6. TemporariesAreOwn' /\ TemporariesAreOwned'
    BY <1>1, <1>2 DEF KernelInv, TemporariesAreOwn, TemporariesAreOwned, Compiling
  <1> QED
    BY <1>3, <1>4, <1>5, <1>6 DEF KernelInv

\* os.replace: the temporary is gone and what has the name is whole.
LEMMA InstallInv ==
  ASSUME KernelInv, NEW t \in Loaders, Kernel!install(t)
  PROVE  KernelInv'
  <1> DEFINE tmp == kernel_thread[t].target
             so == kernel_thread[t].path
  <1>1. /\ kernel_thread[t].pc = "install" /\ HasItsFile(t) /\ Compiling(t)
        /\ UNCHANGED <<kernel_world, kernel_nextTmp, kernel_crashes>>
    BY DEF Kernel!install, KernelInv, Compiling
  <1>2. /\ tmp \in Temporaries /\ tmp \in DOMAIN kernel_disk /\ kernel_disk[tmp].whole
        /\ so \in Modules /\ so # tmp /\ kernel_thread[t].kernel = "cpu_moe"
        /\ kernel_disk[tmp] \in FileRecords
    BY <1>1, NamesDiffer DEF HasItsFile, KernelInv, KernelTyped
  <1>3. /\ kernel_disk' = [g \in (DOMAIN kernel_disk \ {tmp}) \union {so} |->
                             IF g = so THEN kernel_disk[tmp] ELSE kernel_disk[g]]
        /\ kernel_thread' = [kernel_thread EXCEPT ![t].pc = "load"]
    BY <1>2 DEF Kernel!install, Kernel!Exists, Kernel!goto
  <1>4. /\ kernel_thread' \in [Loaders -> LoaderRecords]
        /\ kernel_thread'[t].pc = "load"
        /\ kernel_thread'[t].kernel = kernel_thread[t].kernel
        /\ kernel_thread'[t].path = so
        /\ kernel_thread'[t].got = kernel_thread[t].got
        /\ \A u \in Loaders \ {t} : kernel_thread'[u] = kernel_thread[u]
    BY <1>3, PcsAre, PlaceMoves DEF KernelInv
  <1>5. /\ DOMAIN kernel_disk' = (DOMAIN kernel_disk \ {tmp}) \union {so}
        /\ kernel_disk'[so] = kernel_disk[tmp]
        /\ \A f \in DOMAIN kernel_disk \ {tmp, so} : kernel_disk'[f] = kernel_disk[f]
        /\ kernel_disk' = [f \in DOMAIN kernel_disk' |-> kernel_disk'[f]]
    BY <1>3
  <1> HIDE DEF tmp, so
  <1>6. KernelTyped'
    BY <1>1, <1>2, <1>4, <1>5 DEF KernelInv, KernelTyped
  <1>7. FilesAreSound'
    BY <1>1, <1>2, <1>5, NamesDiffer DEF KernelInv, FilesAreSound
  <1>8. HasItsFile(t)'
    BY <1>1, <1>2, <1>4, <1>5 DEF HasItsFile, Compiling
  <1>9. ASSUME NEW u \in Loaders \ {t} PROVE HasItsFile(u)'
    <2>1. HasItsFile(u)
      BY DEF KernelInv
    <2>2. Compiling(u) => kernel_thread[u].target # tmp /\ kernel_thread[u].target # so
      BY <1>1, <1>2, <2>1, NamesDiffer DEF KernelInv, TemporariesAreOwn, HasItsFile, tmp
    <2>3. kernel_thread'[u] = kernel_thread[u]
      BY <1>4
    <2>4. Compiling(u)' <=> Compiling(u)
      BY <2>3 DEF Compiling
    <2>5. kernel_thread[u].pc \in {"link", "install"} =>
            kernel_disk'[kernel_thread[u].target] = kernel_disk[kernel_thread[u].target]
            /\ kernel_thread[u].target \in DOMAIN kernel_disk'
      BY <1>5, <2>1, <2>2 DEF HasItsFile, Compiling
    <2>6. kernel_thread[u].pc = "load" => kernel_thread[u].path \in DOMAIN kernel_disk'
      BY <1>2, <1>5, <2>1, NamesDiffer DEF HasItsFile
    <2> QED
      BY <1>1, <2>1, <2>3, <2>4, <2>5, <2>6 DEF HasItsFile
  <1>10. TemporariesAreOwn'
    BY <1>1, <1>4 DEF KernelInv, TemporariesAreOwn, Compiling
  <1>11. TemporariesAreOwned'
    <2> SUFFICES ASSUME kernel_crashes = 0, NEW f \in DOMAIN kernel_disk' \intersect Temporaries
                 PROVE  \E u \in Loaders : /\ kernel_thread'[u].pc \in {"link", "install"}
                                           /\ kernel_thread'[u].target = f
      BY <1>1 DEF TemporariesAreOwned
    <2>1. f \in DOMAIN kernel_disk /\ f # tmp
      BY <1>2, <1>5, NamesDiffer
    <2>2. PICK u \in Loaders : /\ kernel_thread[u].pc \in {"link", "install"}
                               /\ kernel_thread[u].target = f
      BY <2>1 DEF KernelInv, TemporariesAreOwned
    <2> QED
      BY <1>4, <2>1, <2>2 DEF tmp
  <1> QED
    BY <1>6, <1>7, <1>8, <1>9, <1>10, <1>11 DEF KernelInv

\* An edit changes a key, never a file.
LEMMA ChangeInv ==
  ASSUME KernelInv, NEW leg \in Edits, Kernel!change(leg)
  PROVE  KernelInv'
  <1>1. leg \in {"oneapi", "ze", "isa", "cxx", "arch", "src"}
    BY StartupAssumption DEF StartupAssumption, Kernel!KernelCacheAssumption
  <1>2. /\ kernel_world' = [kernel_world EXCEPT ![leg] = 1]
        /\ UNCHANGED <<kernel_disk, kernel_thread, kernel_nextTmp, kernel_crashes>>
    BY DEF Kernel!change
  <1>3. KernelTyped'
    BY <1>1, <1>2 DEF KernelInv, KernelTyped
  <1> QED
    BY <1>2, <1>3 DEF KernelInv, FilesAreSound, HasItsFile, Compiling, TemporariesAreOwn,
        TemporariesAreOwned

\* A process that dies takes its threads along and leaves its files.
LEMMA CrashInv ==
  ASSUME KernelInv, NEW p, Kernel!crash(p)
  PROVE  KernelInv'
  <1>1. /\ kernel_crashes \in 0 .. MaxCrashes /\ kernel_crashes < MaxCrashes
        /\ kernel_crashes' = kernel_crashes + 1
        /\ UNCHANGED <<kernel_world, kernel_disk, kernel_nextTmp>>
        /\ kernel_thread' = [u \in Loaders |-> IF LoaderProcess[u] = p THEN Kernel!Idle
                                               ELSE kernel_thread[u]]
    BY DEF Kernel!crash, KernelInv, KernelTyped
  <1>2. MaxCrashes \in Nat
    BY StartupAssumption DEF StartupAssumption, Kernel!KernelCacheAssumption
  <1>3. kernel_crashes' \in 0 .. MaxCrashes /\ kernel_crashes' # 0
    BY <1>1, <1>2
  <1>4. /\ Kernel!Idle \in LoaderRecords
        /\ Kernel!Idle.pc = "idle" /\ Kernel!Idle.got = "none"
    BY DEF Kernel!Idle, LoaderRecords, Kernel!Pcs
  <1>5. \A u \in Loaders : kernel_thread'[u] = Kernel!Idle \/ kernel_thread'[u] = kernel_thread[u]
    BY <1>1
  <1>6. KernelTyped'
    BY <1>1, <1>3, <1>4 DEF KernelInv, KernelTyped
  <1>7. ASSUME NEW u \in Loaders PROVE HasItsFile(u)'
    <2>1. CASE kernel_thread'[u] = Kernel!Idle
      BY <1>4, <2>1 DEF HasItsFile, Compiling
    <2>2. CASE kernel_thread'[u] = kernel_thread[u]
      <3>1. HasItsFile(u)
        BY DEF KernelInv
      <3> QED
        BY <1>1, <2>2, <3>1 DEF HasItsFile, Compiling
    <2> QED
      BY <1>5, <2>1, <2>2
  <1>8. TemporariesAreOwn'
    BY <1>4, <1>5 DEF KernelInv, TemporariesAreOwn, Compiling
  <1>9. FilesAreSound' /\ TemporariesAreOwned'
    BY <1>1, <1>3 DEF KernelInv, FilesAreSound, TemporariesAreOwned
  <1> QED
    BY <1>6, <1>7, <1>8, <1>9 DEF KernelInv

\* Every step keeps the invariant.
LEMMA KernelStepInv == KernelInv /\ Kernel!Next => KernelInv'
  BY WantInv, LookupInv, BuildFileInv, CompileBeginsInv, CompileEndsInv, CompileFailsInv,
     InstallInv, LoadInv, ChangeInv, CrashInv, OutliveInv DEF Kernel!Next, Kernel!Step

\* Every state of a suite that builds kernels satisfies the invariant.
LEMMA KernelInvariant == SuiteSpec => []KernelInv
  <1>1. SuiteInit => KernelInv
    BY KernelInitInv DEF SuiteInit
  <1>2. KernelInv /\ [SuiteNext]_allVars => KernelInv'
    <2> SUFFICES ASSUME KernelInv, [SuiteNext]_allVars PROVE KernelInv'
      OBVIOUS
    <2>1. CASE StepKernelCache
      BY <2>1, KernelStepInv DEF StepKernelCache
    <2>2. CASE UNCHANGED kernelCacheVars
      BY <2>2 DEF kernelCacheVars, KernelInv, KernelTyped, FilesAreSound, HasItsFile, Compiling,
          TemporariesAreOwn, TemporariesAreOwned
    <2> QED
      BY <2>1, <2>2 DEF SuiteNext, StepModelLoad, StepExpertBanks, Stops, allVars
  <1> QED
    BY <1>1, <1>2, PTL DEF SuiteSpec

\* What the invariant says of the files and of what the loads got.
LEMMA KernelInvWhole ==
  KernelInv => /\ Kernel!TypeOK
               /\ Kernel!NoPartialModule
               /\ Kernel!InstallsOwnWork
               /\ Kernel!TemporariesAreCleared
               /\ Kernel!EveryLoadSucceeds
  <1> SUFFICES ASSUME KernelInv
               PROVE  /\ Kernel!TypeOK /\ Kernel!NoPartialModule /\ Kernel!InstallsOwnWork
                      /\ Kernel!TemporariesAreCleared /\ Kernel!EveryLoadSucceeds
    OBVIOUS
  <1>1. Kernel!TypeOK
    <2>1. kernel_world \in [DOMAIN Kernel!InitWorld -> 0 .. 1]
      BY DEF KernelInv, KernelTyped, Kernel!InitWorld
    <2>2. ASSUME NEW t \in Loaders
          PROVE  /\ kernel_thread[t].pc \in Kernel!Pcs
                 /\ kernel_thread[t].got \in Kernel!Outcomes
                 /\ (kernel_thread[t].got # "none") <=> (kernel_thread[t].pc = "over")
                 /\ kernel_thread[t].pc \in {"link", "install"}
                      => Kernel!Exists(kernel_thread[t].target)
      BY DEF KernelInv, KernelTyped, LoaderRecords, Kernel!Outcomes, HasItsFile, Kernel!Exists
    <2>3. \A f \in DOMAIN kernel_disk : Kernel!InstalledPath(f) \/ f[2] < kernel_nextTmp
      BY NamesDiffer DEF KernelInv, KernelTyped, FilesAreSound
    <2> QED
      BY <2>1, <2>2, <2>3 DEF Kernel!TypeOK, KernelInv, KernelTyped
  <1>2. Kernel!NoPartialModule
    BY NamesDiffer DEF KernelInv, KernelTyped, FilesAreSound, Kernel!NoPartialModule
  <1>3. Kernel!InstallsOwnWork
    BY DEF KernelInv, HasItsFile, Kernel!InstallsOwnWork
  <1>4. Kernel!TemporariesAreCleared
    BY NamesDiffer DEF KernelInv, KernelTyped, TemporariesAreOwned, Kernel!TemporariesAreCleared
  <1>5. Kernel!EveryLoadSucceeds
    BY DEF KernelInv, KernelTyped, LoaderRecords, Kernel!EveryLoadSucceeds
  <1> QED
    BY <1>1, <1>2, <1>3, <1>4, <1>5

\* A step leaves every installed module in place.
LEMMA WarmStep ==
  ASSUME KernelInv, Kernel!Next
  PROVE  \A f \in DOMAIN kernel_disk :
           Kernel!InstalledPath(f) /\ kernel_disk[f].whole =>
             f \in DOMAIN kernel_disk' /\ kernel_disk'[f].whole
  <1> SUFFICES ASSUME NEW f \in DOMAIN kernel_disk, Kernel!InstalledPath(f)
               PROVE  f \in DOMAIN kernel_disk'
    <2>1. (KernelTyped /\ FilesAreSound)'
      BY KernelStepInv DEF KernelInv
    <2>2. \A f \in DOMAIN kernel_disk' : Kernel!InstalledPath(f) => kernel_disk'[f].whole
      BY <2>1, NamesDiffer DEF KernelTyped, FilesAreSound
    <2> QED
      BY <2>2
  <1>1. CASE UNCHANGED kernel_disk
    BY <1>1
  <1>2. ASSUME NEW t \in Loaders, Kernel!compile_begins(t) \/ Kernel!compile_ends(t)
        PROVE  f \in DOMAIN kernel_disk'
    <2>1. CASE Kernel!compile_begins(t)
      BY <2>1 DEF Kernel!compile_begins, Kernel!Writing
    <2>2. CASE Kernel!compile_ends(t)
      BY <2>2 DEF Kernel!compile_ends
    <2> QED
      BY <1>2, <2>1, <2>2
  <1>3. ASSUME NEW t \in Loaders, Kernel!install(t)
        PROVE  f \in DOMAIN kernel_disk'
    <2>1. kernel_thread[t].target \in Temporaries
      BY <1>3 DEF KernelInv, HasItsFile, Compiling, Kernel!install
    <2>2. f # kernel_thread[t].target
      BY <2>1, NamesDiffer
    <2> QED
      BY <1>3, <2>2 DEF Kernel!install
  <1>4. ASSUME NEW t \in Loaders, Kernel!compile_fails(t)
        PROVE  f \in DOMAIN kernel_disk'
    <2>1. kernel_thread[t].target \in Temporaries
      BY <1>4 DEF KernelInv, HasItsFile, Compiling, Kernel!compile_fails
    <2>2. f # kernel_thread[t].target
      BY <2>1, NamesDiffer
    <2> QED
      BY <1>4, <2>2 DEF Kernel!compile_fails, Kernel!Without, Kernel!Restrict
  <1>5. ASSUME NEW g \in DOMAIN kernel_disk, Kernel!outlive(g)
        PROVE  f \in DOMAIN kernel_disk'
    BY <1>5 DEF Kernel!outlive
  <1> QED
    BY <1>1, <1>2, <1>3, <1>4, <1>5 DEF Kernel!Next, Kernel!Step, Kernel!want, Kernel!lookup, Kernel!build,
        Kernel!load, Kernel!change, Kernel!crash

(***************************************************************************)
(* Any number of threads, processes, edits, failing compilers and crashes: *)
(* whatever is in the cache under its name is whole and stays there, every *)
(* load of the CPU kernel gets a module unless its own compiler fails, a   *)
(* thread renames only its own finished work, and without a crash no       *)
(* temporary is left (kernel/cpu_moe.py).                                  *)
(***************************************************************************)
THEOREM KernelsStayWhole == SuiteSpec => KernelsAreWhole
  <1>1. KernelInv /\ [SuiteNext]_allVars =>
          [\A f \in DOMAIN kernel_disk :
             Kernel!InstalledPath(f) /\ kernel_disk[f].whole =>
               f \in DOMAIN kernel_disk' /\ kernel_disk'[f].whole]_(Kernel!vars)
    <2> SUFFICES ASSUME KernelInv, [SuiteNext]_allVars, ~UNCHANGED Kernel!vars
                 PROVE  \A f \in DOMAIN kernel_disk :
                          Kernel!InstalledPath(f) /\ kernel_disk[f].whole =>
                            f \in DOMAIN kernel_disk' /\ kernel_disk'[f].whole
      OBVIOUS
    <2>1. Kernel!Next
      BY DEF SuiteNext, StepModelLoad, StepExpertBanks, StepKernelCache, Stops, allVars,
          kernelCacheVars, Kernel!vars
    <2> QED
      BY <2>1, WarmStep
  <1> QED
    BY <1>1, KernelInvariant, KernelInvWhole, PTL DEF SuiteSpec, KernelsAreWhole, Kernel!WarmStaysWarm

--------------------------------------------------------------------------------
\* The tensors that are still to come in the dense pass.
Remaining == UNION {left[i] : i \in 1 .. Len(left)}

\* A tensor that went by: its parameter is filled if its name gets there, and
\* the head is known to be there.
WentBy(t) ==
  /\ Places(Renamed(checkpoint, t)) /\ t.param \in DenseParams(checkpoint) =>
       params[t.param] = Loaded(t.param)
  /\ t.param = LmHead => sawHead

\* The dense pass has filled the parameters of the tensors that went by.
PassIsSound ==
  /\ \A t \in Read(checkpoint) : t \in Remaining \/ WentBy(t)
  /\ sawHead => \E t \in Read(checkpoint) : t.param = LmHead
  /\ Remaining \subseteq UNION Range(checkpoint.shards)

\* What an expert is to be: made up for dummies, else the checkpoint's.
Expected(l, e) == Holds(IF dummy THEN "made up" ELSE "loaded", Param("expert", l, e))

DenseIsFilled ==
  \A p \in DenseParams(checkpoint) :
    IF dummy THEN params[p] = ZeroFill
    ELSE \/ params[p] = Loaded(p)
         \/ p = LmHead /\ checkpoint.tied /\ params[p] = Loaded(Embed)
BanksAreFilled ==
  \A l \in MoeLayers(checkpoint), e \in ExpertIds : BankOf(l)[e] = Expected(l, e)
ExpertsAreFilled ==
  \A l \in MoeBlocks(checkpoint), e \in ExpertIds : ReadsExpert(l, e) = Expected(l, e)

LoadTyped ==
  /\ checkpoint \in Checkpoints
  /\ dummy \in BOOLEAN
  /\ backend \in {"fused", "offload", "cpu", "hybrid"}
  /\ left \in Seq(SUBSET Tensors)
  /\ params = [p \in DOMAIN params |-> params[p]]
  /\ DOMAIN params = DenseParams(checkpoint) \cup ResidentExperts
  /\ sawHead \in BOOLEAN
  /\ rng \in {"process", "config"}
  /\ status \in {"built", "dense", "banks", "loaded", "refused"}

\* What each stage of load_model has done.
ModelInv ==
  /\ LoadTyped
  /\ status = "built" /\ ~dummy => PassIsSound
  /\ status \in {"dense", "banks", "refused"} => checkpoint.is_moe
  /\ status # "built" /\ (dummy => checkpoint.is_moe) => DenseIsFilled
  /\ status \in {"dense", "banks"} /\ dummy => rng = "config"
  /\ status = "banks" => BanksAreFilled
  /\ status = "loaded" => ExpertsAreFilled
  /\ status = "refused" => ~checkpoint.complete \/ ~DenseAsStreamed(checkpoint)
  /\ status \in {"banks", "loaded"} /\ ~dummy => DenseAsStreamed(checkpoint)

--------------------------------------------------------------------------------
\* The checkpoint at hand is one of its architecture.
LEMMA TheCheckpoint ==
  ASSUME checkpoint \in Checkpoints
  PROVE  /\ checkpoint.layers \in Nat \ {0} /\ checkpoint.first_dense \in 0 .. checkpoint.layers
         /\ checkpoint.is_moe \in BOOLEAN /\ checkpoint.tied \in BOOLEAN
         /\ checkpoint.packed \in BOOLEAN
         /\ ShipsItsModel(checkpoint)
  BY CheckpointAssumption, StartupAssumption DEF CheckpointAssumption, StartupAssumption

\* A parameter of an expert is none of the dense ones.
LEMMA DenseIsNoExpert ==
  /\ \A p \in DenseParams(checkpoint) : p.kind # "expert"
  /\ \A p \in ResidentExperts : p.kind = "expert"
  BY DEF DenseParams, ResidentExperts, ExpertParams, Param, Embed, LmHead

\* The banks are numbered from the first layer with experts.
LEMMA BankNumbers ==
  ASSUME checkpoint \in Checkpoints
  PROVE  \A l \in MoeLayers(checkpoint) :
           /\ l - checkpoint.first_dense + 1 \in 1 .. Len(Compacted)
           /\ Compacted[l - checkpoint.first_dense + 1] = l
  <1> DEFINE a == checkpoint.first_dense
             b == checkpoint.layers
             n == Cardinality(MoeLayers(checkpoint))
  <1>1. a \in Nat /\ b \in Nat /\ a <= b
    BY TheCheckpoint
  <1>2. n = IF a > b - 1 THEN 0 ELSE (b - 1) - a + 1
    <2>1. MoeLayers(checkpoint) = a .. b - 1
      BY DEF MoeLayers
    <2> DEFINE z == b - 1
    <2>2. a \in Int /\ z \in Int
      BY <1>1
    <2> HIDE DEF a, z
    <2>3. Cardinality(a .. z) = IF a > z THEN 0 ELSE z - a + 1
      BY <2>2, FS_Interval
    <2> QED
      BY <2>1, <2>3 DEF z
  <1>3. n = b - a
    BY <1>1, <1>2
  <1>4. Compacted = [i \in 1 .. n |-> a + i - 1]
    BY DEF Compacted
  <1> HIDE DEF n
  <1>5. n \in Nat
    BY <1>1, <1>3
  <1>6. Compacted \in Seq(Int) /\ Len(Compacted) = n
    BY <1>1, <1>4, <1>5
  <1> QED
    BY <1>1, <1>3, <1>4, <1>6 DEF MoeLayers

\* The backends that host the experts leave the model none of its own.
LEMMA WhereExpertsAre ==
  /\ Offload => ResidentExperts = {}
  /\ ~Offload => \A l \in MoeBlocks(checkpoint), e \in ExpertIds : Param("expert", l, e) \in ResidentExperts
  BY DEF Offload, ResidentExperts, ExpertParams, MoeBlocks

\* Nothing is streamed at first.
LEMMA LoadInitInv == Init => ModelInv
  <1> SUFFICES ASSUME Init PROVE ModelInv
    OBVIOUS
  <1>1. checkpoint \in Checkpoints /\ ShipsItsModel(checkpoint)
    BY TheCheckpoint DEF Init
  <1>2. left \in Seq(SUBSET Tensors) /\ left = checkpoint.shards
    BY <1>1 DEF Init, ShipsItsModel
  <1>3. backend \in {"fused", "offload", "cpu", "hybrid"}
    BY StartupAssumption DEF StartupAssumption, Init, Resolve
  <1>4. LoadTyped
    BY <1>1, <1>2, <1>3 DEF Init, LoadTyped
  <1>5. Remaining = UNION Range(checkpoint.shards)
    BY <1>2 DEF Remaining, Range
  <1>6. PassIsSound
    BY <1>5 DEF PassIsSound, Read, Init
  <1> QED
    BY <1>4, <1>6 DEF ModelInv, Init

\* Dummies are not read: the dense parameters are zero, the rest made up.
LEMMA SeedInv ==
  ASSUME ModelInv, SeedDummyExperts
  PROVE  ModelInv'
  <1>1. LoadTyped'
    BY DEF ModelInv, LoadTyped, SeedDummyExperts, Seed, ResidentExperts, reader
  <1>2. CASE checkpoint.is_moe
    <2>1. DenseIsFilled'
      BY <1>2 DEF ModelInv, LoadTyped, SeedDummyExperts, DenseIsFilled
    <2> QED
      BY <1>1, <1>2, <2>1 DEF ModelInv, SeedDummyExperts, Seed
  <1>3. CASE ~checkpoint.is_moe
    <2>1. ExpertsAreFilled'
      BY <1>3 DEF SeedDummyExperts, ExpertsAreFilled, MoeBlocks
    <2> QED
      BY <1>1, <1>3, <2>1 DEF ModelInv, SeedDummyExperts
  <1> QED
    BY <1>2, <1>3

\* The banks of made-up experts, in the order of the layers.
LEMMA MakeUpInv ==
  ASSUME ModelInv, MakeUpBanks
  PROVE  ModelInv'
  <1>1. LoadTyped'
    BY DEF ModelInv, LoadTyped, MakeUpBanks, ResidentExperts, reader
  <1>2. DenseIsFilled'
    BY DEF ModelInv, MakeUpBanks, DenseIsFilled
  <1>3. BanksAreFilled'
    BY BankNumbers DEF ModelInv, LoadTyped, MakeUpBanks, BanksAreFilled, BankOf, Made, Expected
  <1> QED
    BY <1>1, <1>2, <1>3 DEF ModelInv, MakeUpBanks

\* A tensor goes by, and the others are as they were.
LEMMA StreamDenseInv ==
  ASSUME ModelInv, StreamDense
  PROVE  ModelInv'
  <1>1. PICK t \in Head(left) :
          LET u == Renamed(checkpoint, t)
          IN  /\ left' = [left EXCEPT ![1] = @ \ {t}]
              /\ IF Kept(checkpoint, t) /\ ~IsExpert(t)
                   THEN /\ params' = Place(u)
                        /\ sawHead' = (sawHead \/ u.param = LmHead)
                   ELSE UNCHANGED <<params, sawHead>>
    BY DEF StreamDense
  <1>2. /\ left \in Seq(SUBSET Tensors) /\ left # <<>> /\ Head(left) = left[1] /\ Len(left) \in Nat \ {0}
        /\ t \in Tensors
    BY DEF ModelInv, LoadTyped, StreamDense
  <1>3. left' \in Seq(SUBSET Tensors) /\ Len(left') = Len(left)
    BY <1>1, <1>2
  <1>4. Remaining' \subseteq Remaining /\ Remaining \ {t} \subseteq Remaining'
    BY <1>1, <1>2, <1>3 DEF Remaining
  <1> DEFINE u == Renamed(checkpoint, t)
  <1>5. u.param = t.param
    BY <1>2 DEF Renamed, Tensors
  <1>6. params' = [p \in DOMAIN params |-> params'[p]] /\ DOMAIN params' = DOMAIN params
    BY <1>1 DEF Place, ModelInv, LoadTyped
  <1>7. ASSUME NEW p \in DOMAIN params PROVE params'[p] = params[p] \/ params'[p] = Loaded(p)
    BY <1>1, <1>7 DEF Place, ModelInv, LoadTyped
  <1>8. LoadTyped'
    BY <1>1, <1>3, <1>6 DEF ModelInv, LoadTyped, StreamDense, ResidentExperts, reader
  <1>9. ASSUME NEW v \in Read(checkpoint), WentBy(v) PROVE WentBy(v)'
    <2>1. v.param \in DenseParams(checkpoint) => v.param \in DOMAIN params
      BY DEF ModelInv, LoadTyped
    <2> QED
      BY <1>1, <1>7, <1>9, <2>1 DEF WentBy, StreamDense, ModelInv, LoadTyped
  <1>10. t \in Read(checkpoint) => WentBy(t)'
    <2> SUFFICES ASSUME t \in Read(checkpoint) PROVE WentBy(t)'
      OBVIOUS
    <2>1. params' = Place(u) /\ sawHead' = (sawHead \/ u.param = LmHead)
      BY <1>1 DEF Read
    <2>2. t.param \in DenseParams(checkpoint) => t.param \in DOMAIN params
      BY DEF ModelInv, LoadTyped
    <2>3. Places(u) /\ t.param \in DenseParams(checkpoint) => params'[t.param] = Loaded(t.param)
      BY <1>5, <2>1, <2>2 DEF Place
    <2>4. checkpoint' = checkpoint
      BY DEF StreamDense
    <2> QED
      BY <1>5, <2>1, <2>3, <2>4 DEF WentBy
  <1>11. sawHead' => \E v \in Read(checkpoint) : v.param = LmHead
    <2>1. sawHead => \E v \in Read(checkpoint) : v.param = LmHead
      BY DEF ModelInv, StreamDense, PassIsSound
    <2>2. t \in UNION Range(checkpoint.shards)
      BY <1>2 DEF ModelInv, StreamDense, PassIsSound, Remaining
    <2> QED
      BY <1>1, <1>5, <2>1, <2>2 DEF Read
  <1>12. PassIsSound'
    <2>1. checkpoint' = checkpoint /\ PassIsSound
      BY DEF StreamDense, ModelInv
    <2> QED
      BY <1>4, <1>9, <1>10, <1>11, <2>1 DEF PassIsSound
  <1> QED
    BY <1>8, <1>12 DEF ModelInv, StreamDense

\* The next shard is opened when one is read to its end.
LEMMA NextShardInv ==
  ASSUME ModelInv, NextShard
  PROVE  ModelInv'
  <1>1. left \in Seq(SUBSET Tensors) /\ left # <<>> /\ left[1] = {} /\ left' = Tail(left)
    BY DEF ModelInv, LoadTyped, NextShard
  <1>2. /\ left' \in Seq(SUBSET Tensors) /\ Len(left) \in Nat \ {0} /\ Len(left') = Len(left) - 1
        /\ \A i \in 1 .. Len(left') : left'[i] = left[i + 1]
    BY <1>1
  <1>3. Remaining' = Remaining
    <2>1. Remaining' \subseteq Remaining
      BY <1>2, SMTT(20) DEF Remaining
    <2>2. ASSUME NEW i \in 1 .. Len(left), left[i] # {} PROVE left[i] = left'[i - 1] /\ i - 1 \in 1 .. Len(left')
      BY <1>1, <1>2, <2>2
    <2>3. Remaining \subseteq Remaining'
      BY <2>2 DEF Remaining
    <2> QED
      BY <2>1, <2>3
  <1>4. LoadTyped'
    BY <1>2 DEF ModelInv, LoadTyped, NextShard, ResidentExperts, reader
  <1>5. PassIsSound'
    BY <1>3 DEF ModelInv, NextShard, PassIsSound, WentBy
  <1> QED
    BY <1>4, <1>5 DEF ModelInv, NextShard

\* At the end of the pass every dense parameter is filled, the head by its
\* tensor or by the tie.
LEMMA EndDenseInv ==
  ASSUME ModelInv, EndDense
  PROVE  ModelInv'
  <1>1. /\ checkpoint \in Checkpoints /\ ShipsItsModel(checkpoint)
        /\ checkpoint.is_moe \in BOOLEAN
    BY TheCheckpoint DEF ModelInv, LoadTyped
  <1>2. /\ \A t \in Read(checkpoint) : WentBy(t)
        /\ sawHead => \E t \in Read(checkpoint) : t.param = LmHead
    BY DEF ModelInv, EndDense, PassIsSound, Remaining
  <1>3. Embed \in DenseParams(checkpoint) /\ LmHead \in DenseParams(checkpoint) /\ Embed # LmHead
    BY DEF DenseParams, Embed, LmHead, Param
  <1>4. \A p \in DenseParams(checkpoint) : p # LmHead => params[p] = Loaded(p)
    BY <1>1, <1>2 DEF ShipsItsModel, WentBy
  <1>5. params[LmHead] = Loaded(LmHead) \/ Tie
    BY <1>1, <1>2, <1>3, <1>4 DEF ShipsItsModel, WentBy, Tie, reader
  <1>6. Tie => checkpoint.tied
    BY DEF Tie
  <1>7. /\ params' = [p \in DOMAIN params |-> params'[p]] /\ DOMAIN params' = DOMAIN params
        /\ \A p \in DOMAIN params : p # LmHead \/ ~Tie => params'[p] = params[p]
        /\ Tie => params'[LmHead] = Loaded(Embed)
    BY <1>3 DEF EndDense, ModelInv, LoadTyped
  <1>8. DenseIsFilled'
    BY <1>3, <1>4, <1>5, <1>6, <1>7 DEF EndDense, ModelInv, LoadTyped, DenseIsFilled
  <1>9. LoadTyped'
    BY <1>1, <1>7 DEF ModelInv, LoadTyped, EndDense, ResidentExperts, reader
  <1>10. ~checkpoint.is_moe => ExpertsAreFilled'
    BY DEF EndDense, ExpertsAreFilled, MoeBlocks
  <1>11. ~checkpoint.is_moe => DenseAsStreamed(checkpoint)
    BY DEF DenseAsStreamed
  <1> QED
    BY <1>1, <1>8, <1>9, <1>10, <1>11 DEF ModelInv, EndDense

\* A stream that finds every layer it expects has found the blocks with experts,
\* and started where the loader counts from.
LEMMA StreamedAreMoe ==
  ASSUME checkpoint \in Checkpoints, ShipsItsModel(checkpoint),
         SeenLayers(checkpoint) = StreamedLayers(checkpoint)
  PROVE  /\ FirstBank(checkpoint) = checkpoint.first_dense
         /\ MoeBlocks(checkpoint) = StreamedLayers(checkpoint)
  <1>1. /\ checkpoint.layers \in Nat \ {0} /\ checkpoint.first_dense \in 0 .. checkpoint.layers
        /\ checkpoint.packed \in BOOLEAN
    BY TheCheckpoint
  <1>2. /\ StreamedLayers(checkpoint) \subseteq MoeBlocks(checkpoint)
        /\ MoeBlocks(checkpoint) \subseteq MoeLayers(checkpoint)
    BY DEF ShipsItsModel
  <1>3. FirstBank(checkpoint) = checkpoint.first_dense
    <2> SUFFICES ASSUME checkpoint.packed PROVE checkpoint.first_dense = 0
      BY DEF FirstBank
    <2>1. 0 \in StreamedLayers(checkpoint)
      BY <1>1 DEF StreamedLayers, FirstBank
    <2>2. 0 \in MoeLayers(checkpoint)
      BY <1>2, <2>1
    <2> QED
      BY <1>1, <2>2 DEF MoeLayers
  <1>4. MoeLayers(checkpoint) = StreamedLayers(checkpoint)
    BY <1>3 DEF MoeLayers, StreamedLayers
  <1> QED
    BY <1>2, <1>3, <1>4

\* The banks hold what was expected, or the checkpoint is refused.
LEMMA StreamBanksInv ==
  ASSUME ModelInv, StreamBanks
  PROVE  ModelInv'
  <1>1. /\ checkpoint \in Checkpoints /\ ShipsItsModel(checkpoint)
        /\ checkpoint.is_moe
    BY TheCheckpoint DEF ModelInv, LoadTyped, StreamBanks
  <1>2. LoadTyped'
    BY DEF ModelInv, LoadTyped, StreamBanks, ResidentExperts, reader
  <1>3. DenseIsFilled'
    BY <1>1 DEF ModelInv, StreamBanks, DenseIsFilled
  <1>4. CASE status' = "banks"
    <2> DEFINE shown == [i \in 1 .. Len(Streamed) |->
                           [e \in ExpertIds |->
                              IF Intruders(checkpoint, Streamed[i]) = {}
                                THEN Loaded(Param("expert", Streamed[i], e))
                                ELSE Holds("either", Param("expert", Streamed[i], e))]]
    <2>1. /\ banks' = shown
          /\ SeenLayers(checkpoint) = StreamedLayers(checkpoint)
      BY <1>4 DEF StreamBanks
    <2>2. /\ FirstBank(checkpoint) = checkpoint.first_dense
          /\ MoeBlocks(checkpoint) = StreamedLayers(checkpoint)
      BY <1>1, <2>1, StreamedAreMoe
    <2>3. Streamed = Compacted
      BY <2>2 DEF Streamed, Compacted, StreamedLayers, MoeLayers
    <2>4. banks' = [i \in 1 .. Len(Compacted) |->
                      [e \in ExpertIds |->
                         IF Intruders(checkpoint, Compacted[i]) = {}
                           THEN Loaded(Param("expert", Compacted[i], e))
                           ELSE Holds("either", Param("expert", Compacted[i], e))]]
      BY <2>1, <2>3
    <2>5. ASSUME NEW l \in MoeLayers(checkpoint), NEW e \in ExpertIds
          PROVE  banks'[l - checkpoint.first_dense + 1][e] = Loaded(Param("expert", l, e))
      <3>1. Intruders(checkpoint, l) = {}
        BY <1>1 DEF ShipsItsModel
      <3>2. /\ l - checkpoint.first_dense + 1 \in 1 .. Len(Compacted)
            /\ Compacted[l - checkpoint.first_dense + 1] = l
        BY <1>1, BankNumbers
      <3> QED
        BY <2>4, <3>1, <3>2
    <2>6. BanksAreFilled'
      BY <2>5 DEF BanksAreFilled, BankOf, Expected, Loaded, StreamBanks
    <2>7. DenseAsStreamed(checkpoint)
      BY <2>2 DEF DenseAsStreamed
    <2> HIDE DEF shown
    <2> QED
      BY <1>2, <1>3, <1>4, <2>6, <2>7 DEF ModelInv, StreamBanks
  <1>5. CASE status' = "refused"
    <2>1. ~checkpoint.complete \/ ~DenseAsStreamed(checkpoint)
      BY <1>1, <1>5 DEF StreamBanks, ShipsItsModel, DenseAsStreamed
    <2> QED
      BY <1>2, <1>3, <1>5, <2>1 DEF ModelInv, StreamBanks
  <1> QED
    BY <1>4, <1>5 DEF StreamBanks

\* The model's own experts get the banks of their layers.
LEMMA PlaceExpertsInv ==
  ASSUME ModelInv, PlaceExperts
  PROVE  ModelInv'
  <1>1. /\ checkpoint \in Checkpoints /\ MoeBlocks(checkpoint) \subseteq MoeLayers(checkpoint)
        /\ checkpoint.is_moe
    BY TheCheckpoint DEF ModelInv, LoadTyped, PlaceExperts, ShipsItsModel
  <1>2. LoadTyped'
    BY DEF ModelInv, LoadTyped, PlaceExperts, ResidentExperts, reader
  <1>3. \A p \in DenseParams(checkpoint) : params'[p] = params[p]
    BY DenseIsNoExpert DEF ModelInv, LoadTyped, PlaceExperts
  <1>4. DenseIsFilled'
    BY <1>1, <1>3 DEF ModelInv, PlaceExperts, DenseIsFilled
  <1>5. ASSUME NEW l \in MoeBlocks(checkpoint), NEW e \in ExpertIds
        PROVE  params'[Param("expert", l, e)] = Expected(l, e) /\ ResidentExperts # {}
    <2>1. Param("expert", l, e) \in DOMAIN params /\ ResidentExperts # {}
      BY WhereExpertsAre DEF ModelInv, LoadTyped, PlaceExperts
    <2>2. /\ Param("expert", l, e).kind = "expert" /\ Param("expert", l, e).layer = l
          /\ Param("expert", l, e).expert = e
      BY DEF Param
    <2>3. BankOf(l)[e] = Expected(l, e)
      BY <1>1 DEF ModelInv, PlaceExperts, BanksAreFilled
    <2> QED
      BY <1>1, <2>1, <2>2, <2>3 DEF PlaceExperts
  <1>6. ExpertsAreFilled'
    <2>1. ResidentExperts' = ResidentExperts
      BY DEF ResidentExperts, PlaceExperts, reader
    <2> QED
      BY <1>5, <2>1 DEF ExpertsAreFilled, ReadsExpert, PlaceExperts, Expected
  <1> QED
    BY <1>2, <1>4, <1>6 DEF ModelInv, PlaceExperts

\* Or the cache is attached to them.
LEMMA AttachInv ==
  ASSUME ModelInv, AttachOffloadCache
  PROVE  ModelInv'
  <1>1. /\ checkpoint \in Checkpoints /\ MoeBlocks(checkpoint) \subseteq MoeLayers(checkpoint)
        /\ checkpoint.is_moe
    BY TheCheckpoint DEF ModelInv, LoadTyped, AttachOffloadCache, ShipsItsModel
  <1>2. LoadTyped'
    BY DEF ModelInv, LoadTyped, AttachOffloadCache, ResidentExperts, reader
  <1>3. DenseIsFilled'
    BY <1>1 DEF ModelInv, AttachOffloadCache, DenseIsFilled
  <1>4. ExpertsAreFilled'
    <2>1. ResidentExperts' = {}
      BY WhereExpertsAre DEF ResidentExperts, AttachOffloadCache, reader
    <2>2. \A l \in MoeBlocks(checkpoint), e \in ExpertIds : cacheBanks'[l][e] = Expected(l, e)
      BY <1>1 DEF ModelInv, AttachOffloadCache, BanksAreFilled
    <2> QED
      BY <2>1, <2>2 DEF ExpertsAreFilled, ReadsExpert, AttachOffloadCache, Expected
  <1> QED
    BY <1>2, <1>3, <1>4 DEF ModelInv, AttachOffloadCache

\* Every state of a suite that loads models satisfies the invariant.
LEMMA LoadInvariant == SuiteSpec => []ModelInv
  <1>1. SuiteInit => ModelInv
    BY LoadInitInv DEF SuiteInit
  <1>2. ModelInv /\ [SuiteNext]_allVars => ModelInv'
    <2> SUFFICES ASSUME ModelInv, [SuiteNext]_allVars PROVE ModelInv'
      OBVIOUS
    <2>1. CASE StepModelLoad
      BY <2>1, SeedInv, MakeUpInv, StreamDenseInv, NextShardInv, EndDenseInv, StreamBanksInv,
         PlaceExpertsInv, AttachInv DEF StepModelLoad, Next
    <2>2. CASE UNCHANGED vars
      <3>1. ResidentExperts' = ResidentExperts
        BY <2>2 DEF vars, ResidentExperts, reader
      <3>2. LoadTyped'
        BY <2>2, <3>1 DEF vars, ModelInv, LoadTyped
      <3>3. PassIsSound => PassIsSound'
        BY <2>2 DEF vars, PassIsSound, WentBy, Remaining
      <3>4. DenseIsFilled => DenseIsFilled'
        BY <2>2 DEF vars, DenseIsFilled
      <3>5. BanksAreFilled => BanksAreFilled'
        BY <2>2 DEF vars, BanksAreFilled, BankOf, Expected
      <3>6. ExpertsAreFilled => ExpertsAreFilled'
        BY <2>2, <3>1 DEF vars, ExpertsAreFilled, ReadsExpert, Expected
      <3> QED
        BY <2>2, <3>2, <3>3, <3>4, <3>5, <3>6 DEF vars, ModelInv
    <2> QED
      BY <2>1, <2>2 DEF SuiteNext, StepExpertBanks, StepKernelCache, Stops, allVars
  <1> QED
    BY <1>1, <1>2, PTL DEF SuiteSpec

(***************************************************************************)
(* Whatever the checkpoints, each of its architecture, the backend and the *)
(* order of tensors in a shard: the model handed out holds its checkpoint  *)
(* and nothing else, or made-up experts that only depend on the config.    *)
(* A complete one is refused only if its streamer expects the banks of a   *)
(* layer that is dense, and then it always is (models/loader.py,           *)
(* models/weight.py).                                                      *)
(***************************************************************************)
THEOREM ModelIsAlwaysItsCheckpoint == SuiteSpec => []ModelIsItsCheckpoint
  <1>1. ModelInv => ModelIsItsCheckpoint
    <2> SUFFICES ASSUME ModelInv PROVE ModelIsItsCheckpoint
      OBVIOUS
    <2>1. TypeOK
      BY DEF TypeOK, ModelInv, LoadTyped
    <2>2. NothingIsRandom
      BY DEF NothingIsRandom, ModelInv, DenseIsFilled, ExpertsAreFilled, Expected, Loaded
    <2>3. DummyIsReproducible
      <3> SUFFICES ASSUME status = "loaded", dummy, checkpoint.is_moe
                   PROVE  /\ \A p \in DOMAIN params : params[p].what \in {"zero", "made up"}
                          /\ \A l \in MoeBlocks(checkpoint), e \in ExpertIds :
                               ReadsExpert(l, e).what = "made up"
        BY DEF DummyIsReproducible
      <3>1. \A l \in MoeBlocks(checkpoint), e \in ExpertIds : ReadsExpert(l, e).what = "made up"
        <4>1. \A l, e : Expected(l, e) = Holds("made up", Param("expert", l, e))
          BY DEF Expected
        <4>2. ExpertsAreFilled
          BY DEF ModelInv
        <4>3. \A x, y : Holds(x, y).what = x
          BY DEF Holds
        <4>4. ASSUME NEW l \in MoeBlocks(checkpoint), NEW e \in ExpertIds
              PROVE  ReadsExpert(l, e).what = "made up"
          <5>1. ReadsExpert(l, e) = Expected(l, e)
            BY <4>2 DEF ExpertsAreFilled
          <5> QED
            BY <4>1, <4>3, <5>1
        <4> QED
          BY <4>4
      <3>2. \A p \in DenseParams(checkpoint) : params[p].what = "zero"
        BY DEF ModelInv, DenseIsFilled, ZeroFill, Holds
      <3>3. ASSUME NEW p \in ResidentExperts PROVE params[p].what = "made up"
        <4>1. PICK l \in MoeBlocks(checkpoint), e \in ExpertIds : p = Param("expert", l, e)
          BY <3>3 DEF ResidentExperts, ExpertParams
        <4> QED
          BY <3>1, <3>3, <4>1 DEF ReadsExpert
      <3> QED
        BY <3>1, <3>2, <3>3 DEF ModelInv, LoadTyped
    <2>4. CompleteLoads
      BY DEF CompleteLoads, ModelInv
    <2>5. OtherDenseLayersRefused
      BY DEF OtherDenseLayersRefused, ModelInv
    <2> QED
      BY <2>1, <2>2, <2>3, <2>4, <2>5 DEF ModelIsItsCheckpoint
  <1> QED
    BY <1>1, LoadInvariant, PTL
================================================================================
