--------------------------------- MODULE Daemon ---------------------------------
(***************************************************************************)
(* ft daemon: the control plane (daemon/app.py), the ServeManager behind   *)
(* it (daemon/serve_manager.py) and the clients that call it with a        *)
(* timeout (daemon/client.py, control_cli.py).                             *)
(*                                                                         *)
(* Each call is a route on a thread of its own.  start, stop and status    *)
(* hold the manager's one lock, stop also while it waits for the child; a  *)
(* mutating route then takes the lock again for its status report.  The    *)
(* child may exit by itself, ignore SIGTERM, or outlive a wait.            *)
(***************************************************************************)
EXTENDS Integers, Sequences, FiniteSets

CONSTANTS
  Calls,        \* the calls clients make, each once
  MaxStuck,     \* bound on waits that end before a killed child is gone
  MaxRestarts   \* bound on exits of the daemon process

VARIABLES
  lock,      \* the call that holds ServeManager._lock
  proc,      \* _proc: a child, by its place in children, or NoProc
  children,  \* whether each child that was ever spawned still runs
  call,      \* the calls: route, client and what they were told
  stuck,     \* waits on a killed child that timed out
  restarts   \* exits of the daemon so far

vars == <<lock, proc, children, call, stuck, restarts>>

NoProc == 0
NoCall == "nobody"

\* What the constants have to satisfy.
DaemonAssumption == MaxStuck \in Nat /\ MaxRestarts \in Nat /\ NoCall \notin Calls

Kinds == {"status", "start", "stop"}
NewCall == [kind |-> "status", route |-> "none", client |-> "none", target |-> NoProc,
            report |-> NoProc]

Init ==
  /\ lock = NoCall
  /\ proc = NoProc
  /\ children = <<>>
  /\ call = [c \in Calls |-> NewCall]
  /\ stuck = 0
  /\ restarts = 0

Alive(p) == p # NoProc /\ children[p]

\* DaemonClient._request; without the header a mutating route answers 403.
request(c, kind, header) ==
  /\ call[c].client = "none"
  /\ call' = [call EXCEPT ![c].kind = kind,
       ![c].client = IF header \/ kind = "status" THEN "waiting" ELSE "error",
       ![c].route = IF ~header /\ kind # "status" THEN "answered"
                    ELSE IF kind = "status" THEN "report" ELSE "begin"]
  /\ UNCHANGED <<lock, proc, children, stuck, restarts>>

\* A bug: the check and the spawn are not under the lock.
lock_free_always(c) == TRUE

\* with self._lock.
lock_free(c) == lock = NoCall

\* _is_running_locked.
is_running == Alive(proc)

\* start looks whether a child runs, and refuses with a RuntimeError: a 409.
start_check(c) ==
  /\ call[c].route = "begin"
  /\ call[c].kind = "start"
  /\ lock_free(c)
  /\ lock' = IF is_running THEN lock ELSE c
  /\ call' = [call EXCEPT ![c].route = IF is_running THEN "answered" ELSE "spawn",
                          ![c].client = IF is_running /\ @ = "waiting" THEN "error" ELSE @]
  /\ UNCHANGED <<proc, children, stuck, restarts>>

\* Popen, and the lock is released.
start_spawn(c) ==
  /\ call[c].route = "spawn"
  /\ children' = Append(children, TRUE)
  /\ proc' = Len(children) + 1
  /\ call' = [call EXCEPT ![c].route = "report", ![c].target = Len(children) + 1]
  /\ lock' = NoCall
  /\ UNCHANGED <<stuck, restarts>>

\* stop: nothing to do, or SIGTERM and a wait with the lock held.
stop_begin(c) ==
  /\ call[c].route = "begin"
  /\ call[c].kind = "stop"
  /\ lock_free(c)
  /\ IF is_running
     THEN /\ lock' = c
          /\ call' = [call EXCEPT ![c].route = "terminate", ![c].target = proc]
          /\ UNCHANGED proc
     ELSE /\ proc' = NoProc
          /\ call' = [call EXCEPT ![c].route = "report"]
          /\ UNCHANGED lock
  /\ UNCHANGED <<children, stuck, restarts>>

\* wait(timeout) returns once the child is gone.
stop_wait(c) == ~Alive(proc)

\* The wait returned: the manager is empty and the lock released.
stop_done(c) ==
  /\ call[c].route \in {"terminate", "kill"}
  /\ stop_wait(c)
  /\ proc' = NoProc
  /\ lock' = NoCall
  /\ call' = [call EXCEPT ![c].route = "report"]
  /\ UNCHANGED <<children, stuck, restarts>>

\* The first wait expires: SIGKILL and a second wait.
stop_kill(c) ==
  /\ call[c].route = "terminate"
  /\ Alive(proc)
  /\ call' = [call EXCEPT ![c].route = "kill"]
  /\ UNCHANGED <<lock, proc, children, stuck, restarts>>

\* A bug: the exception leaves the lock taken.
stop_expires_locked(c) ==
  /\ call[c].route = "kill"
  /\ Alive(proc)
  /\ stuck < MaxStuck
  /\ stuck' = stuck + 1
  /\ call' = [call EXCEPT ![c].route = "answered"]
  /\ UNCHANGED <<lock, proc, children, restarts>>

\* The second wait expires too: TimeoutExpired leaves the with block, _proc as
\* it was, and the route answers 500.
stop_expires(c) ==
  /\ call[c].route = "kill"
  /\ Alive(proc)
  /\ stuck < MaxStuck
  /\ stuck' = stuck + 1
  /\ lock' = NoCall
  /\ call' = [call EXCEPT ![c].route = "answered",
                          ![c].client = IF @ = "waiting" THEN "error" ELSE @]
  /\ UNCHANGED <<proc, children, restarts>>

\* status(), the end of every route.
status(c) ==
  /\ call[c].route = "report"
  /\ lock_free(c)
  /\ call' = [call EXCEPT ![c].route = "answered",
                          ![c].report = IF Alive(proc) THEN proc ELSE NoProc,
                          ![c].client = IF @ = "waiting" THEN "ok" ELSE @]
  /\ UNCHANGED <<lock, proc, children, stuck, restarts>>

\* urlopen gives up after 5 seconds; a stop may hold the lock for 20.
client_timeout(c) ==
  /\ call[c].client = "waiting"
  /\ lock # NoCall /\ call[lock].route \in {"terminate", "kill"}
  /\ call' = [call EXCEPT ![c].client = "unreachable"]
  /\ UNCHANGED <<lock, proc, children, stuck, restarts>>

\* The child exits: by itself, on a SIGTERM it honours, or on SIGKILL.
child_exits(p) ==
  /\ Alive(p)
  /\ children' = [children EXCEPT ![p] = FALSE]
  /\ UNCHANGED <<lock, proc, call, stuck, restarts>>

\* The daemon process ends and is started again: main stops no child.
daemon_restarts ==
  /\ restarts < MaxRestarts
  /\ restarts' = restarts + 1
  /\ proc' = NoProc
  /\ lock' = NoCall
  /\ call' = [c \in Calls |->
       [call[c] EXCEPT !.route = IF @ = "none" THEN @ ELSE "answered",
                       !.client = IF @ = "waiting" THEN "unreachable" ELSE @]]
  /\ UNCHANGED <<children, stuck>>

RouteNext(c) ==
  \/ start_check(c) \/ start_spawn(c)
  \/ stop_begin(c) \/ stop_done(c) \/ stop_kill(c) \/ stop_expires(c)
  \/ status(c)

Next ==
  \/ \E c \in Calls, kind \in Kinds, header \in BOOLEAN : request(c, kind, header)
  \/ \E c \in Calls : RouteNext(c) \/ client_timeout(c)
  \/ \E p \in DOMAIN children : child_exits(p)
  \/ daemon_restarts

Spec == Init /\ [][Next]_vars

Killed(c) == call[c].route = "kill" /\ child_exits(call[c].target)

\* Route threads run, the lock is granted to everyone who waits for it, and a
\* child that got SIGKILL goes in the end.
FairSpec ==
  /\ Spec
  /\ \A c \in Calls : SF_vars(RouteNext(c)) /\ WF_vars(Killed(c))

-----------------------------------------------------------------------------
\* Every variable of the daemon keeps its type.
TypeOK ==
  /\ lock \in Calls \union {NoCall}
  /\ proc \in 0 .. Len(children)
  /\ children \in Seq(BOOLEAN)
  /\ \A c \in Calls :
       /\ call[c].kind \in Kinds
       /\ call[c].route \in {"none", "begin", "spawn", "terminate", "kill", "report", "answered"}
       /\ call[c].client \in {"none", "waiting", "ok", "error", "unreachable"}
       /\ call[c].target \in 0 .. Len(children)
       /\ call[c].report \in 0 .. Len(children)

\* ServeManager: concurrent starts, or a start racing a stop, never "spawn two
\* children, leaking the first one's handle".
OneLiveChild ==
  \A p, q \in DOMAIN children : Alive(p) /\ Alive(q) => p = q

\* Every child that runs is the one the manager would stop.
NoOrphan == \A p \in DOMAIN children : Alive(p) => p = proc

\* A stop that is answered with a status has outlived its child, though a start
\* may have put another one in its place.
StopMeansDead ==
  \A c \in Calls : call[c].kind = "stop" /\ call[c].route = "report" => ~Alive(call[c].target)

\* DaemonConnectionError means the daemon "could not be reached", as opposed to
\* an error it answered with.
UnreachableMeansDown ==
  \A c \in Calls : call[c].client = "unreachable" => restarts > 0

\* No route waits for the lock for ever, whatever the children do.
EveryRouteAnswered == \A c \in Calls : call[c].route = "begin" ~> call[c].route = "answered"
=============================================================================
