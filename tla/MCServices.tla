------------------------------ MODULE MCServices ------------------------------
(*****************************************************************************)
(* What serves and has to end, for TLC: the calls of the clients of a server *)
(* with one route thread or two (Serve) and of the daemon (Daemon), and the  *)
(* loads of a kernel by two processes while a build input changes            *)
(* (KernelCache).                                                            *)
(*                                                                           *)
(* A behaviour exercises one service and the others rest, so that the        *)
(* states add up; fairness is asked of the one that is exercised.            *)
(*****************************************************************************)
EXTENDS Integers, Sequences, FiniteSets

CONSTANTS
  Services,     \* the services a behaviour may exercise
  Clients,      \* of the server with one route thread, and of the longest queue
  MaxTokens,    \* max_tokens of the requests to the server with one thread
  MaxFails,     \* bound on builds, on forwards and on compilers that fail
  DaemonCalls,  \* the calls of the daemon's clients
  MaxStuck      \* bound on the daemon's waits that expire

VARIABLES
  service,
  serve_boot, serve_engineRef, serve_engines, serve_client, serve_gen,
  serve_aborted, serve_fails,
  daemon_lock, daemon_proc, daemon_children, daemon_call, daemon_stuck,
  daemon_restarts,
  loader_world, loader_disk, loader_thread, loader_nextTmp, loader_crashes

-----------------------------------------------------------------------------
Server == INSTANCE Serve WITH
  Threads <- 1, Layers <- 6, MaxBuildFails <- MaxFails, MaxForwardFails <- MaxFails,
  boot <- serve_boot, engineRef <- serve_engineRef, engines <- serve_engines,
  client <- serve_client, gen <- serve_gen, aborted <- serve_aborted,
  fails <- serve_fails
Pair == INSTANCE Serve WITH
  Threads <- 2, Layers <- 6, MaxBuildFails <- MaxFails,
  MaxForwardFails <- MaxFails, Clients <- {"a", "b"}, MaxTokens <- 2,
  boot <- serve_boot, engineRef <- serve_engineRef, engines <- serve_engines,
  client <- serve_client, gen <- serve_gen, aborted <- serve_aborted,
  fails <- serve_fails
Queue == INSTANCE Serve WITH
  Threads <- 2, Layers <- 6, MaxBuildFails <- MaxFails,
  MaxForwardFails <- MaxFails, MaxTokens <- 1,
  boot <- serve_boot, engineRef <- serve_engineRef, engines <- serve_engines,
  client <- serve_client, gen <- serve_gen, aborted <- serve_aborted,
  fails <- serve_fails
Supervisor == INSTANCE Daemon WITH
  Calls <- DaemonCalls, MaxRestarts <- 0, lock <- daemon_lock,
  proc <- daemon_proc, children <- daemon_children, call <- daemon_call,
  stuck <- daemon_stuck, restarts <- daemon_restarts
Loader == INSTANCE KernelCache WITH
  Threads <- {1, 2}, ProcessOf <- <<1, 2>>, Kernels <- {"cpu_moe"},
  Compiler <- "path", Inputs <- {"cxx"}, MaxChanges <- 1, MaxCrashes <- 0,
  world <- loader_world, disk <- loader_disk, thread <- loader_thread,
  nextTmp <- loader_nextTmp, crashes <- loader_crashes

serveVars ==
  <<serve_boot, serve_engineRef, serve_engines, serve_client, serve_gen,
  serve_aborted, serve_fails>>
daemonVars ==
  <<daemon_lock, daemon_proc, daemon_children, daemon_call, daemon_stuck,
  daemon_restarts>>
loaderVars ==
  <<loader_world, loader_disk, loader_thread, loader_nextTmp, loader_crashes>>
serviceVars == <<service, serveVars, daemonVars, loaderVars>>

ASSUME ServicesAssumption ==
  /\ Server!ServeAssumption
  /\ Pair!ServeAssumption
  /\ Queue!ServeAssumption
  /\ Supervisor!DaemonAssumption
  /\ Loader!KernelCacheAssumption

\* One service is exercised; the others rest in one of their initial states.
ServicesInit ==
  /\ service \in Services
  /\ \/ service = "serve" /\ Server!Init
     \/ service \notin {"serve", "queue"} /\ Pair!Init
     \/ service = "queue" /\ Queue!Init
  /\ Supervisor!Init
  /\ Loader!Init

StepServe ==
  /\ \/ service = "serve" /\ Server!Next
     \/ service = "pair" /\ Pair!Next
     \/ service = "queue" /\ Queue!Next
  /\ UNCHANGED <<service, daemonVars, loaderVars>>
StepDaemon ==
  /\ service = "daemon"
  /\ Supervisor!Next
  /\ UNCHANGED <<service, serveVars, loaderVars>>
StepLoader ==
  /\ service = "loader"
  /\ Loader!Next
  /\ UNCHANGED <<service, serveVars, daemonVars>>

\* A finite component may stop; the others may never block.
ServicesStop ==
  /\ service \in {"serve", "pair", "queue", "daemon", "loader"}
  /\ UNCHANGED serviceVars

ServicesNext ==
  \/ StepServe
  \/ StepDaemon
  \/ StepLoader
  \/ ServicesStop

ServicesSpec == ServicesInit /\ [][ServicesNext]_serviceVars

(***************************************************************************)
(* Threads run: a route thread that can step does, the lock of the daemon  *)
(* is granted to everyone who waits for it, a child that got SIGKILL goes  *)
(* in the end, and a thread inside a load goes on.  Clients owe nothing,   *)
(* and nobody owes a crash, an edit or an exit.                            *)
(***************************************************************************)
FairServicesSpec ==
  /\ ServicesSpec
  /\ \A c \in {"a", "b"} : WF_serveVars(service = "pair" /\ Pair!ThreadNext(c))
  /\ \A c \in Clients : WF_serveVars(service = "queue" /\ Queue!ThreadNext(c))
  /\ \A c \in DaemonCalls :
       /\ SF_daemonVars(service = "daemon" /\ Supervisor!RouteNext(c))
       /\ WF_daemonVars(service = "daemon" /\ Supervisor!Killed(c))
  /\ \A t \in {1, 2} :
       WF_loaderVars(/\ service = "loader"
                          /\ loader_thread[t].pc \notin {"idle", "over"}
                          /\ Loader!Step(t))

-----------------------------------------------------------------------------
(***************************************************************************)
(* With one route thread every client that gets a 200 gets its own tokens, *)
(* all of them, from the one engine, which is idle between two requests    *)
(* until a forward raises: from then on its row stays taken and nobody is  *)
(* served (server/launch.py, server/generation.py, Engine.generate).       *)
(***************************************************************************)
OneThreadServes ==
  service = "serve" =>
    /\ Server!TypeOK
    /\ Server!OwnTokensOnly
    /\ Server!AnswerComplete
    /\ Server!OneEngine
    /\ Server!IdleUnlessAForwardRaised
    /\ Server!NoneServedAfterAFailure

(***************************************************************************)
(* The daemon never has two live children, loses none it spawned, and a    *)
(* stop that reports success left no child alive, whatever the             *)
(* interleaving of its routes and of exits (daemon/serve_manager.py).      *)
(***************************************************************************)
SupervisorOwnsItsChild ==
  /\ Supervisor!TypeOK
  /\ Supervisor!OneLiveChild
  /\ Supervisor!NoOrphan
  /\ Supervisor!StopMeansDead

(***************************************************************************)
(* Every route ends: the client of a server that may mix, fail and abort   *)
(* requests gets an end of its answer, a call of the daemon is answered    *)
(* although stop waits with the lock held, and a thread that loads a       *)
(* kernel gets it or an error.                                             *)
(***************************************************************************)
EveryCallEnds ==
  /\ \A c \in {"a", "b"} :
       service = "pair" /\ Pair!Active(c) ~> (service = "pair" => serve_client[c].phase = "answered")
  /\ \A c \in Clients :
       service = "queue" /\ Queue!Active(c) ~> (service = "queue" => serve_client[c].phase = "answered")
  /\ Supervisor!EveryRouteAnswered
  /\ Loader!LoadsEnd

\* Two requests at a time: each client gets its own tokens, as the uid of a Req
\* promises (engine/engine.py:1076).
OwnTokensOnly == Pair!OwnTokensOnly
=============================================================================
