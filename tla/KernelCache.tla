------------------------------ MODULE KernelCache ------------------------------
(***************************************************************************)
(* The on-disk cache of compiled kernels (kernel/utils.py, kernel/aot.py,  *)
(* kernel/_toolchain.py, the build half of kernel/cpu_moe.py, and the lazy *)
(* load of attention/sycl.py).                                             *)
(*                                                                         *)
(* Threads of several processes want a module at the same time.  A module  *)
(* is content-addressed: its directory is named after the build inputs.    *)
(* cpu_moe compiles into a private file and renames it; hello_copy and     *)
(* attention compile in place.  The linker unlinks its output and then     *)
(* writes it, so a file is partial from the start of a compile until its   *)
(* last writer ends.  A compiler may fail, a process may die anywhere, with *)
(* or without the compiler it started, and an input of the key (a source   *)
(* edited, a compiler updated) may change anywhere.                        *)
(***************************************************************************)
EXTENDS Integers, FiniteSets, Functions

CONSTANTS
  Threads,      \* threads that load kernels
  ProcessOf,    \* the process each thread belongs to
  Kernels,      \* the kernels in use: a subset of {"hello_copy", "attention", "cpu_moe"}
  Compiler,     \* where icpx is: "override", "path", "root" or "none"
  Inputs,       \* the build inputs that may change
  MaxChanges,   \* bound on such changes
  MaxCrashes,   \* bound on processes that die
  MaxFails      \* a compiler may fail while no more temporaries than this were made

\* What the constants have to satisfy.
KernelCacheAssumption ==
  /\ Kernels \subseteq {"hello_copy", "attention", "cpu_moe"}
  /\ Compiler \in {"override", "path", "root", "none"}
  /\ Inputs \subseteq {"oneapi", "ze", "isa", "cxx", "arch", "src"}
  /\ {MaxChanges, MaxCrashes, MaxFails} \subseteq Nat

VARIABLES
  world,    \* the version of every build input
  disk,     \* the files: who writes or wrote it, from which inputs, and is it whole
  thread,   \* what each thread is doing
  nextTmp,  \* names mkstemp has given out
  crashes   \* processes that died so far

vars == <<world, disk, thread, nextTmp, crashes>>

\* The inputs folded into the key of a kernel.
Legs(kernel) ==
  IF kernel = "cpu_moe" THEN {"cxx", "arch", "src"} ELSE {"oneapi", "ze", "isa", "src"}

\* cache_key, _build_key: the key under the inputs as they are now.
cache_key(kernel) == <<kernel, Restrict(world, Legs(kernel))>>

\* The compiler found on PATH or by an override is usable; under the roots of
\* setvars.sh the probe calls a method pathlib.Path does not have.
find_icpx ==
  CASE Compiler \in {"override", "path"} -> "found"
    [] Compiler = "root" -> "AttributeError"
    [] OTHER -> "ToolchainError"

find_compiler(kernel) == IF kernel = "cpu_moe" THEN "found" ELSE find_icpx

Idle == [pc |-> "idle", kernel |-> "none", path |-> <<"none", 0>>,
         target |-> <<"none", 0>>, got |-> "none"]

InitWorld == [leg \in {"oneapi", "ze", "isa", "cxx", "arch", "src"} |-> 0]

Init ==
  /\ world = InitWorld
  /\ disk = <<>>
  /\ thread = [t \in Threads |-> Idle]
  /\ nextTmp = 0
  /\ crashes = 0

Exists(f) == f \in DOMAIN disk
Without(f) == Restrict(disk, DOMAIN disk \ {f})
Writing(f, t, inputs) ==
  [g \in DOMAIN disk \union {f} |->
     IF g = f THEN [by |-> t, from |-> inputs, whole |-> FALSE] ELSE disk[g]]

goto(t, pc) == thread' = [thread EXCEPT ![t].pc = pc]
raise(t, error) == thread' = [thread EXCEPT ![t] = [Idle EXCEPT !.pc = "over", !.got = error]]

--------------------------------------------------------------------------------
\* hello_copy, _ensure_loaded, cpu_moe: compute the key.  icpx_version lets any
\* error but ToolchainError through.
want(t) ==
  /\ thread[t].pc \in {"idle", "over"}
  /\ \E k \in Kernels :
       IF find_compiler(k) = "AttributeError"
       THEN raise(t, "AttributeError")
       ELSE thread' = [thread EXCEPT ![t] = [Idle EXCEPT !.kernel = k, !.pc = "lookup",
                                                         !.path = cache_key(k)]]
  /\ UNCHANGED <<world, disk, nextTmp, crashes>>

lookup(t) ==
  /\ thread[t].pc = "lookup"
  /\ goto(t, IF Exists(thread[t].path) THEN "load" ELSE "build")
  /\ UNCHANGED <<world, disk, nextTmp, crashes>>

\* A file mkstemp has just made.
TmpName(t) == <<"tmp", nextTmp>>

\* A bug: the module is compiled in place.
TargetSlip(t) == thread[t].path

\* cpu_moe compiles into a file mkstemp has just made; hello_copy compiles into
\* the path it looked up; build_aot_cache computes the key once more.
Target(t) ==
  CASE thread[t].kernel = "cpu_moe" -> TmpName(t)
    [] thread[t].kernel = "attention" -> cache_key("attention")
    [] OTHER -> thread[t].path

build(t) ==
  /\ thread[t].pc = "build"
  /\ IF find_compiler(thread[t].kernel) = "found"
     THEN /\ thread' = [thread EXCEPT ![t].pc = "compile", ![t].target = Target(t)]
          /\ nextTmp' = IF thread[t].kernel = "cpu_moe" THEN nextTmp + 1 ELSE nextTmp
     ELSE raise(t, "ToolchainError") /\ UNCHANGED nextTmp
  /\ UNCHANGED <<world, disk, crashes>>

\* The compiler is started, reads the source as it is now and starts its output.
compile_begins(t) ==
  /\ thread[t].pc = "compile"
  /\ disk' = Writing(thread[t].target, t, Restrict(world, Legs(thread[t].kernel)))
  /\ goto(t, "link")
  /\ UNCHANGED <<world, nextTmp, crashes>>

\* Done: if another compiler has meanwhile unlinked and restarted this output,
\* the file that has the name is still that one's.
compile_ends(t) ==
  /\ thread[t].pc = "link"
  /\ LET f == thread[t].target IN
       disk' = IF Exists(f) /\ disk[f].by = t
               THEN [disk EXCEPT ![f].whole = TRUE] ELSE disk
  /\ goto(t, IF thread[t].kernel = "cpu_moe" THEN "install" ELSE "load")
  /\ UNCHANGED <<world, nextTmp, crashes>>

\* The ToolchainError of a returncode: the driver removes the output it had
\* started, and cpu_moe unlinks its temporary (finally).
compile_fails(t) ==
  /\ thread[t].pc \in {"compile", "link"}
  /\ nextTmp <= MaxFails
  /\ disk' = IF thread[t].pc = "link" THEN Without(thread[t].target) ELSE disk
  /\ raise(t, "CompileFailed")
  /\ UNCHANGED <<world, nextTmp, crashes>>

\* os.replace into place; a temporary that is gone makes it raise.
install(t) ==
  /\ thread[t].pc = "install"
  /\ LET tmp == thread[t].target
         so == thread[t].path IN
       IF Exists(tmp)
       THEN /\ disk' = [g \in (DOMAIN disk \ {tmp}) \union {so} |->
                          IF g = so THEN disk[tmp] ELSE disk[g]]
            /\ goto(t, "load")
       ELSE raise(t, "FileNotFoundError") /\ UNCHANGED disk
  /\ UNCHANGED <<world, nextTmp, crashes>>

\* dlopen of the path that was looked up.
load(t) ==
  /\ thread[t].pc = "load"
  /\ LET so == thread[t].path IN
       raise(t, IF ~Exists(so) THEN "missing"
                ELSE IF ~disk[so].whole THEN "partial"
                ELSE IF disk[so].from = so[2] THEN "module" ELSE "stale")
  /\ UNCHANGED <<world, disk, nextTmp, crashes>>

--------------------------------------------------------------------------------
\* A source is edited, a compiler or a driver is updated.
Changes == Cardinality({leg \in DOMAIN world : world[leg] > 0})
change(leg) ==
  /\ world[leg] = 0
  /\ Changes < MaxChanges
  /\ world' = [world EXCEPT ![leg] = 1]
  /\ UNCHANGED <<disk, thread, nextTmp, crashes>>

\* A process is killed; it may be started again.
crash(p) ==
  /\ crashes < MaxCrashes
  /\ crashes' = crashes + 1
  /\ thread' = [t \in Threads |-> IF ProcessOf[t] = p THEN Idle ELSE thread[t]]
  /\ UNCHANGED <<world, disk, nextTmp>>

\* SIGKILL does not reach the compiler a process started: it may go on and
\* complete an output that no thread waits for any more.
Waits(t, f) == thread[t].pc = "link" /\ thread[t].target = f /\ disk[f].by = t
outlive(f) ==
  /\ ~disk[f].whole
  /\ ~\E t \in Threads : Waits(t, f)
  /\ disk' = [disk EXCEPT ![f].whole = TRUE]
  /\ UNCHANGED <<world, thread, nextTmp, crashes>>

Step(t) ==
  \/ want(t) \/ lookup(t) \/ build(t) \/ compile_begins(t) \/ compile_ends(t)
  \/ compile_fails(t) \/ install(t) \/ load(t)

Next ==
  \/ \E t \in Threads : Step(t)
  \/ \E leg \in Inputs : change(leg)
  \/ \E p \in Range(ProcessOf) : crash(p)
  \/ \E f \in DOMAIN disk : outlive(f)

Spec == Init /\ [][Next]_vars

\* A thread that is inside a load goes on; calls, crashes and edits are not owed.
FairSpec == Spec /\ \A t \in Threads : WF_vars(Step(t) /\ thread[t].pc \notin {"idle", "over"})

--------------------------------------------------------------------------------
Pcs == {"idle", "lookup", "build", "compile", "link", "install", "load", "over"}
Outcomes == {"none", "module", "stale", "partial", "missing",
             "ToolchainError", "CompileFailed", "AttributeError", "FileNotFoundError"}
InstalledPath(f) == f[1] # "tmp"

\* Shape of the state: outcomes only at the end, temporaries only under
\* names that mkstemp gave out.
TypeOK ==
  /\ world \in [DOMAIN InitWorld -> 0..1]
  /\ \A t \in Threads :
       /\ thread[t].pc \in Pcs
       /\ thread[t].got \in Outcomes
       /\ (thread[t].got # "none") <=> (thread[t].pc = "over")
       /\ thread[t].pc \in {"link", "install"} /\ thread[t].kernel = "cpu_moe"
            => Exists(thread[t].target)
  /\ \A f \in DOMAIN disk : InstalledPath(f) \/ f[2] < nextTmp
  /\ crashes \in 0..MaxCrashes

\* cpu_moe: whoever finds the module of its key in the cache finds all of it,
\* although others install the same key and processes die in the middle.
NoPartialModule ==
  \A f \in DOMAIN disk : InstalledPath(f) => disk[f].whole

\* The rename a thread does is of the file it compiled itself, complete.
InstallsOwnWork ==
  \A t \in Threads : thread[t].pc = "install" =>
    /\ disk[thread[t].target].by = t
    /\ disk[thread[t].target].whole

\* A module that is in the cache stays loadable: a second build of the same
\* key never takes it away from a process about to load it.
WarmStaysWarm ==
  [][\A f \in DOMAIN disk :
       InstalledPath(f) /\ disk[f].whole => f \in DOMAIN disk' /\ disk'[f].whole]_vars

\* With no crash, no temporary outlives the calls that made it, those whose
\* compiler failed included.
TemporariesAreCleared ==
  crashes = 0 /\ (\A t \in Threads : thread[t].pc \in {"idle", "over"}) =>
    \A f \in DOMAIN disk : InstalledPath(f)

\* cpu_moe: nothing but a compiler that is not there or fails keeps a thread from
\* a whole module, whatever the other threads and processes do.
EveryLoadSucceeds ==
  \A t \in Threads : thread[t].got \in {"none", "module", "stale", "ToolchainError", "CompileFailed"}

\* "a stale module is never loaded": what is in the directory of a key was
\* built from the inputs of that key.
StaleNeverLoaded == \A t \in Threads : thread[t].got # "stale"

\* "The existence check and the build must use the SAME cache key": a path that
\* was checked and then built exists.
BuiltWhereChecked == \A t \in Threads : thread[t].got # "missing"

\* "Resolution order: [...] then the bin directories under CMPLR_ROOT /
\* ONEAPI_ROOT", or a ToolchainError.
IcpxIsFound ==
  \A t \in Threads : thread[t].got # "AttributeError"

\* Every load that starts ends, with a module or with an error.
LoadsEnd == \A t \in Threads : thread[t].pc = "lookup" ~> thread[t].pc \in {"over", "idle"}
================================================================================
