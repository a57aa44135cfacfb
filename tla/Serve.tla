---------------------------------- MODULE Serve ----------------------------------
(***************************************************************************)
(* ft serve: the walk over the layers, the lazy engine holder and the      *)
(* route threads that drive one engine (server/launch.py, api_server.py,   *)
(* openai_api.py, anthropic_api.py, generation.py, and the loop of         *)
(* Engine.generate).                                                       *)
(*                                                                         *)
(* FastAPI runs a plain def route in a pool of threads, so two clients     *)
(* call into the same engine without a lock.  A step of the engine is two  *)
(* actions, around the forward; the bookkeeping on either side is taken as *)
(* atomic.  A generated token is named after the client whose prompt the   *)
(* forward ran.                                                            *)
(***************************************************************************)
EXTENDS Integers, Sequences, FiniteSets, FiniteSetsExt, SequencesExt

CONSTANTS
  Clients,         \* each sends one request
  Threads,         \* threads the routes may occupy
  Layers,          \* how many layers the spine checks
  MaxTokens,       \* max_tokens of every request
  MaxBuildFails,   \* bound on engine builds that fail
  MaxForwardFails  \* bound on forwards that raise

\* What the constants have to satisfy.
ServeAssumption ==
  /\ Threads \in Nat \ {0}
  /\ Layers \in Nat
  /\ MaxTokens \in Nat \ {0}
  /\ MaxBuildFails \in Nat
  /\ MaxForwardFails \in Nat

VARIABLES
  boot,        \* layers checked, or how the walk ended
  engineRef,   \* engine_ref of the holder: the engine new requests get
  engines,     \* the scheduler of every engine that was built
  client,      \* the route of each client
  gen,         \* tokens sampled for each client's Req
  aborted,     \* the Reqs whose aborted flag is set: finished ones
  fails        \* failures so far: of builds and of forwards

vars == <<boot, engineRef, engines, client, gen, aborted, fails>>

\* Every request is admitted with max_running_req = 1 and uid = 0.
Rows == 1
Uid(c) == 0

NoEngine == 0
NewEngine == [pending |-> <<>>, running |-> {}, freeRows |-> <<1>>]
NewClient == [phase |-> "new", stream |-> FALSE, engine |-> NoEngine, budget |-> 0,
              batch |-> {}, tokens |-> <<>>, status |-> 0]

Active(c) == client[c].phase \notin {"new", "answered"}

Init ==
  /\ boot = 0
  /\ engineRef = NoEngine
  /\ engines = <<>>
  /\ client = [c \in Clients |-> NewClient]
  /\ gen = [c \in Clients |-> 0]
  /\ aborted = {}
  /\ fails = [build |-> 0, forward |-> 0]

\* _walk: a stub or a misconfigured machine ends it; after the last layer
\* run_api_server serves.
walk(ok) ==
  /\ boot \in 0 .. Layers
  /\ boot' = IF boot = Layers THEN Layers + 1 ELSE IF ok THEN boot + 1 ELSE -1
  /\ UNCHANGED <<engineRef, engines, client, gen, aborted, fails>>

Serving == boot = Layers + 1

\* A route starts on a thread of its own; a stream has sent its 200 by the
\* time the generator first runs.
receive(c, stream) ==
  /\ Serving
  /\ client[c].phase = "new"
  /\ Cardinality({d \in Clients : Active(d)}) < Threads
  /\ client' = [client EXCEPT ![c].phase = "holder", ![c].stream = stream,
                              ![c].status = IF stream THEN 200 ELSE 0]
  /\ UNCHANGED <<boot, engineRef, engines, gen, aborted, fails>>

\* engine_holder: "engine" in engine_ref.
holder_seen(c) == engineRef # NoEngine

\* engine_holder: the test, outside any lock, and the start of a build.
engine_holder(c) ==
  /\ client[c].phase = "holder"
  /\ client' = [client EXCEPT
       ![c].phase = IF holder_seen(c) THEN "admit" ELSE "build",
       ![c].engine = IF holder_seen(c) THEN engineRef ELSE NoEngine]
  /\ UNCHANGED <<boot, engineRef, engines, gen, aborted, fails>>

\* The engine is loaded, given its tokenizer and anchor, and published.
build_engine(c) ==
  /\ client[c].phase = "build"
  /\ engines' = Append(engines, NewEngine)
  /\ engineRef' = Len(engines) + 1
  /\ client' = [client EXCEPT ![c].phase = "admit", ![c].engine = Len(engines) + 1]
  /\ UNCHANGED <<boot, gen, aborted, fails>>

\* The route answers with an error, unless its 200 has already gone out.
failed(c, status) ==
  [client EXCEPT ![c].phase = "answered", ![c].tokens = <<>>,
                 ![c].status = IF client[c].stream THEN 200 ELSE status]

\* The build raises NotYetImplemented, which _engine maps to a 503.
build_fails(c) ==
  /\ client[c].phase = "build"
  /\ fails.build < MaxBuildFails
  /\ client' = failed(c, 503)
  /\ fails' = [fails EXCEPT !.build = @ + 1]
  /\ UNCHANGED <<boot, engineRef, engines, gen, aborted>>

\* _stream_tokens: add_request takes the row, or raises through the route.
add_request(c) ==
  LET e == client[c].engine
  IN  /\ client[c].phase = "admit"
      /\ IF engines[e].freeRows = <<>>
         THEN client' = failed(c, 500) /\ UNCHANGED engines
         ELSE /\ client' = [client EXCEPT ![c].phase = "generate"]
              /\ engines' = [engines EXCEPT ![e].pending = Append(@, c),
                                            ![e].freeRows = Tail(@)]
      /\ UNCHANGED <<boot, engineRef, gen, aborted, fails>>

\* generate: nothing pending means nothing to return; otherwise the budget is
\* one prefill step and max_tokens decode steps for every pending prompt.
generate(c) ==
  LET s == engines[client[c].engine]
  IN  /\ client[c].phase = "generate"
      /\ client' = [client EXCEPT
           ![c].phase = IF s.pending = <<>> THEN "answered" ELSE "loop",
           ![c].status = IF s.pending = <<>> THEN 200 ELSE @,
           ![c].budget = Len(s.pending) * (1 + MaxTokens) + Cardinality(s.running)]
      /\ UNCHANGED <<boot, engineRef, engines, gen, aborted, fails>>

\* The loop ends: the tokens collected under the uid are decoded and sent.
finish(c) == [client EXCEPT ![c].phase = "answered", ![c].status = 200]

\* schedule: the pending prompt leaves the queue, else the decode set runs;
\* an idle scheduler ends the loop, as the budget does.
step_begin(c) ==
  LET e == client[c].engine
      s == engines[e]
  IN  /\ client[c].phase = "loop"
      /\ IF client[c].budget = 0 \/ (s.pending = <<>> /\ s.running = {})
         THEN client' = finish(c) /\ UNCHANGED engines
         ELSE /\ client' = [client EXCEPT ![c].phase = "forward",
                   ![c].batch = IF s.pending # <<>> THEN {Head(s.pending)} ELSE s.running]
              /\ engines' = [engines EXCEPT ![e].pending = IF @ = <<>> THEN @ ELSE Tail(@)]
      /\ UNCHANGED <<boot, engineRef, gen, aborted, fails>>

\* A bug: complete() forgets the request whose batch finished it.
freed_none(b, done) == <<>>

\* complete(): the row of every request of the batch that is done.
freed(b, done) == [i \in 1 .. Cardinality(b \intersect done) |-> 1]

\* Req.can_decode, by which filter_reqs prunes the decode set.
can_decode(d, done) == d \notin done

\* generate: the tokens of the batch filed under this thread's uid.
collected(c, b) == SetToSeq({d \in b : Uid(d) = Uid(c)})

\* The forward, the sample (eos for some), complete(), and the token appended
\* to the list of the thread that ran the step.
step_end(c, eos) ==
  LET e == client[c].engine
      b == client[c].batch
      gen1 == [d \in Clients |-> IF d \in b THEN gen[d] + 1 ELSE gen[d]]
      done == aborted \union eos \union {d \in b : gen1[d] >= MaxTokens}
  IN  /\ client[c].phase = "forward"
      /\ eos \subseteq b
      /\ gen' = gen1
      /\ aborted' = done
      /\ engines' = [engines EXCEPT
           ![e].running = {d \in @ \union b : can_decode(d, done)},
           ![e].freeRows = @ \o freed(b, done)]
      /\ client' = [client EXCEPT ![c].phase = "loop", ![c].batch = {},
           ![c].budget = @ - 1, ![c].tokens = @ \o collected(c, b)]
      /\ UNCHANGED <<boot, engineRef, fails>>

\* The forward raises: complete() is never called and the route fails.
step_raises(c) ==
  /\ client[c].phase = "forward"
  /\ fails.forward < MaxForwardFails
  /\ client' = [failed(c, 500) EXCEPT ![c].batch = {}]
  /\ fails' = [fails EXCEPT !.forward = @ + 1]
  /\ UNCHANGED <<boot, engineRef, engines, gen, aborted>>

ThreadNext(c) ==
  \/ engine_holder(c)
  \/ build_engine(c)
  \/ build_fails(c)
  \/ add_request(c)
  \/ generate(c)
  \/ step_begin(c)
  \/ \E eos \in SUBSET Clients : step_end(c, eos)
  \/ step_raises(c)

Next ==
  \/ \E ok \in BOOLEAN : walk(ok)
  \/ \E c \in Clients : ThreadNext(c) \/ \E stream \in BOOLEAN : receive(c, stream)

Spec == Init /\ [][Next]_vars

\* A thread that can run does: the interpreter switches between threads.
FairSpec == Spec /\ \A c \in Clients : WF_vars(ThreadNext(c))

-----------------------------------------------------------------------------
\* Every variable of the server keeps its type.
TypeOK ==
  /\ boot \in -1 .. (Layers + 1)
  /\ engineRef \in 0 .. Len(engines)
  /\ \A i \in 1 .. Len(engines) :
       /\ engines[i].pending \in Seq(Clients)
       /\ engines[i].running \subseteq Clients
       /\ engines[i].freeRows \in Seq({1})
  /\ \A c \in Clients :
       /\ client[c].tokens \in Seq(Clients)
       /\ client[c].engine \in 0 .. Len(engines)
       /\ client[c].budget \in Nat
       /\ client[c].status \in {0, 200, 500, 503}

\* generate(): "The admission order is the contract the server relies on to map
\* results back to API calls": a client is sent tokens of its own prompt only.
OwnTokensOnly == \A c \in Clients : \A i \in 1 .. Len(client[c].tokens) : client[c].tokens[i] = c

\* A 200 answer carries everything that was sampled for the client, and a
\* request that was run to its end had at least one token.
AnswerComplete ==
  \A c \in Clients : client[c].phase = "answered" /\ client[c].status = 200 /\ ~client[c].stream =>
    Len(client[c].tokens) = gen[c] /\ gen[c] >= 1

\* launch.py: the holder builds the engine on first invocation and keeps it.
OneEngine == Len(engines) <= 1

\* generate() runs "until the scheduler is idle -- no prompt waiting and no
\* request still decoding": once every thread has answered, the row is free again.
\* It fails once a forward has raised.
IdleBetweenRequests ==
  (\A c \in Clients : ~Active(c)) =>
    \A i \in 1 .. Len(engines) :
      /\ engines[i].pending = <<>>
      /\ engines[i].running = {}
      /\ Len(engines[i].freeRows) = Rows

\* With one thread: a forward that raises leaves its request where it was, for
\* step() calls complete() only after it.  The queue is empty between requests,
\* and the decode set and the row are as before unless a forward has raised.
IdleUnlessAForwardRaised ==
  (\A c \in Clients : ~Active(c)) =>
    \A i \in 1 .. Len(engines) :
      /\ engines[i].pending = <<>>
      /\ fails.forward = 0 => engines[i].running = {} /\ Len(engines[i].freeRows) = Rows

\* With one thread: from the first forward that raises on nobody gets into the
\* loop again, although the engine goes on answering: its only row stays taken.
NoneServedAfterAFailure ==
  fails.forward > 0 =>
    /\ \A i \in 1 .. Len(engines) : engines[i].freeRows = <<>>
    /\ \A c \in Clients : client[c].phase \notin {"generate", "loop", "forward"}

\* complete() frees a finished request's row once, so the cap of one request
\* per engine holds whichever threads stepped it.
RowFreedOnce == \A i \in 1 .. Len(engines) : Len(engines[i].freeRows) <= Rows

\* openai_api.py: a not-yet-ready engine "yields a clean 503".
CleanUnavailable ==
  \A c \in Clients : client[c].phase = "answered" /\ client[c].engine = NoEngine =>
    client[c].status = 503

\* Whatever the threads do to one another's requests and whichever build or
\* forward fails, every route returns.
EveryClientAnswered == \A c \in Clients : Active(c) ~> client[c].phase = "answered"
=============================================================================
