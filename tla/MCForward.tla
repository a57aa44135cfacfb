------------------------------ MODULE MCForward ------------------------------
(*****************************************************************************)
(* One step of the model on a batch, for TLC: what the forward of every      *)
(* architecture reads and writes in the KV pool and in the rows' states      *)
(* (ForwardPass), and how the next tokens are drawn (Sampler).               *)
(*                                                                           *)
(* A behaviour exercises one configuration of the forward or of the          *)
(* sampler, so that the states add up. The configurations of ForwardPass     *)
(* share its variables.                                                      *)
(*****************************************************************************)
EXTENDS Integers, Sequences, FiniteSets

CONSTANTS
  Parts    \* the parts a behaviour may exercise

VARIABLES
  part,
  pass_arch, pass_req, pass_fresh, pass_free, pass_page_table, pass_kv,
  pass_rowState, pass_cached, pass_graph, pass_seen,
  sampler_batch, sampler_draws

-----------------------------------------------------------------------------
GroupedArchs ==
  {"qwen3", "qwen3_moe", "qwen2_moe", "olmoe", "deepseek_v2_lite", "deepseek_v4", "qwen3_5_moe"}
AddressedArchs == {"glm4_moe", "gpt_oss", "glm_moe_dsa", "qwen4_exp"}

\* A peaked and a flat distribution, and one with ties, of total 16.
FourDists == {<<9, 4, 2, 1>>, <<3, 4, 4, 5>>, <<1, 7, 7, 1>>}

Ask(greedy, k, p) == [greedy |-> greedy, top_k |-> k, top_p |-> p]

\* Greedy rows, and rows that limit k, p, both or nothing; -1 is the default
\* of k, 0 the p that asks for the likeliest only.
AnySettings ==
  {Ask(TRUE, -1, 16)} \cup {Ask(FALSE, k, p) : k \in {-1, 1, 3}, p \in {0, 1, 7, 15, 16}}

-----------------------------------------------------------------------------
Windowed == INSTANCE ForwardPass WITH
  Archs <- {"mellum"}, PrefillBackend <- "torch", DecodeBackend <- "torch",
  Uids <- {1, 2, 3}, Rows <- {0, 1}, MaxSeq <- 5, NumSlots <- 13, Shared <- 2,
  Prompts <- {3}, MaxTokens <- 2, Budget <- 3, PrefixCaching <- TRUE,
  Capturing <- FALSE, arch <- pass_arch, req <- pass_req, fresh <- pass_fresh,
  free <- pass_free, page_table <- pass_page_table, kv <- pass_kv,
  rowState <- pass_rowState, cached <- pass_cached, graph <- pass_graph,
  seen <- pass_seen
Grouped == INSTANCE ForwardPass WITH
  Archs <- GroupedArchs, PrefillBackend <- "torch", DecodeBackend <- "torch",
  Uids <- {1, 2}, Rows <- {0, 1}, MaxSeq <- 5, NumSlots <- 13, Shared <- 2,
  Prompts <- {2, 3}, MaxTokens <- 2, Budget <- 3, PrefixCaching <- TRUE,
  Capturing <- FALSE, arch <- pass_arch, req <- pass_req, fresh <- pass_fresh,
  free <- pass_free, page_table <- pass_page_table, kv <- pass_kv,
  rowState <- pass_rowState, cached <- pass_cached, graph <- pass_graph,
  seen <- pass_seen
Stateful == INSTANCE ForwardPass WITH
  Archs <- {"lfm2_moe"}, PrefillBackend <- "torch", DecodeBackend <- "torch",
  Uids <- {1, 2, 3}, Rows <- {0, 1}, MaxSeq <- 5, NumSlots <- 13, Shared <- 2,
  Prompts <- {3}, MaxTokens <- 2, Budget <- 3, PrefixCaching <- FALSE,
  Capturing <- FALSE, arch <- pass_arch, req <- pass_req, fresh <- pass_fresh,
  free <- pass_free, page_table <- pass_page_table, kv <- pass_kv,
  rowState <- pass_rowState, cached <- pass_cached, graph <- pass_graph,
  seen <- pass_seen
Addressed == INSTANCE ForwardPass WITH
  Archs <- AddressedArchs, PrefillBackend <- "torch", DecodeBackend <- "torch",
  Uids <- {1, 2}, Rows <- {0, 1}, MaxSeq <- 5, NumSlots <- 13, Shared <- 2,
  Prompts <- {2, 3}, MaxTokens <- 2, Budget <- 3, PrefixCaching <- FALSE,
  Capturing <- FALSE, arch <- pass_arch, req <- pass_req, fresh <- pass_fresh,
  free <- pass_free, page_table <- pass_page_table, kv <- pass_kv,
  rowState <- pass_rowState, cached <- pass_cached, graph <- pass_graph,
  seen <- pass_seen
Sycl == INSTANCE ForwardPass WITH
  Archs <- {"mellum"}, PrefillBackend <- "sycl", DecodeBackend <- "sycl",
  Uids <- {1, 2}, Rows <- {0, 1}, MaxSeq <- 5, NumSlots <- 13, Shared <- 2,
  Prompts <- {2, 3}, MaxTokens <- 2, Budget <- 3, PrefixCaching <- TRUE,
  Capturing <- FALSE, arch <- pass_arch, req <- pass_req, fresh <- pass_fresh,
  free <- pass_free, page_table <- pass_page_table, kv <- pass_kv,
  rowState <- pass_rowState, cached <- pass_cached, graph <- pass_graph,
  seen <- pass_seen
Captured == INSTANCE ForwardPass WITH
  Archs <- {"qwen3"}, PrefillBackend <- "torch", DecodeBackend <- "torch",
  Uids <- {1, 2}, Rows <- {0, 1}, MaxSeq <- 5, NumSlots <- 13, Shared <- 2,
  Prompts <- {2}, MaxTokens <- 3, Budget <- 3, PrefixCaching <- TRUE,
  Capturing <- TRUE, arch <- pass_arch, req <- pass_req, fresh <- pass_fresh,
  free <- pass_free, page_table <- pass_page_table, kv <- pass_kv,
  rowState <- pass_rowState, cached <- pass_cached, graph <- pass_graph,
  seen <- pass_seen
Sampling == INSTANCE Sampler WITH
  Vocab <- 1 .. 4, Total <- 16, Dists <- FourDists, Settings <- AnySettings,
  MaxRows <- 2, batch <- sampler_batch, draws <- sampler_draws

forwardPassVars ==
  <<pass_arch, pass_req, pass_fresh, pass_free, pass_page_table, pass_kv,
  pass_rowState, pass_cached, pass_graph, pass_seen>>
samplerVars ==
  <<sampler_batch, sampler_draws>>
vars == <<part, forwardPassVars, samplerVars>>

ASSUME ForwardAssumption ==
  /\ Windowed!Bounds /\ Windowed!KnownArchs
  /\ Grouped!Bounds /\ Grouped!KnownArchs
  /\ Stateful!Bounds /\ Stateful!KnownArchs
  /\ Addressed!Bounds /\ Addressed!KnownArchs
  /\ Sycl!Bounds /\ Sycl!KnownArchs
  /\ Captured!Bounds /\ Captured!KnownArchs
  /\ Sampling!SamplerAssumption

\* One part is exercised; the others rest in one of their initial states.
Init ==
  /\ part \in Parts
  /\ \/ part \notin {"grouped", "stateful", "addressed", "sycl", "captured"} /\ Windowed!Init
     \/ part = "grouped" /\ Grouped!Init
     \/ part = "stateful" /\ Stateful!Init
     \/ part = "addressed" /\ Addressed!Init
     \/ part = "sycl" /\ Sycl!Init
     \/ part = "captured" /\ Captured!Init
  /\ Sampling!Init

StepForwardPass ==
  /\ \/ part = "windowed" /\ Windowed!Next
     \/ part = "grouped" /\ Grouped!Next
     \/ part = "stateful" /\ Stateful!Next
     \/ part = "addressed" /\ Addressed!Next
     \/ part = "sycl" /\ Sycl!Next
     \/ part = "captured" /\ Captured!Next
  /\ UNCHANGED <<part, samplerVars>>
StepSampler ==
  /\ part = "sampler" /\ Sampling!Next
  /\ UNCHANGED <<part, forwardPassVars>>

\* A finite component may stop; the others may never block.
Stops ==
  /\ part \in {"windowed", "grouped", "stateful", "addressed", "sycl", "captured", "sampler"}
  /\ UNCHANGED vars

Next ==
  \/ StepForwardPass
  \/ StepSampler
  \/ Stops

Spec == Init /\ [][Next]_vars

-----------------------------------------------------------------------------
(***************************************************************************)
(* In every layer a token reads the keys of its own request's positions    *)
(* and no others, written before it reads them, with prefix caching,       *)
(* chunks, abortion and replayed graphs (models/, attention/, kvcache/).   *)
(***************************************************************************)
ReadsOwnHistory ==
  /\ part = "windowed" => Windowed!TypeOK /\ Windowed!ReadsOwnHistory
  /\ part = "grouped" => Grouped!ReadsOwnHistory
  /\ part = "stateful" => Stateful!ReadsOwnHistory
  /\ part = "captured" => Captured!ReadsOwnHistory

(***************************************************************************)
(* The keys that count for a token are those of its layer's window, all of *)
(* them and none behind it, in the torch and the SYCL backend; sinks count *)
(* where the architecture has them (attention/).                           *)
(***************************************************************************)
AttendsItsWindow ==
  /\ part = "windowed" => Windowed!AttendsItsWindow
  /\ part = "grouped" => Grouped!AttendsItsWindow
  /\ part = "addressed" => Addressed!AttendsItsWindow /\ Addressed!SinksApplied
  /\ part = "sycl" => Sycl!AttendsItsWindow

(***************************************************************************)
(* What later tokens will read is still there: the history of a live row   *)
(* is resident, a cached prefix is not written again, and the convolution  *)
(* state of a row is that of its own request (kvcache/, lfm2_moe).         *)
(***************************************************************************)
NothingIsOverwritten ==
  /\ part = "windowed" => Windowed!HistoryResident /\ Windowed!CachedPrefixIntact
  /\ part = "sycl" => Sycl!HistoryResident
  /\ part = "captured" => Captured!HistoryResident
  /\ part = "stateful" => Stateful!RowStateIsOwn

(***************************************************************************)
(* Rows are truncated by the smallest k and p of their batch, which never  *)
(* gives one a token outside its own k or p, when all limit k and none     *)
(* has p = 0; and what the wrapped element of the cyclic shift costs the   *)
(* nucleus of a row is bounded, for rows with and without a limit on k     *)
(* (engine/sample.py).                                                     *)
(***************************************************************************)
DrawsAreAllowed ==
  part = "sampler" =>
    /\ Sampling!TypeOK
    /\ Sampling!TopKHonoured
    /\ Sampling!TopPHonoured
    /\ Sampling!NucleusMissesOnlyTheLeast
=============================================================================
