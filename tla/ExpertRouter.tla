----------------------------- MODULE ExpertRouter -----------------------------
(***************************************************************************)
(* The routers and the in-VRAM expert loops of the MoE models: which       *)
(* experts a token goes to, with what weight, and how the loops over the   *)
(* experts bring the weighted outputs of a batch together.                 *)
(*                                                                         *)
(* A token's affinity to an expert is a positive number: the sigmoid of    *)
(* the router logit, or its exponential.  A softmax divides the affinities *)
(* by their sum over all experts, gpt-oss's late softmax by their sum over *)
(* the chosen ones, so that one affinity and a denominator say what every  *)
(* family computes.  The output of a token is the weight with which each   *)
(* expert's output was added to it, as a numerator over that denominator.  *)
(***************************************************************************)
EXTENDS Integers, Sequences, FiniteSets, FiniteSetsExt

CONSTANTS
  Experts,     \* 1 .. N
  GroupSize,   \* the experts of a group
  TopK,        \* num_experts_per_tok
  TopkGroup,   \* the groups a token may use
  Families,    \* the architectures, by their names in Routing
  Affinities,  \* the affinities a token may have
  Biases,      \* the e_score_correction_bias of the checkpoint
  Tokens,      \* the tokens of the batch
  Scale        \* routed_scaling_factor

\* What the constants have to satisfy.
ExpertRouterAssumption ==
  /\ GroupSize \in Nat \ {0}
  /\ Experts = 1 .. Cardinality(Experts)
  /\ Cardinality(Experts) % GroupSize = 0
  /\ TopK \in 1 .. Cardinality(Experts)
  /\ Affinities \subseteq [Experts -> Nat \ {0}]
  /\ Biases \subseteq [Experts -> Int]
  /\ TopkGroup \in 1 .. Cardinality(Experts) \div GroupSize
  /\ TopkGroup * GroupSize >= TopK
  /\ Scale \in Nat \ {0}

(***************************************************************************)
(* The architectures: whether the affinity is a sigmoid (and biased), how  *)
(* groups are scored ("" for no groups), whether the weights are           *)
(* renormalised, how the loop over the experts runs, and whether a shared  *)
(* expert is added.  Late softmax over the chosen logits is a              *)
(* renormalisation of exponentials.                                        *)
(***************************************************************************)
Family(sigmoid, by, norm, loop, shared) ==
  [sigmoid |-> sigmoid, by |-> by, norm |-> norm, loop |-> loop, shared |-> shared]

Glm4Moe        == Family(TRUE, "two", TRUE, "slots", TRUE)
DeepseekV4     == Glm4Moe
GlmMoeDsa      == Glm4Moe
DeepseekV2Lite == Family(FALSE, "one", FALSE, "slots", TRUE)
Lfm2Moe        == Family(TRUE, "", TRUE, "pairs", FALSE)
Mellum         == Family(FALSE, "", TRUE, "pairs", FALSE)
Olmoe          == Family(FALSE, "", FALSE, "slots", FALSE)
GptOss         == Family(FALSE, "", TRUE, "slots", FALSE)
Qwen2Moe       == Family(FALSE, "", FALSE, "slots", TRUE)
Qwen4Exp       == Family(FALSE, "", TRUE, "slots", TRUE)
Qwen3Moe       == Family(FALSE, "", TRUE, "slots", FALSE)
Qwen35Moe      == Family(FALSE, "", TRUE, "slots", TRUE)
Qwen3Captured  == Family(FALSE, "", TRUE, "dense", FALSE)
Qwen35Captured == Family(FALSE, "", TRUE, "dense", TRUE)

Routing ==
  [glm4_moe |-> Glm4Moe, deepseek_v4 |-> DeepseekV4, glm_moe_dsa |-> GlmMoeDsa,
   deepseek_v2_lite |-> DeepseekV2Lite, lfm2_moe |-> Lfm2Moe, mellum |-> Mellum,
   olmoe |-> Olmoe, gpt_oss |-> GptOss, qwen2_moe |-> Qwen2Moe, qwen4_exp |-> Qwen4Exp,
   qwen3_moe |-> Qwen3Moe, qwen3_5_moe |-> Qwen35Moe,
   qwen3_moe_captured |-> Qwen3Captured, qwen3_5_moe_captured |-> Qwen35Captured]

VARIABLES
  family,   \* the architecture served
  bias,     \* its router's bias; zero where it has none
  aff,      \* per token, its affinities
  picks,    \* per token, its experts by slot; <<>> before routing
  weights,  \* per token, the numerators of its weights by slot
  next,     \* the expert the loop is at
  shared,   \* per token, how often the shared expert was added
  out       \* per token, the weight of each expert in its output

vars == <<family, bias, aff, picks, weights, next, shared, out>>

Zero == [e \in Experts |-> 0]
Slots == 1 .. TopK
Grouped == family.by # ""
Groups == {(e - 1) \div GroupSize : e \in Experts}
Members(g) == {e \in Experts : (e - 1) \div GroupSize = g}

(***************************************************************************)
(* The router.                                                             *)
(***************************************************************************)
\* The bias is for the choice, not for the weights.
Corrected(a, e) == a[e] + bias[e]

\* A group is worth its best two experts, or its best one.
BestTwo(a, g) ==
  Max({Corrected(a, p[1]) + Corrected(a, p[2]) :
         p \in {q \in Members(g) \X Members(g) : q[1] # q[2]}})
BestOne(a, g) == Max({Corrected(a, e) : e \in Members(g)})

\* A bug: a group is scored by its first expert.
GroupScoreSlip(a, g) == Corrected(a, g * GroupSize + 1)

GroupScore(a, g) == IF family.by = "two" THEN BestTwo(a, g) ELSE BestOne(a, g)

\* topk over groups; ties fall either way.
TopGroups(a) ==
  {gs \in kSubset(TopkGroup, Groups) :
     \A g \in gs, h \in Groups \ gs : GroupScore(a, g) >= GroupScore(a, h)}

\* masked_fill: the experts outside the top groups cannot be chosen.
Allowed(gs) == IF Grouped THEN UNION {Members(g) : g \in gs} ELSE Experts

\* topk over what is allowed, one expert to a slot.
TopExperts(a, gs) ==
  {c \in [Slots -> Allowed(gs)] :
     /\ \A i, j \in Slots : i # j => c[i] # c[j]
     /\ \A i \in Slots, e \in Allowed(gs) \ {c[j] : j \in Slots} :
          Corrected(a, c[i]) >= Corrected(a, e)
     /\ \A i \in 1 .. TopK - 1 : Corrected(a, c[i]) >= Corrected(a, c[i + 1])}

MayPick(a) ==
  UNION {TopExperts(a, gs) : gs \in IF Grouped THEN TopGroups(a) ELSE {Groups}}

\* The weights gathered for the chosen experts, before the division.
Gather(a, pick) == [i \in Slots |-> Scale * a[pick[i]]]

\* What they are divided by: the chosen experts' sum with norm_topk_prob, the
\* softmax's sum over all experts, or nothing.
Denominator(a, pick) ==
  IF family.norm THEN MapThenSumSet(LAMBDA i : a[pick[i]], Slots)
  ELSE IF family.sigmoid THEN 1
  ELSE MapThenSumSet(LAMBDA e : a[e], Experts)

(***************************************************************************)
(* The loop over the experts.                                              *)
(***************************************************************************)
\* Per slot: the tokens whose slot holds the expert are gathered, and the
\* weighted output is added to their rows.
BySlot(t, e) ==
  MapThenSumSet(LAMBDA i : IF picks[t][i] = e THEN weights[t][i] ELSE 0, Slots)

\* One nonzero over tokens and slots together.
Pairs(e) == {p \in Tokens \X Slots : picks[p[1]][p[2]] = e}
ByPairs(t, e) ==
  MapThenSumSet(LAMBDA p : weights[p[1]][p[2]], {p \in Pairs(e) : p[1] = t})

\* While a graph is captured: every expert on every token, under a mask in
\* which a later slot replaces an earlier one.
Dense(t, e) ==
  LET hit == {i \in Slots : picks[t][i] = e}
  IN IF hit = {} THEN 0 ELSE weights[t][Max(hit)]

Added(t, e) ==
  CASE family.loop = "slots" -> BySlot(t, e)
    [] family.loop = "pairs" -> ByPairs(t, e)
    [] family.loop = "dense" -> Dense(t, e)

TypeOK ==
  /\ family \in {Routing[f] : f \in Families}
  /\ bias \in [Experts -> Int]
  /\ aff \in [Tokens -> Affinities]
  /\ picks = <<>> \/ picks \in [Tokens -> [Slots -> Experts]]
  /\ weights = <<>> \/ weights \in [Tokens -> [Slots -> Nat]]
  /\ next \in 0 .. Cardinality(Experts) + 2
  /\ shared \in [Tokens -> Nat]
  /\ out \in [Tokens -> [Experts -> Nat]]

Init ==
  /\ family \in {Routing[f] : f \in Families}
  /\ bias \in IF family.sigmoid THEN Biases ELSE {Zero}
  /\ aff \in [Tokens -> Affinities]
  /\ picks = <<>> /\ weights = <<>>
  /\ next = 0
  /\ shared = [t \in Tokens |-> 0]
  /\ out = [t \in Tokens |-> Zero]

\* The router on the whole batch.
Route ==
  /\ next = 0
  /\ LET may == [t \in Tokens |-> MayPick(aff[t])]
     IN picks' \in {f \in [Tokens -> UNION {may[t] : t \in Tokens}] :
                      \A t \in Tokens : f[t] \in may[t]}
  /\ weights' = [t \in Tokens |-> Gather(aff[t], picks'[t])]
  /\ next' = 1
  /\ UNCHANGED <<family, bias, aff, shared, out>>

\* One expert's turn.
Expert ==
  /\ next \in Experts
  /\ out' = [t \in Tokens |-> [out[t] EXCEPT ![next] = @ + Added(t, next)]]
  /\ next' = next + 1
  /\ UNCHANGED <<family, bias, aff, picks, weights, shared>>

\* After the last expert, the shared one, for every token.
Shared ==
  /\ next = Cardinality(Experts) + 1
  /\ shared' = IF family.shared THEN [t \in Tokens |-> shared[t] + 1] ELSE shared
  /\ next' = next + 1
  /\ UNCHANGED <<family, bias, aff, picks, weights, out>>

Next == Route \/ Expert \/ Shared

Spec == Init /\ [][Next]_vars

--------------------------------------------------------------------------------
Routed == picks # <<>>
Finished == next = Cardinality(Experts) + 2
Chosen(t) == {picks[t][i] : i \in Slots}

(***************************************************************************)
(* A token's experts lie in at most topk_group groups, and an expert left  *)
(* out of those groups' choice never beats a chosen one: DeepSeek's group- *)
(* limited top-k (the routers' forward, n_group > 1).                      *)
(***************************************************************************)
GroupLimited ==
  Routed /\ Grouped =>
    \A t \in Tokens :
      \E gs \in kSubset(TopkGroup, Groups) :
        /\ Chosen(t) \subseteq UNION {Members(g) : g \in gs}
        /\ \A g \in gs, h \in Groups \ gs :
             IF family.by = "two" THEN BestTwo(aff[t], g) >= BestTwo(aff[t], h)
             ELSE BestOne(aff[t], g) >= BestOne(aff[t], h)
        /\ \A e \in UNION {Members(g) : g \in gs} \ Chosen(t), c \in Chosen(t) :
             Corrected(aff[t], c) >= Corrected(aff[t], e)

(***************************************************************************)
(* The bias moves the choice and never the weights: two chosen experts are *)
(* weighted in the proportion of their raw scores, and with norm_topk_prob *)
(* the weights add up to routed_scaling_factor, or to no more when a       *)
(* softmax is left as it is (scores.gather and the renormalisation).       *)
(***************************************************************************)
BiasOnlyChooses ==
  Routed =>
    \A t \in Tokens :
      /\ \A i, j \in Slots :
           weights[t][i] * aff[t][picks[t][j]] = weights[t][j] * aff[t][picks[t][i]]
      /\ family.norm =>
           MapThenSumSet(LAMBDA i : weights[t][i], Slots)
             = Scale * Denominator(aff[t], picks[t])
      /\ ~family.sigmoid =>
           MapThenSumSet(LAMBDA i : weights[t][i], Slots)
             <= Scale * Denominator(aff[t], picks[t])

(***************************************************************************)
(* However the loop runs, by slot, by pairs, or densely under a mask while *)
(* a graph is captured, each token's output is the weighted sum of its own *)
(* experts, each once, and of the shared one (the forward of every MoE     *)
(* block).                                                                 *)
(***************************************************************************)
OutIsWeightedSum ==
  Finished =>
    \A t \in Tokens :
      /\ \A i \in Slots : out[t][picks[t][i]] = Scale * aff[t][picks[t][i]]
      /\ \A e \in Experts \ Chosen(t) : out[t][e] = 0
      /\ shared[t] = IF family.shared THEN 1 ELSE 0
=============================================================================
