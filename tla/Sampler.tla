-------------------------------- MODULE Sampler --------------------------------
(***************************************************************************)
(* engine/sample.py: from the last-position logits of a batch and the      *)
(* sampling settings of its requests to one token for each request.        *)
(*                                                                         *)
(* A distribution is a function from tokens to whole masses that add up to *)
(* Total, which stands for probability 1: the softmax of the logits at the *)
(* row's temperature.  A log probability of -inf is a mass of 0.  Only the *)
(* support of the multinomial draw matters to the properties; its weights  *)
(* are the masses of the tokens left.  Rows are admitted to the batch and  *)
(* leave it between two steps, as the scheduler lets them.                 *)
(***************************************************************************)
EXTENDS Integers, Sequences, FiniteSets, FiniteSetsExt

CONSTANTS
  Vocab,      \* the tokens
  Total,      \* the mass of probability 1
  Dists,      \* the distributions logits may give
  Settings,   \* the SamplingParams requests may bring
  MaxRows     \* the rows of a batch at most

\* What the constants have to satisfy.
SamplerAssumption ==
  /\ Total \in Nat \ {0}
  /\ MaxRows \in Nat \ {0}
  /\ Settings \subseteq [greedy : BOOLEAN, top_k : Int, top_p : 0 .. Total]
  /\ \A d \in Dists : /\ d \in [Vocab -> 1 .. Total]
                      /\ MapThenSumSet(LAMBDA v : d[v], Vocab) = Total

VARIABLES
  batch,   \* the rows: [dist, params], in batch order
  draws    \* per row, the tokens the last step could draw; <<>> before it

vars == <<batch, draws>>

Rows == 1 .. Len(batch)
Size == Cardinality(Vocab)

(***************************************************************************)
(* Helpers on masses.                                                      *)
(***************************************************************************)
Mass(mass, tokens) == MapThenSumSet(LAMBDA v : mass[v], tokens)

Best(mass) == {v \in Vocab : \A w \in Vocab : mass[w] <= mass[v]}

\* The kth largest mass of a row.
KthLargest(mass, k) ==
  Max({m \in {mass[v] : v \in Vocab} :
         Cardinality({v \in Vocab : mass[v] >= m}) >= k})

\* torch.sort in descending order, which leaves ties in any order.
Sorted(mass) ==
  {order \in [1 .. Size -> Vocab] :
     /\ \A i, j \in 1 .. Size : i # j => order[i] # order[j]
     /\ \A i \in 1 .. Size - 1 : mass[order[i]] >= mass[order[i + 1]]}

(***************************************************************************)
(* Sampler.sample.                                                         *)
(***************************************************************************)
\* The settings the truncations use: one k and one p for all the rows that
\* are drawn, each the smallest of theirs.
Greedy(r) == batch[r].params.greedy
Stochastic == {r \in Rows : ~Greedy(r)}

KMin == Min({batch[r].params.top_k : r \in Stochastic})
PMin == Min({batch[r].params.top_p : r \in Stochastic})

\* Everything below the k_min-th largest is masked; ties with it stay.
TopKDrops(m, kth) == m < kth

TopK(mass) ==
  IF 0 < KMin /\ KMin < Size
    THEN [v \in Vocab |->
            IF TopKDrops(mass[v], KthLargest(mass, KMin)) THEN 0 ELSE mass[v]]
    ELSE mass

\* A bug: the token at j counts among those before it.
PrefixMassSlip(mass, order, j) ==
  mass[order[Size]] + Mass(mass, {order[i] : i \in 1 .. j})

\* roll(1) brings the last mass to the front, and only the first entry of the
\* cumulative sum is set back to zero: the others carry it.
PrefixMass(mass, order, j) ==
  IF j = 1 THEN 0
  ELSE mass[order[Size]] + Mass(mass, {order[i] : i \in 1 .. j - 1})

TopP(mass, order) ==
  IF 0 < PMin /\ PMin < Total
    THEN [v \in Vocab |->
            LET j == CHOOSE i \in 1 .. Size : order[i] = v
            IN IF PrefixMass(mass, order, j) > PMin THEN 0 ELSE mass[v]]
    ELSE mass

GreedyDraw(mass) == Best(mass)

\* The tokens one row may be given.
Draws(r) ==
  IF Greedy(r) THEN {GreedyDraw(batch[r].dist)}
  ELSE LET mass == TopK(batch[r].dist)
       IN {{v \in Vocab : TopP(mass, order)[v] > 0} : order \in Sorted(mass)}

TypeOK ==
  /\ batch \in UNION {[1 .. n -> [dist : Dists, params : Settings]] : n \in 0 .. MaxRows}
  /\ draws = <<>> \/ draws \in [Rows -> SUBSET Vocab]

Init == batch = <<>> /\ draws = <<>>

\* A request joins the batch; its next logits are any.
Admit ==
  /\ Len(batch) < MaxRows
  /\ \E d \in Dists, s \in Settings : batch' = Append(batch, [dist |-> d, params |-> s])
  /\ draws' = <<>>

\* A step samples the batch.
Sample ==
  /\ batch # <<>>
  /\ draws = <<>>
  /\ LET may == [r \in Rows |-> Draws(r)]
     IN draws' \in {f \in [Rows -> UNION {may[r] : r \in Rows}] :
                      \A r \in Rows : f[r] \in may[r]}
  /\ UNCHANGED batch

\* A row is finished and leaves.
Leave ==
  /\ draws # <<>>
  /\ \E r \in Rows :
       batch' = [i \in 1 .. Len(batch) - 1 |-> IF i < r THEN batch[i] ELSE batch[i + 1]]
  /\ draws' = <<>>

Next == Admit \/ Sample \/ Leave

Spec == Init /\ [][Next]_vars

--------------------------------------------------------------------------------
(***************************************************************************)
(* What a request asked for, with no other request in sight: "standard     *)
(* HuggingFace semantics", the k largest and of them, renormalised, the    *)
(* smallest prefix whose mass reaches p.                                   *)
(***************************************************************************)
OwnTopK(row) ==
  IF row.params.top_k \in 1 .. Size - 1
    THEN {v \in Vocab : row.dist[v] >= KthLargest(row.dist, row.params.top_k)}
    ELSE Vocab

OwnNucleus(row) ==
  LET top == OwnTopK(row)
      before(v) == Mass(row.dist, {w \in top : row.dist[w] > row.dist[v]})
  IN {v \in top : row.params.top_p < Total =>
                    before(v) * Total < row.params.top_p * Mass(row.dist, top)}

\* The mass a row's sum of likelier tokens carries too much of: that of the
\* last token of the sort, none once top-k has masked one.
Wrapped(row) ==
  IF OwnTopK(row) = Vocab THEN Min({row.dist[v] : v \in Vocab}) ELSE 0

Likelier(row, v) == Mass(row.dist, {w \in Vocab : row.dist[w] > row.dist[v]})

(***************************************************************************)
(* When every row that is drawn limits k, no row is given a token outside  *)
(* its own k largest, although one k is used for all (sample, k_min).      *)
(***************************************************************************)
TopKHonoured ==
  (draws # <<>> /\ \A r \in Stochastic : batch[r].params.top_k > 0) =>
     \A r \in Stochastic : draws[r] \subseteq OwnTopK(batch[r])

(***************************************************************************)
(* When no row that is drawn asks for top_p = 0, no row is given a token   *)
(* that its own p leaves out, its likeliest excepted: one p and one k are  *)
(* used for all, and the masses that top-k removes must not let more in    *)
(* (sample, p_min and prefix).                                             *)
(***************************************************************************)
TopPHonoured ==
  (draws # <<>> /\ \A r \in Stochastic : batch[r].params.top_p > 0) =>
     \A r \in Stochastic : \A v \in draws[r] \ Best(batch[r].dist) :
        Likelier(batch[r], v) <= batch[r].params.top_p

(***************************************************************************)
(* When all rows ask for the same, with or without a limit on k, the       *)
(* nucleus falls short of p by less than the mass the cyclic shift brings  *)
(* to the front, which is that of the row's least likely token (sample,    *)
(* roll and prefix[..., 0] = 0); otherwise nothing is cut from top-k's.    *)
(***************************************************************************)
NucleusMissesOnlyTheLeast ==
  (draws # <<>> /\ \A r, o \in Stochastic : batch[r].params = batch[o].params) =>
     \A r \in Stochastic :
        \/ draws[r] = OwnTopK(batch[r])
        \/ /\ batch[r].params.top_p \in 1 .. Total - 1
           /\ Mass(batch[r].dist, draws[r]) + Wrapped(batch[r]) > batch[r].params.top_p

(***************************************************************************)
(* The kept tokens reach p: "drop tokens beyond the smallest prefix with   *)
(* mass >= p" (sample, the comment above the top-p branch).  It fails for  *)
(* rows that limit no k: <<3, 4, 4, 5>> with p = 7 keeps a mass of 5.      *)
(***************************************************************************)
NucleusReachesItsMass ==
  (draws # <<>> /\ \A r, o \in Stochastic : batch[r].params = batch[o].params) =>
     \A r \in Stochastic :
        \/ Mass(batch[r].dist, draws[r]) >= batch[r].params.top_p
        \/ draws[r] = OwnTopK(batch[r])

(***************************************************************************)
(* A row's tokens are those it would be given alone (sample's docstring:   *)
(* the settings are aligned to the batch, one per request).                *)
(***************************************************************************)
RowIsItsOwn ==
  draws # <<>> => \A r \in Stochastic : draws[r] = OwnNucleus(batch[r])

(***************************************************************************)
(* A row alone with top_p = 0 is given its argmax (sample, the comment     *)
(* above row_all_masked).                                                  *)
(***************************************************************************)
ZeroPIsArgmax ==
  draws # <<>> =>
    \A r \in Stochastic :
       batch[r].params.top_p = 0 => draws[r] \subseteq Best(batch[r].dist)
=============================================================================
