------------------------------ MODULE PrefixCache ------------------------------
(***************************************************************************)
(* What a prefix cache promises its users (the BasePrefixCache interface   *)
(* of kvcache/base.py), without the tree: a map from prefixes of pages to  *)
(* KV slots that is closed under prefixes, and locks that keep a prefix    *)
(* and everything before it from being evicted.                            *)
(***************************************************************************)
EXTENDS Integers, Sequences, SequencesExt

CONSTANTS
  Prompts,    \* the page sequences clients look up and insert
  SlotRuns    \* the slots a client may offer for a page

VARIABLES
  cache,      \* prefix -> the slots of its last page
  locks       \* how many unreleased locks each prefix carries

vars == <<cache, locks>>

Paths == UNION {Prefixes(p) : p \in Prompts}

Init ==
  /\ cache = <<>>
  /\ locks = [q \in Paths |-> 0]

Longest(p) ==
  SubSeq(p, 1, Max({0} \union {k \in 1 .. Len(p) : SubSeq(p, 1, k) \in DOMAIN cache}))

\* match_prefix followed by lock_handle.
Lock(p) ==
  /\ locks' = [locks EXCEPT ![Longest(p)] = @ + 1]
  /\ UNCHANGED cache

Unlock(q) ==
  /\ locks[q] > 0
  /\ locks' = [locks EXCEPT ![q] = @ - 1]
  /\ UNCHANGED cache

\* What is cached already keeps its slots.
Insert(p, run) ==
  /\ cache' = [q \in DOMAIN cache \union (Prefixes(p) \ {<<>>}) |->
                 IF q \in DOMAIN cache THEN cache[q] ELSE run]
  /\ UNCHANGED locks

Locked(q) == \E l \in Paths : locks[l] > 0 /\ IsPrefix(q, l)

\* Some prefixes that no lock covers go, with everything that extends them.
Evict ==
  \E gone \in SUBSET DOMAIN cache :
    /\ gone # {}
    /\ \A q \in gone : ~ Locked(q)
    /\ \A q \in DOMAIN cache \ gone : \A g \in gone : ~ IsPrefix(g, q)
    /\ cache' = [q \in DOMAIN cache \ gone |-> cache[q]]
    /\ UNCHANGED locks

Reset ==
  /\ \A q \in Paths : locks[q] = 0
  /\ cache' = <<>>
  /\ UNCHANGED locks

Next ==
  \/ \E p \in Prompts : Lock(p)
  \/ \E q \in Paths : Unlock(q)
  \/ \E p \in Prompts, run \in SlotRuns : Insert(p, run)
  \/ Evict
  \/ Reset

Spec == Init /\ [][Next]_vars
=============================================================================
