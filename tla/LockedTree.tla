------------------------------- MODULE LockedTree -------------------------------
(***************************************************************************)
(* What the prefix caches built on RadixTree have in common: the prompts   *)
(* their users look up, the tree, its clock, and the locks that are held.  *)
(***************************************************************************)
EXTENDS RadixTree

CONSTANTS
  Prompts,    \* the page sequences clients look up and insert
  MaxLocks,   \* bound on the unreleased locks
  MaxClock    \* bound on the number of walks

VARIABLES
  tree,       \* the radix tree and its two size counters
  clock,      \* time.monotonic_ns, one tick per walk and per new node
  locks       \* history: the unreleased locks, by the path of their node

\* The clients' prompts are sequences of pages.
Pages == UNION {Range(p) : p \in Prompts}
PromptsAssumption == \A p \in Prompts : p \in Seq(Pages)

Paths == UNION {Prefixes(p) : p \in Prompts}
=============================================================================
