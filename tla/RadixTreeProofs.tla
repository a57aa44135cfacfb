---------------------------- MODULE RadixTreeProofs ----------------------------
(***************************************************************************)
(* What the operations of RadixTree keep, for every tree, every set S of   *)
(* pages and every page size: the shape of the tree, the ref counts of its *)
(* nodes and its two sizes.  The modules of the caches built on the tree   *)
(* take their invariants from these lemmas.                                *)
(***************************************************************************)
EXTENDS RadixTree, TLAPS, FiniteSetTheorems, SequenceTheorems, WellFoundedInduction

-----------------------------------------------------------------------------
(***************************************************************************)
(* The order of prefixes.                                                  *)
(***************************************************************************)
\* IsPrefix, element by element.
LEMMA PrefixMeaning ==
  ASSUME NEW S, NEW s \in Seq(S), NEW t \in Seq(S)
  PROVE  IsPrefix(s, t) <=> Len(s) <= Len(t) /\ \A i \in 1 .. Len(s) : s[i] = t[i]
<1>1. SubSeq(s, 1, Len(s)) = s
  BY SubSeqFull
<1>2. CASE Len(s) <= Len(t)
  <2>1. SubSeq(t, 1, Len(s)) \in Seq(S) /\ Len(SubSeq(t, 1, Len(s))) = Len(s)
    BY <1>2, SubSeqProperties
  <2>2. \A i \in 1 .. Len(s) : SubSeq(t, 1, Len(s))[i] = t[i]
    BY <1>2, SubSeqProperties
  <2>3. s = SubSeq(t, 1, Len(s)) <=> \A i \in 1 .. Len(s) : s[i] = t[i]
    BY <2>1, <2>2, SeqEqual
  <2> QED
    BY <1>1, <1>2, <2>3 DEF IsPrefix
<1>3. CASE ~ (Len(s) <= Len(t))
  BY <1>3 DEF IsPrefix
<1> QED
  BY <1>2, <1>3

\* IsPrefix orders the paths, and two prefixes of one path are comparable.
LEMMA PrefixOrder ==
  ASSUME NEW S
  PROVE  /\ \A a \in Seq(S) : IsPrefix(a, a)
         /\ \A a, b, c \in Seq(S) : IsPrefix(a, b) /\ IsPrefix(b, c) => IsPrefix(a, c)
         /\ \A a, b \in Seq(S) : IsPrefix(a, b) /\ IsPrefix(b, a) => a = b
         /\ \A a, b, c \in Seq(S) :
              IsPrefix(a, c) /\ IsPrefix(b, c) /\ Len(a) <= Len(b) => IsPrefix(a, b)
         /\ \A a, b, c \in Seq(S) :
              IsPrefix(a, c) /\ IsPrefix(b, c) => IsPrefix(a, b) \/ IsPrefix(b, a)
         /\ \A a, b \in Seq(S) : IsPrefix(a, b) => Len(a) <= Len(b)
         /\ \A a, b \in Seq(S) : IsPrefix(a, b) /\ Len(a) = Len(b) => a = b
<1>1. ASSUME NEW a \in Seq(S) PROVE Len(a) \in Nat
  BY LenProperties
<1>2. \A a \in Seq(S) : IsPrefix(a, a)
  BY <1>1, PrefixMeaning
<1>3. ASSUME NEW a \in Seq(S), NEW b \in Seq(S), IsPrefix(a, b), IsPrefix(b, a)
      PROVE  a = b
  <2>1. Len(a) = Len(b)
    BY <1>1, <1>3, PrefixMeaning
  <2> QED
    BY <2>1, <1>3, PrefixMeaning, SeqEqual
<1>4. ASSUME NEW a \in Seq(S), NEW b \in Seq(S), NEW c \in Seq(S),
             IsPrefix(a, b), IsPrefix(b, c)
      PROVE  IsPrefix(a, c)
  BY <1>1, <1>4, PrefixMeaning
<1>5. ASSUME NEW a \in Seq(S), NEW b \in Seq(S), NEW c \in Seq(S),
             IsPrefix(a, c), IsPrefix(b, c), Len(a) <= Len(b)
      PROVE  IsPrefix(a, b)
  BY <1>1, <1>5, PrefixMeaning
<1>6. ASSUME NEW a \in Seq(S), NEW b \in Seq(S), IsPrefix(a, b)
      PROVE  Len(a) <= Len(b)
  BY <1>1, <1>6, PrefixMeaning
<1>7. ASSUME NEW a \in Seq(S), NEW b \in Seq(S), IsPrefix(a, b), Len(a) = Len(b)
      PROVE  a = b
  BY <1>7, PrefixMeaning, SeqEqual
<1>8. ASSUME NEW a \in Seq(S), NEW b \in Seq(S), NEW c \in Seq(S),
             IsPrefix(a, c), IsPrefix(b, c)
      PROVE  IsPrefix(a, b) \/ IsPrefix(b, a)
  <2>1. Len(a) <= Len(b) \/ Len(b) <= Len(a)
    BY <1>1
  <2> QED
    BY <2>1, <1>5, <1>8
<1> QED
  BY <1>2, <1>3, <1>4, <1>5, <1>6, <1>7, <1>8

\* Cutting a path gives a prefix of it, and every prefix is such a cut.
LEMMA PrefixCut ==
  ASSUME NEW S, NEW t \in Seq(S)
  PROVE  /\ \A k \in 0 .. Len(t) : /\ SubSeq(t, 1, k) \in Seq(S)
                                   /\ Len(SubSeq(t, 1, k)) = k
                                   /\ IsPrefix(SubSeq(t, 1, k), t)
         /\ \A s \in Seq(S) : IsPrefix(s, t) => s = SubSeq(t, 1, Len(s)) /\ Len(s) \in 0 .. Len(t)
<1>1. ASSUME NEW k \in 0 .. Len(t)
      PROVE  /\ SubSeq(t, 1, k) \in Seq(S)
             /\ Len(SubSeq(t, 1, k)) = k
             /\ IsPrefix(SubSeq(t, 1, k), t)
  <2> DEFINE c == SubSeq(t, 1, k)
  <2>1. Len(t) \in Nat /\ \A i \in 1 .. k : t[i] \in S
    BY ElementOfSeq, LenProperties
  <2>2. c \in Seq(S) /\ Len(c) = k /\ \A i \in 1 .. k : c[i] = t[i]
    BY <2>1, SubSeqProperties
  <2> HIDE DEF c
  <2>3. IsPrefix(c, t)
    BY <2>1, <2>2, PrefixMeaning
  <2> QED
    BY <2>2, <2>3 DEF c
<1>2. ASSUME NEW s \in Seq(S), IsPrefix(s, t)
      PROVE  s = SubSeq(t, 1, Len(s)) /\ Len(s) \in 0 .. Len(t)
  BY <1>2, SubSeqFull, LenProperties DEF IsPrefix
<1> QED
  BY <1>1, <1>2

\* The empty path is a prefix of every path, and of itself only.
LEMMA RootPrefix ==
  ASSUME NEW S
  PROVE  /\ Root \in Seq(S) /\ Len(Root) = 0
         /\ \A a \in Seq(S) : IsPrefix(Root, a)
         /\ \A a \in Seq(S) : IsPrefix(a, Root) => a = Root
         /\ \A a \in Seq(S) : Len(a) = 0 => a = Root
<1>1. Root \in Seq(S) /\ Len(Root) = 0
  BY EmptySeq DEF Root
<1>2. ASSUME NEW a \in Seq(S) PROVE IsPrefix(Root, a)
  <2>1. Len(a) \in Nat
    BY LenProperties
  <2> QED
    <3>1. Len(Root) <= Len(a) /\ \A i \in 1 .. Len(Root) : Root[i] = a[i]
      BY <1>1, <2>1
    <3> QED
      BY <1>1, <3>1, PrefixMeaning
<1>3. \A a \in Seq(S) : Len(a) = 0 => a = Root
  BY EmptySeq DEF Root
<1> QED
  BY <1>1, <1>2, <1>3, PrefixOrder

\* Prefixes is the set of the prefixes.
LEMMA PrefixesMeaning ==
  ASSUME NEW S, NEW p \in Seq(S)
  PROVE  Prefixes(p) = {q \in Seq(S) : IsPrefix(q, p)}
<1>1. \A k \in 0 .. Len(p) : SubSeq(p, 1, k) \in Seq(S) /\ IsPrefix(SubSeq(p, 1, k), p)
  BY PrefixCut
<1>2. \A q \in Seq(S) : IsPrefix(q, p) => q = SubSeq(p, 1, Len(q)) /\ Len(q) \in 0 .. Len(p)
  BY PrefixCut
<1> QED
  BY <1>1, <1>2 DEF Prefixes

\* The naturals are well ordered.
LEMMA NatWellOrdered ==
  ASSUME NEW T \in SUBSET Nat, T # {}
  PROVE  \E x \in T : \A y \in T : x <= y
<1> DEFINE R == {ss \in Nat \X Nat : ss[1] < ss[2]}
<1>1. IsWellFoundedOn(R, Nat)
  BY NatLessThanWellFounded DEF OpToRel
<1>2. PICK x \in T : \A y \in T : ~ (<<y, x>> \in R)
  <2> HIDE DEF R
  <2> QED
    BY <1>1, WFMin
<1>3. ASSUME NEW y \in T PROVE x <= y
  <2>1. x \in Nat /\ y \in Nat
    OBVIOUS
  <2>2. <<y, x>> \notin R
    BY <1>2
  <2> QED
    BY <2>1, <2>2
<1> QED
  BY <1>3

\* A finite set of naturals has a largest element.
LEMMA MaxIsReached ==
  ASSUME NEW n \in Nat, NEW K \in SUBSET (0 .. n), K # {}
  PROVE  Max(K) \in K /\ \A k \in K : k <= Max(K)
<1> DEFINE T == {n - k : k \in K}
<1>1. T \in SUBSET Nat /\ T # {}
  <2>1. \A k \in K : n - k \in Nat
    OBVIOUS
  <2> QED
    BY <2>1
<1>3. PICK x \in T : \A y \in T : x <= y
  BY <1>1, NatWellOrdered
<1>4. PICK k \in K : x = n - k
  BY <1>3
<1>5. \A m \in K : k >= m
  <2> TAKE m \in K
  <2>1. x <= n - m
    BY <1>3
  <2> QED
    BY <2>1, <1>4
<1>6. Max(K) \in K /\ \A m \in K : Max(K) >= m
  BY <1>5 DEF Max
<1> QED
  BY <1>6

-----------------------------------------------------------------------------
(***************************************************************************)
(* The shape of the tree.  Ends(tr, x, m): the page at x is on the edge of *)
(* the node m, the first node at or below x.                               *)
(***************************************************************************)
Ends(tr, x, m) ==
  /\ m \in nodes(tr)
  /\ IsPrefix(x, m)
  /\ \A n \in nodes(tr) : IsPrefix(x, n) => IsPrefix(m, n)

\* The tree is a finite set of pages over S closed under prefixes, and every
\* page is on the edge of one node: where two edges part there is a node.
TreeInv(tr, S) ==
  /\ DOMAIN tr = {"value", "ref", "stamp", "evictable", "protected"}
  /\ IsFiniteSet(DOMAIN tr.value)
  /\ DOMAIN tr.value \subseteq Seq(S) \ {Root}
  /\ \A x \in DOMAIN tr.value, y \in Seq(S) \ {Root} :
       IsPrefix(y, x) => y \in DOMAIN tr.value
  /\ nodes(tr) \subseteq DOMAIN tr.value
  /\ DOMAIN tr.stamp = nodes(tr)
  /\ \A x \in DOMAIN tr.value : \E m \in nodes(tr) : Ends(tr, x, m)

\* A tree's nodes are paths.
LEMMA NodesArePaths ==
  ASSUME NEW S, NEW tr, TreeInv(tr, S)
  PROVE  /\ nodes(tr) \subseteq Seq(S) \ {Root}
         /\ DOMAIN tr.value \subseteq Seq(S) \ {Root}
         /\ nodes(tr) \subseteq DOMAIN tr.value
         /\ IsFiniteSet(nodes(tr))
<1>1. /\ nodes(tr) \subseteq Seq(S) \ {Root}
      /\ DOMAIN tr.value \subseteq Seq(S) \ {Root}
      /\ nodes(tr) \subseteq DOMAIN tr.value
      /\ IsFiniteSet(DOMAIN tr.value)
  BY DEF TreeInv
<1> QED
  BY <1>1, FS_Subset

\* A page is on the edge of one node only, and a node ends its own edge.
LEMMA EndsUnique ==
  ASSUME NEW S, NEW tr, TreeInv(tr, S), NEW x \in Seq(S)
  PROVE  /\ \A m, n \in nodes(tr) : Ends(tr, x, m) /\ Ends(tr, x, n) => m = n
         /\ x \in nodes(tr) => Ends(tr, x, x)
<1>1. nodes(tr) \subseteq Seq(S)
  BY NodesArePaths
<1>2. ASSUME NEW m \in nodes(tr), NEW n \in nodes(tr), Ends(tr, x, m), Ends(tr, x, n)
      PROVE  m = n
  <2>1. IsPrefix(m, n) /\ IsPrefix(n, m)
    BY <1>2 DEF Ends
  <2> QED
    BY <1>1, <2>1, PrefixOrder
<1>3. ASSUME x \in nodes(tr) PROVE Ends(tr, x, x)
  BY <1>3, PrefixOrder DEF Ends
<1> QED
  BY <1>2, <1>3

\* edge(tr, n) holds the pages that end at n.
LEMMA EdgeMeaning ==
  ASSUME NEW S, NEW tr, TreeInv(tr, S), NEW n \in nodes(tr)
  PROVE  edge(tr, n) = {x \in DOMAIN tr.value : Ends(tr, x, n)}
<1>1. nodes(tr) \subseteq Seq(S) /\ DOMAIN tr.value \subseteq Seq(S)
  BY NodesArePaths
<1>2. ASSUME NEW x \in DOMAIN tr.value, Ends(tr, x, n) PROVE x \in edge(tr, n)
  <2>1. ASSUME NEW m \in ancestors(tr, n) \ {n}, IsPrefix(x, m) PROVE FALSE
    <3>1. m \in nodes(tr) /\ IsPrefix(m, n) /\ m # n
      BY <2>1 DEF ancestors
    <3>2. IsPrefix(n, m)
      BY <1>2, <2>1, <3>1 DEF Ends
    <3> QED
      BY <1>1, <3>1, <3>2, PrefixOrder
  <2> QED
    BY <1>2, <2>1 DEF edge, Ends
<1>3. ASSUME NEW x \in edge(tr, n) PROVE x \in DOMAIN tr.value /\ Ends(tr, x, n)
  <2>1. /\ x \in DOMAIN tr.value
        /\ IsPrefix(x, n)
        /\ \A m \in ancestors(tr, n) \ {n} : ~ IsPrefix(x, m)
    BY <1>3 DEF edge
  <2>2. PICK m \in nodes(tr) : Ends(tr, x, m)
    BY <2>1 DEF TreeInv
  <2>3. IsPrefix(m, n) /\ IsPrefix(x, m)
    BY <2>1, <2>2 DEF Ends
  <2>4. m = n
    BY <2>1, <2>3 DEF ancestors
  <2> QED
    BY <2>1, <2>2, <2>4
<1> QED
  BY <1>2, <1>3

\* The edges of some nodes hold the pages that end at one of them.
LEMMA OnEdges ==
  ASSUME NEW S, NEW tr, TreeInv(tr, S), NEW ns \in SUBSET nodes(tr)
  PROVE  /\ edges(tr, ns) \subseteq DOMAIN tr.value
         /\ IsFiniteSet(edges(tr, ns))
         /\ \A x \in DOMAIN tr.value, m \in nodes(tr) :
              Ends(tr, x, m) => (x \in edges(tr, ns) <=> m \in ns)
<1>1. edges(tr, ns) \subseteq DOMAIN tr.value
  BY DEF edges, edge
<1>2. IsFiniteSet(edges(tr, ns))
  BY <1>1, FS_Subset DEF TreeInv
<1>3. ASSUME NEW x \in DOMAIN tr.value, NEW m \in nodes(tr), Ends(tr, x, m)
      PROVE  x \in edges(tr, ns) <=> m \in ns
  <2>1. x \in Seq(S)
    BY NodesArePaths
  <2>2. \A n \in ns : x \in edge(tr, n) <=> Ends(tr, x, n)
    BY EdgeMeaning
  <2>3. \A n \in ns : Ends(tr, x, n) <=> n = m
    BY <1>3, <2>1, EndsUnique
  <2> QED
    BY <2>2, <2>3 DEF edges
<1> QED
  BY <1>1, <1>2, <1>3

\* The token count of some nodes is the sum of those of two parts of them.
LEMMA TokensSplit ==
  ASSUME NEW S, NEW tr, TreeInv(tr, S),
         NEW ns \in SUBSET nodes(tr), NEW part \in SUBSET ns
  PROVE  /\ tokens(tr, ns) \in Nat
         /\ tokens(tr, part) \in Nat
         /\ tokens(tr, ns \ part) = tokens(tr, ns) - tokens(tr, part)
<1> DEFINE E == edges(tr, ns)
           P == edges(tr, part)
           R == edges(tr, ns \ part)
<1>1. /\ IsFiniteSet(E) /\ IsFiniteSet(P)
      /\ E \subseteq DOMAIN tr.value
      /\ P \subseteq DOMAIN tr.value
      /\ R \subseteq DOMAIN tr.value
  BY OnEdges
<1>2. \A x \in DOMAIN tr.value : x \in R <=> x \in E /\ x \notin P
  <2> TAKE x \in DOMAIN tr.value
  <2>1. PICK m \in nodes(tr) : Ends(tr, x, m)
    BY DEF TreeInv
  <2>2. /\ x \in E <=> m \in ns
        /\ x \in P <=> m \in part
        /\ x \in R <=> m \in ns \ part
    BY <2>1, OnEdges
  <2> QED
    BY <2>2
<1>3. R = E \ P
  BY <1>1, <1>2
<1>4. P \subseteq E
  BY DEF edges
<1>5. Cardinality(R) = Cardinality(E) - Cardinality(P)
  <2>1. E \cap P = P
    BY <1>4
  <2>2. IsFiniteSet(E)
    BY <1>1
  <2> HIDE DEF E, P, R
  <2>3. Cardinality(E \ P) = Cardinality(E) - Cardinality(E \cap P)
    BY <2>2, FS_Difference
  <2> QED
    BY <1>3, <2>1, <2>3
<1>6. Cardinality(E) \in Nat /\ Cardinality(P) \in Nat /\ PageSize \in Nat
  BY <1>1, FS_CardinalityType, PageAssumption
<1>7. \A a, b \in Nat : PageSize * (a - b) = PageSize * a - PageSize * b /\ PageSize * a \in Nat
  BY PageAssumption
<1> QED
  BY <1>5, <1>6, <1>7 DEF tokens

-----------------------------------------------------------------------------
(***************************************************************************)
(* _tree_walk: how far the tree matches a path, and the split.             *)
(***************************************************************************)
\* The matched path is the longest prefix of p in the tree.
LEMMA MatchedPath ==
  ASSUME NEW S, NEW tr, TreeInv(tr, S), NEW p \in Seq(S)
  PROVE  LET q == matched_path(tr, p)
         IN  /\ q \in Seq(S)
             /\ IsPrefix(q, p)
             /\ matched_pages(tr, p) \in 0 .. Len(p)
             /\ Len(q) = matched_pages(tr, p)
             /\ q = Root \/ q \in DOMAIN tr.value
             /\ \A x \in DOMAIN tr.value : IsPrefix(x, p) => IsPrefix(x, q)
<1> DEFINE K == {0} \union {k \in 1 .. Len(p) : SubSeq(p, 1, k) \in DOMAIN tr.value}
           k0 == matched_pages(tr, p)
           q == matched_path(tr, p)
<1>1. Len(p) \in Nat
  BY LenProperties
<1>2. K \in SUBSET (0 .. Len(p)) /\ K # {}
  BY <1>1
<1>3. k0 \in K /\ \A k \in K : k <= k0
  <2>1. Max(K) \in K /\ \A k \in K : k <= Max(K)
    <3> HIDE DEF K
    <3> QED
      BY <1>1, <1>2, MaxIsReached
  <2> QED
    BY <2>1 DEF matched_pages
<1>4. k0 \in 0 .. Len(p)
  BY <1>2, <1>3
<1>5. q \in Seq(S) /\ IsPrefix(q, p) /\ Len(q) = k0
  BY <1>4, PrefixCut DEF matched_path
<1>6. q = Root \/ q \in DOMAIN tr.value
  <2>1. CASE k0 = 0
    BY <2>1, <1>5, RootPrefix
  <2>2. CASE k0 # 0
    BY <2>2, <1>3 DEF matched_path
  <2> QED
    BY <2>1, <2>2
<1>7. ASSUME NEW x \in DOMAIN tr.value, IsPrefix(x, p) PROVE IsPrefix(x, q)
  <2>1. x \in Seq(S) /\ x # Root
    BY NodesArePaths
  <2>2. x = SubSeq(p, 1, Len(x)) /\ Len(x) \in 0 .. Len(p)
    BY <1>7, <2>1, PrefixCut
  <2>3. Len(x) # 0
    BY <2>1, RootPrefix
  <2>4. Len(x) \in K
    <3>1. SubSeq(p, 1, Len(x)) \in DOMAIN tr.value
      BY <2>2
    <3>2. Len(x) \in 1 .. Len(p)
      BY <1>1, <2>2, <2>3
    <3> QED
      BY <3>1, <3>2
  <2>5. Len(x) <= Len(q)
    BY <2>4, <1>3, <1>5
  <2> QED
    BY <2>1, <2>5, <1>5, <1>7, PrefixOrder
<1> QED
  BY <1>4, <1>5, <1>6, <1>7

\* The node that ends where the match does is there after the walk, with the
\* ref count of the node whose edge was cut.
LEMMA WalkFacts ==
  ASSUME NEW S, NEW tr, TreeInv(tr, S), NEW p \in Seq(S), NEW tic
  PROVE  LET q == matched_path(tr, p)
             w == tree_walk(tr, p, tic)
         IN  /\ DOMAIN w = {"value", "ref", "stamp", "evictable", "protected"}
             /\ w.value = tr.value
             /\ w.evictable = tr.evictable /\ w.protected = tr.protected
             /\ nodes(w) = nodes(tr) \union ({q} \ {Root})
             /\ DOMAIN w.stamp = nodes(w)
             /\ \A n \in nodes(tr) : w.ref[n] = tr.ref[n]
             /\ \A m \in nodes(tr) : q # Root /\ Ends(tr, q, m) => w.ref[q] = tr.ref[m]
             /\ \A n \in nodes(w) :
                  w.stamp[n] = tic \/ (n \in nodes(tr) /\ w.stamp[n] = tr.stamp[n])
<1> DEFINE q == matched_path(tr, p)
           w == tree_walk(tr, p, tic)
           split == IF q = Root \/ q \in nodes(tr) THEN {} ELSE {q}
<1>1. /\ DOMAIN tr = {"value", "ref", "stamp", "evictable", "protected"}
      /\ Root \notin nodes(tr)
      /\ q \in Seq(S)
      /\ q = Root \/ q \in DOMAIN tr.value
  <2>1. nodes(tr) \subseteq Seq(S) \ {Root}
    BY NodesArePaths
  <2>2. q \in Seq(S) /\ (q = Root \/ q \in DOMAIN tr.value)
    BY MatchedPath
  <2> QED
    BY <2>1, <2>2 DEF TreeInv
<1>2. w = [tr EXCEPT
             !.ref = [n \in nodes(tr) \union split |->
                        IF n \in split THEN split_ref(tr, q) ELSE tr.ref[n]],
             !.stamp = [n \in nodes(tr) \union split |->
                          IF IsPrefix(n, q) THEN tic ELSE tr.stamp[n]]]
  BY DEF tree_walk, matched_path
<1>3. /\ DOMAIN w = DOMAIN tr
      /\ w.value = tr.value
      /\ w.evictable = tr.evictable /\ w.protected = tr.protected
      /\ w.ref = [n \in nodes(tr) \union split |->
                    IF n \in split THEN split_ref(tr, q) ELSE tr.ref[n]]
      /\ w.stamp = [n \in nodes(tr) \union split |->
                      IF IsPrefix(n, q) THEN tic ELSE tr.stamp[n]]
  <2> HIDE DEF w, split, q
  <2> QED
    BY <1>1, <1>2
<1>4. nodes(tr) \union split = nodes(tr) \union ({q} \ {Root})
  BY <1>1
<1>5. nodes(w) = nodes(tr) \union split /\ DOMAIN w.stamp = nodes(w)
  BY <1>3 DEF nodes
<1>6. \A n \in nodes(tr) : w.ref[n] = tr.ref[n]
  BY <1>3
<1>7. ASSUME NEW m \in nodes(tr), q # Root, Ends(tr, q, m)
      PROVE  w.ref[q] = tr.ref[m]
  <2>1. CASE q \in nodes(tr)
    BY <2>1, <1>1, <1>6, <1>7, EndsUnique
  <2>2. CASE q \notin nodes(tr)
    <3> DEFINE below == {n \in nodes(tr) : IsStrictPrefix(q, n)}
               node == CHOOSE n \in below : \A other \in below : Len(n) <= Len(other)
    <3>1. nodes(tr) \subseteq Seq(S)
      BY NodesArePaths
    <3>2. m \in below
      BY <1>7, <2>2 DEF Ends, IsStrictPrefix
    <3>3. \A other \in below : IsPrefix(m, other)
      BY <1>7 DEF Ends, IsStrictPrefix
    <3>4. \A other \in below : Len(m) <= Len(other)
      BY <3>1, <3>3, PrefixOrder
    <3>5. node \in below /\ \A other \in below : Len(node) <= Len(other)
      BY <3>2, <3>4
    <3>6. Len(node) <= Len(m) /\ IsPrefix(m, node) /\ node \in Seq(S)
      BY <3>1, <3>2, <3>3, <3>5
    <3>7. Len(m) <= Len(node) /\ Len(m) \in Nat /\ Len(node) \in Nat
      BY <3>1, <3>4, <3>5, <3>6, LenProperties
    <3>8. node = m
      <4>1. Len(m) = Len(node)
        BY <3>6, <3>7
      <4> QED
        BY <4>1, <3>1, <3>6, PrefixOrder
    <3>9. split_ref(tr, q) = tr.ref[m]
      BY <3>8 DEF split_ref
    <3> QED
      BY <3>9, <2>2, <1>3, <1>7
  <2> QED
    BY <2>1, <2>2
<1>8. ASSUME NEW n \in nodes(w)
      PROVE  w.stamp[n] = tic \/ (n \in nodes(tr) /\ w.stamp[n] = tr.stamp[n])
  <2>1. CASE IsPrefix(n, q)
    BY <2>1, <1>3, <1>5
  <2>2. CASE ~ IsPrefix(n, q)
    <3>1. n # q
      BY <2>2, <1>1, PrefixOrder
    <3> QED
      BY <3>1, <2>2, <1>3, <1>5
  <2> QED
    BY <2>1, <2>2
<1> HIDE DEF w, split, q
<1>9. /\ DOMAIN w = {"value", "ref", "stamp", "evictable", "protected"}
      /\ nodes(w) = nodes(tr) \union ({q} \ {Root})
  BY <1>1, <1>3, <1>4, <1>5
<1> QED
  BY <1>3, <1>5, <1>6, <1>7, <1>8, <1>9 DEF w, q

\* The ref count of a node counts the handles of H whose path passes it; at[h]
\* is the node the handle h was given.
CountsHandles(tr, H, at) ==
  /\ IsFiniteSet(H)
  /\ \A h \in H : at[h] \in nodes(tr) \union {Root}
  /\ \A n \in nodes(tr) : tr.ref[n] = Cardinality({h \in H : IsPrefix(n, at[h])})

\* A node counted by handles has a natural ref count, zero if no handle passes.
LEMMA CountsMeaning ==
  ASSUME NEW tr, NEW H, NEW at, CountsHandles(tr, H, at), NEW n \in nodes(tr)
  PROVE  /\ tr.ref[n] \in Nat
         /\ tr.ref[n] = 0 <=> \A h \in H : ~ IsPrefix(n, at[h])
<1> DEFINE T == {h \in H : IsPrefix(n, at[h])}
<1>1. IsFiniteSet(T)
  BY FS_Subset DEF CountsHandles
<1>2. tr.ref[n] = Cardinality(T)
  BY DEF CountsHandles
<1>3. Cardinality(T) \in Nat /\ (Cardinality(T) = 0 <=> T = {})
  <2> HIDE DEF T
  <2> QED
    BY <1>1, FS_CardinalityType, FS_EmptySet
<1>4. T = {} <=> \A h \in H : ~ IsPrefix(n, at[h])
  OBVIOUS
<1> QED
  BY <1>2, <1>3, <1>4

\* Where a split leaves the pages: on an edge whose node has the ref count of
\* the node they were on the edge of.
LEMMA WalkEnds ==
  ASSUME NEW S, NEW tr, TreeInv(tr, S), NEW p \in Seq(S), NEW tic,
         NEW x \in DOMAIN tr.value, NEW m \in nodes(tr), Ends(tr, x, m)
  PROVE  LET w == tree_walk(tr, p, tic)
         IN  \E n \in nodes(w) : Ends(w, x, n) /\ w.ref[n] = tr.ref[m]
<1> DEFINE q == matched_path(tr, p)
           w == tree_walk(tr, p, tic)
<1>1. /\ nodes(w) = nodes(tr) \union ({q} \ {Root})
      /\ \A n \in nodes(tr) : w.ref[n] = tr.ref[n]
      /\ \A n \in nodes(tr) : q # Root /\ Ends(tr, q, n) => w.ref[q] = tr.ref[n]
  BY WalkFacts
<1>2. nodes(tr) \subseteq Seq(S) /\ x \in Seq(S) /\ m \in Seq(S)
  BY NodesArePaths
<1>3. q \in Seq(S) /\ (q = Root \/ q \in DOMAIN tr.value)
  BY MatchedPath
<1>4. /\ IsPrefix(x, m)
      /\ \A n \in nodes(tr) : IsPrefix(x, n) => IsPrefix(m, n)
  BY DEF Ends
<1> HIDE DEF w, q
<1>5. CASE q = Root \/ ~ IsPrefix(x, q)
  <2>1. \A n \in nodes(w) : IsPrefix(x, n) => n \in nodes(tr)
    BY <1>1, <1>5
  <2>2. Ends(w, x, m)
    BY <1>1, <1>4, <2>1 DEF Ends
  <2> QED
    BY <2>2, <1>1 DEF w
<1>6. CASE q # Root /\ IsPrefix(x, q)
  <2>1. PICK k \in nodes(tr) : Ends(tr, q, k)
    BY <1>3, <1>6 DEF TreeInv
  <2>2. IsPrefix(q, k) /\ \A n \in nodes(tr) : IsPrefix(q, n) => IsPrefix(k, n)
    BY <2>1 DEF Ends
  <2>3. IsPrefix(x, k) /\ IsPrefix(m, k)
    BY <1>2, <1>3, <1>4, <1>6, <2>2, PrefixOrder
  <2>4. CASE m = k
    <3>1. \A n \in nodes(w) : IsPrefix(x, n) => IsPrefix(q, n)
      <4> SUFFICES ASSUME NEW n \in nodes(w), IsPrefix(x, n) PROVE IsPrefix(q, n)
        OBVIOUS
      <4>1. CASE n = q
        BY <4>1, <1>3, PrefixOrder
      <4>2. CASE n \in nodes(tr)
        <5>1. IsPrefix(k, n)
          BY <4>2, <1>4, <2>4
        <5> QED
          BY <5>1, <4>2, <2>2, <1>2, <1>3, PrefixOrder
      <4> QED
        BY <4>1, <4>2, <1>1
    <3>2. q \in nodes(w) /\ Ends(w, x, q)
      BY <1>1, <1>6, <3>1 DEF Ends
    <3>3. w.ref[q] = tr.ref[m]
      BY <1>1, <1>6, <2>1, <2>4
    <3> QED
      BY <3>2, <3>3 DEF w
  <2>5. CASE m # k
    <3>1. ~ IsPrefix(q, m)
      BY <2>2, <2>3, <2>5, <1>2, PrefixOrder
    <3>2. IsPrefix(m, q)
      BY <3>1, <2>2, <2>3, <1>2, <1>3, PrefixOrder
    <3>3. Ends(w, x, m)
      BY <3>2, <1>1, <1>4 DEF Ends
    <3> QED
      BY <3>3, <1>1 DEF w
  <2> QED
    BY <2>4, <2>5
<1> QED
  BY <1>5, <1>6

\* tree_walk keeps the shape of the tree.
LEMMA WalkKeepsShape ==
  ASSUME NEW S, NEW tr, TreeInv(tr, S), NEW p \in Seq(S), NEW tic
  PROVE  TreeInv(tree_walk(tr, p, tic), S)
<1> DEFINE q == matched_path(tr, p)
           w == tree_walk(tr, p, tic)
<1>1. /\ DOMAIN w = {"value", "ref", "stamp", "evictable", "protected"}
      /\ w.value = tr.value
      /\ nodes(w) = nodes(tr) \union ({q} \ {Root})
      /\ DOMAIN w.stamp = nodes(w)
  BY WalkFacts
<1>2. q = Root \/ q \in DOMAIN tr.value
  BY MatchedPath
<1>3. nodes(w) \subseteq DOMAIN w.value
  BY <1>1, <1>2 DEF TreeInv
<1>4. ASSUME NEW x \in DOMAIN w.value PROVE \E n \in nodes(w) : Ends(w, x, n)
  <2>1. x \in DOMAIN tr.value
    BY <1>1
  <2>2. PICK m \in nodes(tr) : Ends(tr, x, m)
    BY <2>1 DEF TreeInv
  <2> QED
    BY <2>1, <2>2, WalkEnds
<1> HIDE DEF w, q
<1>5. TreeInv(w, S)
  BY <1>1, <1>3, <1>4 DEF TreeInv
<1> QED
  BY <1>5 DEF w

\* tree_walk keeps the ref counts, and gives the matched path a node.
LEMMA WalkKeepsCounts ==
  ASSUME NEW S, NEW tr, TreeInv(tr, S), NEW p \in Seq(S), NEW tic,
         NEW H, NEW at, CountsHandles(tr, H, at)
  PROVE  /\ CountsHandles(tree_walk(tr, p, tic), H, at)
         /\ matched_path(tr, p) \in nodes(tree_walk(tr, p, tic)) \union {Root}
<1> DEFINE q == matched_path(tr, p)
           w == tree_walk(tr, p, tic)
<1>1. /\ nodes(w) = nodes(tr) \union ({q} \ {Root})
      /\ \A n \in nodes(tr) : w.ref[n] = tr.ref[n]
      /\ \A n \in nodes(tr) : q # Root /\ Ends(tr, q, n) => w.ref[q] = tr.ref[n]
  BY WalkFacts
<1>2. q \in Seq(S) /\ (q = Root \/ q \in DOMAIN tr.value)
  BY MatchedPath
<1>3. nodes(tr) \subseteq Seq(S)
  BY NodesArePaths
<1> HIDE DEF w, q
<1>4. \A h \in H : at[h] \in nodes(w) \union {Root}
  BY <1>1 DEF CountsHandles
<1>5. \A n \in nodes(tr) : w.ref[n] = Cardinality({h \in H : IsPrefix(n, at[h])})
  BY <1>1 DEF CountsHandles
<1>6. ASSUME q # Root
      PROVE  w.ref[q] = Cardinality({h \in H : IsPrefix(q, at[h])})
  <2>1. PICK m \in nodes(tr) : Ends(tr, q, m)
    BY <1>2, <1>6 DEF TreeInv
  <2>2. w.ref[q] = Cardinality({h \in H : IsPrefix(m, at[h])})
    BY <1>1, <1>6, <2>1 DEF CountsHandles
  <2>3. ASSUME NEW h \in H PROVE IsPrefix(q, at[h]) <=> IsPrefix(m, at[h])
    <3>1. IsPrefix(q, m) /\ \A n \in nodes(tr) : IsPrefix(q, n) => IsPrefix(m, n)
      BY <2>1 DEF Ends
    <3>2. CASE at[h] \in nodes(tr)
      BY <3>1, <3>2, <1>2, <1>3, PrefixOrder
    <3>3. CASE at[h] = Root
      <4>1. m # Root /\ m \in Seq(S)
        BY NodesArePaths
      <4> QED
        BY <4>1, <3>3, <1>2, <1>6, RootPrefix
    <3> QED
      BY <3>2, <3>3 DEF CountsHandles
  <2>4. {h \in H : IsPrefix(q, at[h])} = {h \in H : IsPrefix(m, at[h])}
    BY <2>3
  <2> QED
    BY <2>2, <2>4
<1>7. ASSUME NEW n \in nodes(w)
      PROVE  w.ref[n] = Cardinality({h \in H : IsPrefix(n, at[h])})
  BY <1>1, <1>5, <1>6
<1>8. CountsHandles(w, H, at)
  BY <1>4, <1>7 DEF CountsHandles
<1> QED
  BY <1>1, <1>8 DEF w, q

\* tree_walk keeps the sizes: cutting an edge changes no ref count.
LEMMA WalkKeepsSizes ==
  ASSUME NEW S, NEW tr, TreeInv(tr, S), NEW p \in Seq(S), NEW tic, SizesAgree(tr)
  PROVE  SizesAgree(tree_walk(tr, p, tic))
<1> DEFINE w == tree_walk(tr, p, tic)
           U(t) == {n \in nodes(t) : t.ref[n] = 0}
           L(t) == {n \in nodes(t) : t.ref[n] > 0}
<1>1. /\ w.value = tr.value
      /\ w.evictable = tr.evictable /\ w.protected = tr.protected
  BY WalkFacts
<1>2. TreeInv(w, S)
  BY WalkKeepsShape
<1>3. /\ edges(tr, U(tr)) \subseteq DOMAIN tr.value
      /\ edges(w, U(w)) \subseteq DOMAIN tr.value
      /\ edges(tr, L(tr)) \subseteq DOMAIN tr.value
      /\ edges(w, L(w)) \subseteq DOMAIN tr.value
  BY <1>1, <1>2, OnEdges
<1>4. ASSUME NEW x \in DOMAIN tr.value
      PROVE  /\ x \in edges(w, U(w)) <=> x \in edges(tr, U(tr))
             /\ x \in edges(w, L(w)) <=> x \in edges(tr, L(tr))
  <2>1. PICK m \in nodes(tr) : Ends(tr, x, m)
    BY DEF TreeInv
  <2>2. PICK n \in nodes(w) : Ends(w, x, n) /\ w.ref[n] = tr.ref[m]
    BY <2>1, WalkEnds
  <2>3. x \in edges(tr, U(tr)) <=> m \in U(tr)
    BY <2>1, OnEdges
  <2>4. x \in edges(tr, L(tr)) <=> m \in L(tr)
    BY <2>1, OnEdges
  <2>5. x \in edges(w, U(w)) <=> n \in U(w)
    BY <1>1, <1>2, <2>2, OnEdges
  <2>6. x \in edges(w, L(w)) <=> n \in L(w)
    BY <1>1, <1>2, <2>2, OnEdges
  <2> QED
    BY <2>2, <2>3, <2>4, <2>5, <2>6
<1>5. edges(w, U(w)) = edges(tr, U(tr)) /\ edges(w, L(w)) = edges(tr, L(tr))
  BY <1>3, <1>4
<1> QED
  BY <1>1, <1>5 DEF SizesAgree, tokens

-----------------------------------------------------------------------------
(***************************************************************************)
(* lock_handle and unlock_handle.                                          *)
(***************************************************************************)
\* Trees with the same pages, nodes and stamps have the same shape and edges.
LEMMA SameShape ==
  ASSUME NEW S, NEW tr, TreeInv(tr, S), NEW t,
         DOMAIN t = {"value", "ref", "stamp", "evictable", "protected"},
         t.value = tr.value, nodes(t) = nodes(tr), DOMAIN t.stamp = nodes(tr)
  PROVE  /\ TreeInv(t, S)
         /\ \A ns : edges(t, ns) = edges(tr, ns)
         /\ \A ns : tokens(t, ns) = tokens(tr, ns)
<1>1. \A x, m : Ends(t, x, m) <=> Ends(tr, x, m)
  BY DEF Ends
<1>2. \A n : ancestors(t, n) = ancestors(tr, n)
  BY DEF ancestors
<1>3. \A n : edge(t, n) = edge(tr, n)
  BY <1>2 DEF edge
<1>4. \A ns : edges(t, ns) = edges(tr, ns)
  BY <1>3 DEF edges
<1>5. TreeInv(t, S)
  BY <1>1 DEF TreeInv
<1> QED
  BY <1>4, <1>5 DEF tokens

\* The fields of lock_handle and unlock_handle.
LEMMA LockFields ==
  ASSUME NEW tr, NEW q,
         DOMAIN tr = {"value", "ref", "stamp", "evictable", "protected"},
         DOMAIN tr.stamp = nodes(tr)
  PROVE  /\ LET t == lock_handle(tr, q)
            IN  /\ DOMAIN t = {"value", "ref", "stamp", "evictable", "protected"}
                /\ t.value = tr.value /\ t.stamp = tr.stamp
                /\ nodes(t) = nodes(tr) /\ DOMAIN t.stamp = nodes(tr)
                /\ \A n \in nodes(tr) :
                     t.ref[n] = IF IsPrefix(n, q) THEN tr.ref[n] + 1 ELSE tr.ref[n]
                /\ t.evictable = tr.evictable - path_tokens(tr, q, 0)
                /\ t.protected = tr.protected + path_tokens(tr, q, 0)
         /\ LET t == unlock_handle(tr, q)
            IN  /\ DOMAIN t = {"value", "ref", "stamp", "evictable", "protected"}
                /\ t.value = tr.value /\ t.stamp = tr.stamp
                /\ nodes(t) = nodes(tr) /\ DOMAIN t.stamp = nodes(tr)
                /\ \A n \in nodes(tr) :
                     t.ref[n] = IF IsPrefix(n, q) THEN tr.ref[n] - 1 ELSE tr.ref[n]
                /\ t.evictable = tr.evictable + path_tokens(tr, q, 1)
                /\ t.protected = tr.protected - path_tokens(tr, q, 1)
<1> DEFINE l == lock_handle(tr, q)
           u == unlock_handle(tr, q)
<1>1. /\ DOMAIN l = DOMAIN tr
      /\ l.value = tr.value /\ l.stamp = tr.stamp
      /\ l.ref = [n \in nodes(tr) |->
                    IF IsPrefix(n, q) THEN tr.ref[n] + 1 ELSE tr.ref[n]]
      /\ l.evictable = tr.evictable - path_tokens(tr, q, 0)
      /\ l.protected = tr.protected + path_tokens(tr, q, 0)
  BY DEF lock_handle
<1>2. /\ DOMAIN u = DOMAIN tr
      /\ u.value = tr.value /\ u.stamp = tr.stamp
      /\ u.ref = [n \in nodes(tr) |->
                    IF IsPrefix(n, q) THEN tr.ref[n] - 1 ELSE tr.ref[n]]
      /\ u.evictable = tr.evictable + path_tokens(tr, q, 1)
      /\ u.protected = tr.protected - path_tokens(tr, q, 1)
  BY DEF unlock_handle
<1> HIDE DEF l, u
<1>3. nodes(l) = nodes(tr) /\ nodes(u) = nodes(tr)
  BY <1>1, <1>2 DEF nodes
<1>4. /\ \A n \in nodes(tr) :
           l.ref[n] = IF IsPrefix(n, q) THEN tr.ref[n] + 1 ELSE tr.ref[n]
      /\ \A n \in nodes(tr) :
           u.ref[n] = IF IsPrefix(n, q) THEN tr.ref[n] - 1 ELSE tr.ref[n]
  BY <1>1, <1>2
<1> QED
  BY <1>1, <1>2, <1>3, <1>4 DEF l, u

\* lock_handle for a new handle h at the node q.
LEMMA LockKeeps ==
  ASSUME NEW S, NEW tr, TreeInv(tr, S), NEW H, NEW at, CountsHandles(tr, H, at),
         NEW h, h \notin H, NEW q \in nodes(tr) \union {Root},
         NEW at2, at2[h] = q, \A g \in H : at2[g] = at[g]
  PROVE  /\ TreeInv(lock_handle(tr, q), S)
         /\ CountsHandles(lock_handle(tr, q), H \union {h}, at2)
<1> DEFINE l == lock_handle(tr, q)
<1>0. /\ DOMAIN tr = {"value", "ref", "stamp", "evictable", "protected"}
      /\ DOMAIN tr.stamp = nodes(tr)
  BY DEF TreeInv
<1>1. /\ DOMAIN l = {"value", "ref", "stamp", "evictable", "protected"}
      /\ l.value = tr.value
      /\ nodes(l) = nodes(tr) /\ DOMAIN l.stamp = nodes(tr)
      /\ \A n \in nodes(tr) :
           l.ref[n] = IF IsPrefix(n, q) THEN tr.ref[n] + 1 ELSE tr.ref[n]
  BY <1>0, LockFields
<1> HIDE DEF l
<1>2. TreeInv(l, S)
  BY <1>1, SameShape
<1>3. IsFiniteSet(H)
  BY DEF CountsHandles
<1>4. IsFiniteSet(H \union {h})
  BY <1>3, FS_AddElement
<1>5. \A g \in H \union {h} : at2[g] \in nodes(l) \union {Root}
  BY <1>1 DEF CountsHandles
<1>6. ASSUME NEW n \in nodes(l)
      PROVE  l.ref[n] = Cardinality({g \in H \union {h} : IsPrefix(n, at2[g])})
  <2> DEFINE T == {g \in H : IsPrefix(n, at[g])}
             T2 == {g \in H \union {h} : IsPrefix(n, at2[g])}
  <2>1. tr.ref[n] = Cardinality(T)
    BY <1>1 DEF CountsHandles
  <2>2. IsFiniteSet(T) /\ h \notin T
    BY <1>3, FS_Subset
  <2>3. T2 = IF IsPrefix(n, q) THEN T \union {h} ELSE T
    OBVIOUS
  <2> HIDE DEF T, T2
  <2>4. Cardinality(T \union {h}) = Cardinality(T) + 1
    BY <2>2, FS_AddElement
  <2>5. l.ref[n] = Cardinality(T2)
    BY <1>1, <2>1, <2>3, <2>4
  <2> QED
    BY <2>5 DEF T2
<1>7. CountsHandles(l, H \union {h}, at2)
  BY <1>4, <1>5, <1>6 DEF CountsHandles
<1> QED
  BY <1>2, <1>7 DEF l

\* unlock_handle for the handle h, which goes.
LEMMA UnlockKeeps ==
  ASSUME NEW S, NEW tr, TreeInv(tr, S), NEW H, NEW at, CountsHandles(tr, H, at),
         NEW h \in H, NEW at2, \A g \in H \ {h} : at2[g] = at[g]
  PROVE  /\ TreeInv(unlock_handle(tr, at[h]), S)
         /\ CountsHandles(unlock_handle(tr, at[h]), H \ {h}, at2)
<1> DEFINE q == at[h]
           u == unlock_handle(tr, q)
<1>0. /\ DOMAIN tr = {"value", "ref", "stamp", "evictable", "protected"}
      /\ DOMAIN tr.stamp = nodes(tr)
  BY DEF TreeInv
<1>1. /\ DOMAIN u = {"value", "ref", "stamp", "evictable", "protected"}
      /\ u.value = tr.value
      /\ nodes(u) = nodes(tr) /\ DOMAIN u.stamp = nodes(tr)
      /\ \A n \in nodes(tr) :
           u.ref[n] = IF IsPrefix(n, q) THEN tr.ref[n] - 1 ELSE tr.ref[n]
  BY <1>0, LockFields
<1> HIDE DEF u
<1>2. TreeInv(u, S)
  BY <1>1, SameShape
<1>3. IsFiniteSet(H) /\ IsFiniteSet(H \ {h})
  BY FS_RemoveElement DEF CountsHandles
<1>5. \A g \in H \ {h} : at2[g] \in nodes(u) \union {Root}
  BY <1>1 DEF CountsHandles
<1>6. ASSUME NEW n \in nodes(u)
      PROVE  u.ref[n] = Cardinality({g \in H \ {h} : IsPrefix(n, at2[g])})
  <2> DEFINE T == {g \in H : IsPrefix(n, at[g])}
             T2 == {g \in H \ {h} : IsPrefix(n, at2[g])}
  <2>1. tr.ref[n] = Cardinality(T)
    BY <1>1 DEF CountsHandles
  <2>2. IsFiniteSet(T) /\ (h \in T <=> IsPrefix(n, q))
    BY <1>3, FS_Subset
  <2>3. T2 = T \ {h}
    OBVIOUS
  <2> HIDE DEF T, T2
  <2>4. Cardinality(T \ {h}) = IF h \in T THEN Cardinality(T) - 1 ELSE Cardinality(T)
    BY <2>2, FS_RemoveElement
  <2>5. u.ref[n] = Cardinality(T2)
    BY <1>1, <2>1, <2>2, <2>3, <2>4
  <2> QED
    BY <2>5 DEF T2
<1>7. CountsHandles(u, H \ {h}, at2)
  BY <1>3, <1>5, <1>6 DEF CountsHandles
<1> QED
  BY <1>2, <1>7 DEF u

\* lock_handle moves the path's evictable tokens to the protected ones.
LEMMA LockKeepsSizes ==
  ASSUME NEW S, NEW tr, TreeInv(tr, S), NEW H, NEW at, CountsHandles(tr, H, at),
         NEW q, SizesAgree(tr)
  PROVE  SizesAgree(lock_handle(tr, q))
<1> DEFINE l == lock_handle(tr, q)
           U == {n \in nodes(tr) : tr.ref[n] = 0}
           P == {n \in nodes(tr) : tr.ref[n] > 0}
           A == {m \in ancestors(tr, q) : tr.ref[m] = 0}
           U2 == {n \in nodes(l) : l.ref[n] = 0}
           P2 == {n \in nodes(l) : l.ref[n] > 0}
<1>0. /\ DOMAIN tr = {"value", "ref", "stamp", "evictable", "protected"}
      /\ DOMAIN tr.stamp = nodes(tr)
  BY DEF TreeInv
<1>1. /\ DOMAIN l = {"value", "ref", "stamp", "evictable", "protected"}
      /\ l.value = tr.value
      /\ nodes(l) = nodes(tr) /\ DOMAIN l.stamp = nodes(tr)
      /\ \A n \in nodes(tr) :
           l.ref[n] = IF IsPrefix(n, q) THEN tr.ref[n] + 1 ELSE tr.ref[n]
      /\ l.evictable = tr.evictable - path_tokens(tr, q, 0)
      /\ l.protected = tr.protected + path_tokens(tr, q, 0)
  BY <1>0, LockFields
<1> HIDE DEF l
<1>2. \A n \in nodes(tr) : tr.ref[n] \in Nat
  BY CountsMeaning
<1>3. U2 = U \ A /\ P = P2 \ A
  BY <1>1, <1>2 DEF ancestors
<1>4. A \in SUBSET U /\ A \in SUBSET P2 /\ U \in SUBSET nodes(tr) /\ P2 \in SUBSET nodes(tr)
  BY <1>1, <1>2 DEF ancestors
<1>5. \A ns : tokens(l, ns) = tokens(tr, ns)
  BY <1>1, SameShape
<1>6. path_tokens(tr, q, 0) = tokens(tr, A)
  BY DEF path_tokens
<1>7. tr.evictable = tokens(tr, U) /\ tr.protected = tokens(tr, P)
  BY DEF SizesAgree
<1> HIDE DEF U, P, A, U2, P2
<1>8. /\ tokens(tr, U2) = tokens(tr, U) - tokens(tr, A)
      /\ tokens(tr, P) = tokens(tr, P2) - tokens(tr, A)
      /\ tokens(tr, A) \in Nat /\ tokens(tr, P2) \in Nat
  BY <1>3, <1>4, TokensSplit
<1>9. l.evictable = tokens(l, U2) /\ l.protected = tokens(l, P2)
  BY <1>1, <1>5, <1>6, <1>7, <1>8
<1> QED
  BY <1>9 DEF SizesAgree, U2, P2, l

\* unlock_handle gives back the tokens that no other handle protects.
LEMMA UnlockKeepsSizes ==
  ASSUME NEW S, NEW tr, TreeInv(tr, S), NEW H, NEW at, CountsHandles(tr, H, at),
         NEW h \in H, SizesAgree(tr)
  PROVE  SizesAgree(unlock_handle(tr, at[h]))
<1> DEFINE q == at[h]
           u == unlock_handle(tr, q)
           U == {n \in nodes(tr) : tr.ref[n] = 0}
           P == {n \in nodes(tr) : tr.ref[n] > 0}
           A == {m \in ancestors(tr, q) : tr.ref[m] = 1}
           U2 == {n \in nodes(u) : u.ref[n] = 0}
           P2 == {n \in nodes(u) : u.ref[n] > 0}
<1>0. /\ DOMAIN tr = {"value", "ref", "stamp", "evictable", "protected"}
      /\ DOMAIN tr.stamp = nodes(tr)
  BY DEF TreeInv
<1>1. /\ DOMAIN u = {"value", "ref", "stamp", "evictable", "protected"}
      /\ u.value = tr.value
      /\ nodes(u) = nodes(tr) /\ DOMAIN u.stamp = nodes(tr)
      /\ \A n \in nodes(tr) :
           u.ref[n] = IF IsPrefix(n, q) THEN tr.ref[n] - 1 ELSE tr.ref[n]
      /\ u.evictable = tr.evictable + path_tokens(tr, q, 1)
      /\ u.protected = tr.protected - path_tokens(tr, q, 1)
  BY <1>0, LockFields
<1> HIDE DEF u
<1>2. \A n \in nodes(tr) : tr.ref[n] \in Nat /\ (IsPrefix(n, q) => tr.ref[n] # 0)
  BY CountsMeaning
<1>3. U = U2 \ A /\ P2 = P \ A
  BY <1>1, <1>2 DEF ancestors
<1>4. A \in SUBSET U2 /\ A \in SUBSET P /\ U2 \in SUBSET nodes(tr) /\ P \in SUBSET nodes(tr)
  BY <1>1, <1>2 DEF ancestors
<1>5. \A ns : tokens(u, ns) = tokens(tr, ns)
  BY <1>1, SameShape
<1>6. path_tokens(tr, q, 1) = tokens(tr, A)
  BY DEF path_tokens
<1>7. tr.evictable = tokens(tr, U) /\ tr.protected = tokens(tr, P)
  BY DEF SizesAgree
<1> HIDE DEF U, P, A, U2, P2
<1>8. /\ tokens(tr, U) = tokens(tr, U2) - tokens(tr, A)
      /\ tokens(tr, P2) = tokens(tr, P) - tokens(tr, A)
      /\ tokens(tr, A) \in Nat /\ tokens(tr, U2) \in Nat
  BY <1>3, <1>4, TokensSplit
<1>9. u.evictable = tokens(u, U2) /\ u.protected = tokens(u, P2)
  BY <1>1, <1>5, <1>6, <1>7, <1>8
<1> QED
  BY <1>9 DEF SizesAgree, U2, P2, u, q

-----------------------------------------------------------------------------
(***************************************************************************)
(* insert_prefix.                                                          *)
(***************************************************************************)
\* The pages of p that the tree does not hold.
missing(tr, p, S) ==
  {y \in Seq(S) \ {Root} : IsPrefix(y, p) /\ y \notin DOMAIN tr.value}

\* The leaf insert_prefix adds, if any.
new_leaf(tr, p) == IF matched_pages(tr, p) = Len(p) THEN {} ELSE {p}

\* They are the pages past the matched ones.
LEMMA MissingPages ==
  ASSUME NEW S, NEW tr, TreeInv(tr, S), NEW p \in Seq(S)
  PROVE  /\ \A y \in missing(tr, p, S) : Len(y) \in (matched_pages(tr, p) + 1) .. Len(p)
         /\ IsFiniteSet(missing(tr, p, S))
         /\ Cardinality(missing(tr, p, S)) = Len(p) - matched_pages(tr, p)
<1> DEFINE k == matched_pages(tr, p)
           q == matched_path(tr, p)
           New == missing(tr, p, S)
           I == (k + 1) .. Len(p)
           f == [i \in I |-> SubSeq(p, 1, i)]
<1>1. /\ q \in Seq(S) /\ IsPrefix(q, p) /\ Len(q) = k /\ k \in 0 .. Len(p)
      /\ q = Root \/ q \in DOMAIN tr.value
      /\ \A x \in DOMAIN tr.value : IsPrefix(x, p) => IsPrefix(x, q)
  BY MatchedPath
<1>2. Len(p) \in Nat
  BY LenProperties
<1> HIDE DEF k, q
<1>3. \A i \in I : /\ f[i] \in Seq(S) /\ Len(f[i]) = i /\ IsPrefix(f[i], p)
  BY <1>1, <1>2, PrefixCut
<1>4. ASSUME NEW i \in I PROVE f[i] \in New
  <2>1. f[i] # Root
    BY <1>1, <1>3, RootPrefix
  <2>2. ASSUME f[i] \in DOMAIN tr.value PROVE FALSE
    <3>1. IsPrefix(f[i], q)
      BY <1>1, <1>3, <2>2
    <3>2. Len(f[i]) <= Len(q)
      BY <1>1, <1>3, <3>1, PrefixOrder
    <3> QED
      BY <1>1, <1>3, <3>2
  <2> QED
    BY <1>3, <2>1, <2>2 DEF missing
<1>5. ASSUME NEW y \in New PROVE Len(y) \in I /\ y = f[Len(y)]
  <2>1. y \in Seq(S) /\ y # Root /\ IsPrefix(y, p) /\ y \notin DOMAIN tr.value
    BY DEF missing
  <2>2. y = SubSeq(p, 1, Len(y)) /\ Len(y) \in 0 .. Len(p)
    BY <2>1, PrefixCut
  <2>3. Len(y) # 0
    BY <2>1, RootPrefix
  <2>4. ASSUME Len(y) <= k PROVE FALSE
    <3>1. IsPrefix(y, q)
      BY <1>1, <2>1, <2>4, PrefixOrder
    <3>2. q # Root
      BY <3>1, <2>1, RootPrefix
    <3> QED
      BY <1>1, <2>1, <3>1, <3>2 DEF TreeInv
  <2>5. Len(y) \in I
    BY <1>1, <1>2, <2>2, <2>4
  <2> QED
    BY <2>2, <2>5
<1>6. f \in Bijection(I, New)
  <2>1. f \in [I -> New]
    BY <1>4
  <2>2. \A i, j \in I : f[i] = f[j] => i = j
    BY <1>3
  <2>3. \A y \in New : \E i \in I : f[i] = y
    BY <1>5
  <2> HIDE DEF f, New, I
  <2> QED
    BY <2>1, <2>2, <2>3 DEF Bijection, Injection, Surjection, IsInjective
<1>7. IsFiniteSet(I) /\ Cardinality(I) = Len(p) - k
  <2>1. \A a, b \in Int : /\ IsFiniteSet(a .. b)
                          /\ Cardinality(a .. b) = IF a > b THEN 0 ELSE b - a + 1
    BY FS_Interval
  <2>2. k + 1 \in Int /\ Len(p) \in Int
    BY <1>1, <1>2
  <2>3. /\ IsFiniteSet(I)
        /\ Cardinality(I) = IF k + 1 > Len(p) THEN 0 ELSE Len(p) - (k + 1) + 1
    BY <2>1, <2>2
  <2> HIDE DEF I
  <2> QED
    BY <1>1, <1>2, <2>3
<1>8. IsFiniteSet(New) /\ Cardinality(New) = Len(p) - k
  <2> HIDE DEF f, New, I
  <2>1. ExistsBijection(I, New)
    BY <1>6 DEF ExistsBijection
  <2> QED
    BY <1>7, <2>1, FS_Bijection
<1> QED
  BY <1>5, <1>8 DEF k

\* The fields of insert_prefix: the walk, and one leaf for the missing pages.
LEMMA InsertFacts ==
  ASSUME NEW S, NEW tr, TreeInv(tr, S), NEW p \in Seq(S), NEW slots, NEW tic
  PROVE  LET w == tree_walk(tr, p, tic)
             t == insert_prefix(tr, p, slots, tic)
             k == matched_pages(tr, p)
             fresh == new_leaf(tr, p)
         IN  /\ DOMAIN t = {"value", "ref", "stamp", "evictable", "protected"}
             /\ DOMAIN t.value = DOMAIN tr.value \union missing(tr, p, S)
             /\ DOMAIN tr.value \cap missing(tr, p, S) = {}
             /\ \A x \in DOMAIN tr.value : t.value[x] = tr.value[x]
             /\ \A x \in missing(tr, p, S) : t.value[x] = slots[Len(x)]
             /\ nodes(t) = nodes(w) \union fresh
             /\ DOMAIN t.stamp = nodes(t)
             /\ \A n \in nodes(w) : n \notin fresh /\ t.ref[n] = w.ref[n]
             /\ \A n \in fresh : t.ref[n] = 0
             /\ \A n \in nodes(w) : t.stamp[n] = w.stamp[n]
             /\ \A n \in fresh : t.stamp[n] = tic + 1
             /\ fresh \subseteq missing(tr, p, S)
             /\ fresh = {} => missing(tr, p, S) = {}
             /\ t.evictable = tr.evictable + PageSize * (Len(p) - k)
             /\ t.protected = tr.protected
<1> DEFINE w == tree_walk(tr, p, tic)
           t == insert_prefix(tr, p, slots, tic)
           k == matched_pages(tr, p)
           q == matched_path(tr, p)
           fresh == new_leaf(tr, p)
           New == missing(tr, p, S)
           dom == DOMAIN tr.value \union (Prefixes(p) \ {Root})
<1>1. /\ DOMAIN w = {"value", "ref", "stamp", "evictable", "protected"}
      /\ w.value = tr.value
      /\ w.evictable = tr.evictable /\ w.protected = tr.protected
      /\ nodes(w) = nodes(tr) \union ({q} \ {Root})
      /\ DOMAIN w.stamp = nodes(w)
  BY WalkFacts
<1>2. /\ DOMAIN t = DOMAIN w
      /\ t.value = [x \in dom |-> IF x \in DOMAIN tr.value THEN tr.value[x]
                                  ELSE slots[Len(x)]]
      /\ t.ref = [n \in nodes(w) \union fresh |-> IF n \in fresh THEN 0 ELSE w.ref[n]]
      /\ t.stamp = [n \in nodes(w) \union fresh |->
                      IF n \in fresh THEN tic + 1 ELSE w.stamp[n]]
      /\ t.evictable = w.evictable + PageSize * (Len(p) - k)
      /\ t.protected = w.protected
  <2>1. t = [w EXCEPT
         !.value = [x \in dom |->
                      IF x \in DOMAIN tr.value THEN tr.value[x] ELSE slots[Len(x)]],
         !.ref = [n \in nodes(w) \union fresh |->
                    IF n \in fresh THEN 0 ELSE w.ref[n]],
         !.stamp = [n \in nodes(w) \union fresh |->
                      IF n \in fresh THEN tic + 1 ELSE w.stamp[n]],
         !.evictable = @ + PageSize * (Len(p) - k)]
    BY DEF insert_prefix, new_leaf
  <2> HIDE DEF w, t, k, dom, fresh
  <2> QED
    BY <1>1, <2>1
<1>3. dom = DOMAIN tr.value \union New /\ DOMAIN tr.value \cap New = {}
  <2>1. Prefixes(p) = {y \in Seq(S) : IsPrefix(y, p)}
    BY PrefixesMeaning
  <2> QED
    BY <2>1 DEF missing
<1>4. DOMAIN t.value = DOMAIN tr.value \union New
  BY <1>2, <1>3
<1>5. nodes(t) = nodes(w) \union fresh /\ DOMAIN t.stamp = nodes(t)
  BY <1>2 DEF nodes
<1>6. /\ q \in Seq(S) /\ IsPrefix(q, p) /\ Len(q) = k /\ k \in 0 .. Len(p)
      /\ q = Root \/ q \in DOMAIN tr.value
      /\ \A x \in DOMAIN tr.value : IsPrefix(x, p) => IsPrefix(x, q)
  BY MatchedPath
<1>7. Len(p) \in Nat
  BY LenProperties
<1>8. fresh \subseteq New
  <2> SUFFICES ASSUME k # Len(p) PROVE p \in New
    BY DEF new_leaf
  <2>1. p # Root
    BY <1>6, RootPrefix
  <2>2. IsPrefix(p, p)
    BY PrefixOrder
  <2>3. ASSUME p \in DOMAIN tr.value PROVE FALSE
    <3>1. IsPrefix(p, q)
      BY <1>6, <2>2, <2>3
    <3>2. Len(p) <= Len(q)
      BY <3>1, <1>6, PrefixOrder
    <3> QED
      BY <3>2, <1>6, <1>7
  <2> QED
    BY <2>1, <2>2, <2>3 DEF missing
<1>9. fresh = {} => New = {}
  <2> SUFFICES ASSUME k = Len(p) PROVE New = {}
    BY DEF new_leaf
  <2>1. \A y \in New : Len(y) \in (k + 1) .. Len(p)
    BY MissingPages
  <2>2. (k + 1) .. Len(p) = {}
    BY <1>7
  <2> QED
    BY <2>1, <2>2
<1>10. \A n \in nodes(w) : n \notin fresh
  <2>1. nodes(w) \subseteq DOMAIN tr.value
    BY <1>1, <1>6, NodesArePaths
  <2> QED
    BY <2>1, <1>3, <1>8
<1> HIDE DEF w, t, k, q, dom, fresh, New
<1>11. /\ \A n \in nodes(w) : t.ref[n] = w.ref[n] /\ t.stamp[n] = w.stamp[n]
       /\ \A n \in fresh : t.ref[n] = 0 /\ t.stamp[n] = tic + 1
  BY <1>2, <1>10
<1>12. /\ \A x \in DOMAIN tr.value : t.value[x] = tr.value[x]
       /\ \A x \in New : t.value[x] = slots[Len(x)]
  BY <1>2, <1>3
<1>13. t.evictable = tr.evictable + PageSize * (Len(p) - k) /\ t.protected = tr.protected
  BY <1>1, <1>2
<1>14. DOMAIN t = {"value", "ref", "stamp", "evictable", "protected"}
  BY <1>1, <1>2
<1> QED
  BY <1>3, <1>4, <1>5, <1>8, <1>9, <1>10, <1>11, <1>12, <1>13, <1>14
  DEF w, t, k, fresh, New

\* A page keeps its edge when a leaf is added, and the new pages are on the
\* edge of the leaf.
LEMMA InsertEnds ==
  ASSUME NEW S, NEW tr, TreeInv(tr, S), NEW p \in Seq(S), NEW slots, NEW tic
  PROVE  LET w == tree_walk(tr, p, tic)
             t == insert_prefix(tr, p, slots, tic)
         IN  /\ \A x \in DOMAIN tr.value, m \in nodes(w) :
                  Ends(w, x, m) => m \in nodes(t) /\ Ends(t, x, m)
             /\ \A x \in missing(tr, p, S) : p \in nodes(t) /\ p \notin nodes(w) /\ Ends(t, x, p)
<1> DEFINE w == tree_walk(tr, p, tic)
           t == insert_prefix(tr, p, slots, tic)
           k == matched_pages(tr, p)
           q == matched_path(tr, p)
           fresh == new_leaf(tr, p)
           New == missing(tr, p, S)
<1>1. /\ nodes(t) = nodes(w) \union fresh
      /\ \A n \in nodes(w) : n \notin fresh
      /\ fresh \subseteq New
      /\ fresh = {} => New = {}
      /\ DOMAIN tr.value \cap New = {}
  BY InsertFacts
<1>2. /\ w.value = tr.value
      /\ nodes(w) = nodes(tr) \union ({q} \ {Root})
  BY WalkFacts
<1>3. TreeInv(w, S)
  BY WalkKeepsShape
<1>4. /\ q \in Seq(S) /\ IsPrefix(q, p)
      /\ \A x \in DOMAIN tr.value : IsPrefix(x, p) => IsPrefix(x, q)
  BY MatchedPath
<1>5. nodes(w) \subseteq DOMAIN tr.value /\ DOMAIN tr.value \subseteq Seq(S) \ {Root}
  BY <1>2, <1>3, NodesArePaths
<1>6. fresh \subseteq {p}
  BY DEF new_leaf
<1> HIDE DEF w, t, k, q, fresh, New
<1>7. ASSUME NEW x \in DOMAIN tr.value, NEW m \in nodes(w), Ends(w, x, m)
      PROVE  m \in nodes(t) /\ Ends(t, x, m)
  <2>1. ASSUME IsPrefix(x, p) PROVE IsPrefix(m, p)
    <3>1. IsPrefix(x, q)
      BY <1>4, <2>1
    <3>2. q # Root
      BY <3>1, <1>4, <1>5, RootPrefix
    <3>3. IsPrefix(m, q)
      BY <1>2, <1>7, <3>1, <3>2 DEF Ends
    <3> QED
      BY <1>4, <1>5, <3>3, PrefixOrder
  <2>2. IsPrefix(x, m) /\ \A n \in nodes(w) : IsPrefix(x, n) => IsPrefix(m, n)
    BY <1>7 DEF Ends
  <2>3. \A n \in nodes(t) : IsPrefix(x, n) => IsPrefix(m, n)
    BY <1>1, <1>6, <2>1, <2>2
  <2> QED
    BY <1>1, <2>2, <2>3 DEF Ends
<1>8. ASSUME NEW x \in New
      PROVE  p \in nodes(t) /\ p \notin nodes(w) /\ Ends(t, x, p)
  <2>1. p \in fresh
    BY <1>1, <1>6
  <2>2. x \in Seq(S) \ {Root} /\ IsPrefix(x, p) /\ x \notin DOMAIN tr.value
    BY DEF New, missing
  <2>3. ASSUME NEW n \in nodes(w), IsPrefix(x, n) PROVE FALSE
    <3>1. n \in DOMAIN w.value
      BY <1>2, <1>5
    <3>2. x \in DOMAIN w.value
      BY <1>3, <2>2, <2>3, <3>1 DEF TreeInv
    <3> QED
      BY <3>2, <2>2, <1>2
  <2>4. \A n \in nodes(t) : IsPrefix(x, n) => IsPrefix(p, n)
    <3>1. IsPrefix(p, p)
      BY PrefixOrder
    <3> QED
      BY <1>1, <1>6, <2>3, <3>1
  <2> QED
    BY <1>1, <2>1, <2>2, <2>4 DEF Ends
<1> QED
  BY <1>7, <1>8 DEF w, t, New

\* insert_prefix keeps the shape of the tree.
LEMMA InsertKeepsShape ==
  ASSUME NEW S, NEW tr, TreeInv(tr, S), NEW p \in Seq(S), NEW slots, NEW tic
  PROVE  TreeInv(insert_prefix(tr, p, slots, tic), S)
<1> DEFINE w == tree_walk(tr, p, tic)
           t == insert_prefix(tr, p, slots, tic)
           New == missing(tr, p, S)
           D == DOMAIN tr.value
<1>1. /\ DOMAIN t = {"value", "ref", "stamp", "evictable", "protected"}
      /\ DOMAIN t.value = D \union New
      /\ nodes(t) = nodes(w) \union new_leaf(tr, p)
      /\ DOMAIN t.stamp = nodes(t)
      /\ new_leaf(tr, p) \subseteq New
  BY InsertFacts
<1>2. TreeInv(w, S) /\ w.value = tr.value
  BY WalkKeepsShape, WalkFacts
<1>3. IsFiniteSet(D) /\ D \subseteq Seq(S) \ {Root} /\ nodes(w) \subseteq D
  BY <1>2 DEF TreeInv
<1>4. IsFiniteSet(New) /\ New \subseteq Seq(S) \ {Root}
  BY MissingPages DEF missing
<1> HIDE DEF w, t
<1>5. IsFiniteSet(DOMAIN t.value)
  <2> HIDE DEF New, D
  <2>1. IsFiniteSet(D \union New)
    BY <1>3, <1>4, FS_Union
  <2> QED
    BY <1>1, <2>1
<1>6. ASSUME NEW x \in DOMAIN t.value, NEW y \in Seq(S) \ {Root}, IsPrefix(y, x)
      PROVE  y \in DOMAIN t.value
  <2>1. CASE x \in D
    BY <2>1, <1>1, <1>6 DEF TreeInv
  <2>2. CASE x \in New
    <3>1. IsPrefix(x, p) /\ x \in Seq(S)
      BY <2>2 DEF missing
    <3>2. IsPrefix(y, p)
      BY <3>1, <1>6, PrefixOrder
    <3> QED
      BY <3>2, <1>1 DEF missing
  <2> QED
    BY <2>1, <2>2, <1>1
<1>7. ASSUME NEW x \in DOMAIN t.value PROVE \E m \in nodes(t) : Ends(t, x, m)
  <2>1. CASE x \in D
    <3>1. PICK m \in nodes(w) : Ends(w, x, m)
      BY <2>1, <1>2 DEF TreeInv
    <3> QED
      BY <2>1, <3>1, InsertEnds DEF w, t
  <2>2. CASE x \in New
    BY <2>2, InsertEnds DEF t
  <2> QED
    BY <2>1, <2>2, <1>1
<1>8. TreeInv(t, S)
  <2> HIDE DEF New, D
  <2>1. DOMAIN t.value \subseteq Seq(S) \ {Root}
    BY <1>1, <1>3, <1>4
  <2>2. nodes(t) \subseteq DOMAIN t.value
    BY <1>1, <1>3
  <2> QED
    BY <1>1, <1>5, <1>6, <1>7, <2>1, <2>2 DEF TreeInv
<1> QED
  BY <1>8 DEF t

\* insert_prefix keeps the ref counts: no handle is below the new leaf.
LEMMA InsertKeepsCounts ==
  ASSUME NEW S, NEW tr, TreeInv(tr, S), NEW p \in Seq(S), NEW slots, NEW tic,
         NEW H, NEW at, CountsHandles(tr, H, at)
  PROVE  CountsHandles(insert_prefix(tr, p, slots, tic), H, at)
<1> DEFINE w == tree_walk(tr, p, tic)
           t == insert_prefix(tr, p, slots, tic)
<1>1. /\ nodes(t) = nodes(w) \union new_leaf(tr, p)
      /\ \A n \in nodes(w) : n \notin new_leaf(tr, p) /\ t.ref[n] = w.ref[n]
      /\ \A n \in new_leaf(tr, p) : t.ref[n] = 0
      /\ new_leaf(tr, p) \subseteq missing(tr, p, S)
  BY InsertFacts
<1>2. TreeInv(w, S) /\ w.value = tr.value
  BY WalkKeepsShape, WalkFacts
<1>3. CountsHandles(w, H, at)
  BY WalkKeepsCounts
<1> HIDE DEF w, t
<1>4. \A h \in H : at[h] \in nodes(w) \union {Root}
  BY <1>3 DEF CountsHandles
<1>5. ASSUME NEW n \in new_leaf(tr, p), NEW h \in H, IsPrefix(n, at[h]) PROVE FALSE
  <2>1. n \in Seq(S) \ {Root} /\ n \notin DOMAIN tr.value
    BY <1>1 DEF missing
  <2>2. at[h] # Root
    BY <2>1, <1>5, RootPrefix
  <2>3. at[h] \in DOMAIN w.value
    BY <1>2, <1>4, <2>2 DEF TreeInv
  <2> QED
    BY <1>2, <1>5, <2>1, <2>3 DEF TreeInv
<1>6. ASSUME NEW n \in new_leaf(tr, p)
      PROVE  t.ref[n] = Cardinality({h \in H : IsPrefix(n, at[h])})
  <2>1. {h \in H : IsPrefix(n, at[h])} = {}
    BY <1>5
  <2> QED
    BY <1>1, <2>1, FS_EmptySet
<1>7. \A n \in nodes(w) : t.ref[n] = Cardinality({h \in H : IsPrefix(n, at[h])})
  BY <1>1, <1>3 DEF CountsHandles
<1>8. CountsHandles(t, H, at)
  BY <1>1, <1>3, <1>4, <1>6, <1>7 DEF CountsHandles
<1> QED
  BY <1>8 DEF t

\* insert_prefix adds the tokens of the new leaf to the evictable ones.
LEMMA InsertKeepsSizes ==
  ASSUME NEW S, NEW tr, TreeInv(tr, S), NEW p \in Seq(S), NEW slots, NEW tic,
         SizesAgree(tr)
  PROVE  SizesAgree(insert_prefix(tr, p, slots, tic))
<1> DEFINE w == tree_walk(tr, p, tic)
           t == insert_prefix(tr, p, slots, tic)
           k == matched_pages(tr, p)
           New == missing(tr, p, S)
           D == DOMAIN tr.value
           Uw == edges(w, {n \in nodes(w) : w.ref[n] = 0})
           Lw == edges(w, {n \in nodes(w) : w.ref[n] > 0})
           Ut == edges(t, {n \in nodes(t) : t.ref[n] = 0})
           Lt == edges(t, {n \in nodes(t) : t.ref[n] > 0})
<1>1. /\ DOMAIN t.value = D \union New
      /\ D \cap New = {}
      /\ nodes(t) = nodes(w) \union new_leaf(tr, p)
      /\ \A n \in nodes(w) : n \notin new_leaf(tr, p) /\ t.ref[n] = w.ref[n]
      /\ \A n \in new_leaf(tr, p) : t.ref[n] = 0
      /\ t.evictable = tr.evictable + PageSize * (Len(p) - k)
      /\ t.protected = tr.protected
  BY InsertFacts
<1>2. /\ TreeInv(w, S) /\ w.value = tr.value /\ SizesAgree(w)
      /\ w.evictable = tr.evictable /\ w.protected = tr.protected
  BY WalkKeepsShape, WalkKeepsSizes, WalkFacts
<1>3. TreeInv(t, S)
  BY InsertKeepsShape
<1>4. /\ Uw \subseteq D /\ Lw \subseteq D
      /\ Ut \subseteq D \union New /\ Lt \subseteq D \union New
      /\ IsFiniteSet(Uw)
  BY <1>1, <1>2, <1>3, OnEdges
<1>5. ASSUME NEW x \in D
      PROVE  (x \in Ut <=> x \in Uw) /\ (x \in Lt <=> x \in Lw)
  <2>1. PICK m \in nodes(w) : Ends(w, x, m)
    BY <1>2 DEF TreeInv
  <2>2. m \in nodes(t) /\ Ends(t, x, m)
    BY <2>1, InsertEnds
  <2>3. /\ x \in Uw <=> m \in {n \in nodes(w) : w.ref[n] = 0}
        /\ x \in Lw <=> m \in {n \in nodes(w) : w.ref[n] > 0}
    BY <1>2, <2>1, OnEdges
  <2>4. /\ x \in Ut <=> m \in {n \in nodes(t) : t.ref[n] = 0}
        /\ x \in Lt <=> m \in {n \in nodes(t) : t.ref[n] > 0}
    BY <1>1, <1>3, <2>2, OnEdges
  <2> HIDE DEF w, t, Uw, Lw, Ut, Lt
  <2> QED
    BY <1>1, <2>1, <2>2, <2>3, <2>4
<1>6. ASSUME NEW x \in New PROVE x \in Ut /\ x \notin Lt
  <2>1. p \in nodes(t) /\ p \notin nodes(w) /\ Ends(t, x, p)
    BY InsertEnds
  <2>2. /\ x \in Ut <=> p \in {n \in nodes(t) : t.ref[n] = 0}
        /\ x \in Lt <=> p \in {n \in nodes(t) : t.ref[n] > 0}
    BY <1>1, <1>3, <2>1, OnEdges
  <2> HIDE DEF w, t, Uw, Lw, Ut, Lt
  <2>3. t.ref[p] = 0
    BY <1>1, <2>1
  <2> QED
    BY <2>1, <2>2, <2>3
<1>7. IsFiniteSet(New) /\ Cardinality(New) = Len(p) - k
  BY MissingPages
<1>8. /\ w.evictable = PageSize * Cardinality(Uw)
      /\ w.protected = PageSize * Cardinality(Lw)
  BY <1>2 DEF SizesAgree, tokens
<1>9. k \in 0 .. Len(p) /\ Len(p) \in Nat
  BY MatchedPath, LenProperties
<1> HIDE DEF w, t, k, New, D, Uw, Lw, Ut, Lt
<1>10. Ut = Uw \union New /\ Lt = Lw /\ Uw \cap New = {}
  BY <1>1, <1>4, <1>5, <1>6
<1>11. Cardinality(Ut) = Cardinality(Uw) + (Len(p) - k)
  <2>1. Cardinality(Uw \union New)
          = Cardinality(Uw) + Cardinality(New) - Cardinality(Uw \cap New)
    BY <1>4, <1>7, FS_Union
  <2>2. Cardinality(Uw \cap New) = 0
    BY <1>10, FS_EmptySet
  <2>3. Cardinality(Uw) \in Nat
    BY <1>4, FS_CardinalityType
  <2> QED
    BY <1>7, <1>9, <1>10, <2>1, <2>2, <2>3
<1>12. PageSize * Cardinality(Ut) = PageSize * Cardinality(Uw) + PageSize * (Len(p) - k)
  <2>1. \A a, b \in Nat : PageSize * (a + b) = PageSize * a + PageSize * b
    BY PageAssumption
  <2>2. Cardinality(Uw) \in Nat /\ Len(p) - k \in Nat
    BY <1>4, <1>9, FS_CardinalityType
  <2> QED
    BY <1>11, <2>1, <2>2
<1>13. /\ t.evictable = PageSize * Cardinality(Ut)
       /\ t.protected = PageSize * Cardinality(Lt)
  BY <1>1, <1>2, <1>8, <1>10, <1>12
<1> QED
  BY <1>13 DEF SizesAgree, tokens, t, Ut, Lt

-----------------------------------------------------------------------------
(***************************************************************************)
(* One pop of evict().                                                     *)
(***************************************************************************)
\* The tree without the nodes C and the pages on their edges: one leaf when evict()
\* pops it, a leaf and the tombstones above it when the hybrid cache unlinks them.
pruned(tr, C) ==
  [tr EXCEPT
     !.value = [q \in DOMAIN tr.value \ edges(tr, C) |-> tr.value[q]],
     !.ref = [m \in nodes(tr) \ C |-> tr.ref[m]],
     !.stamp = [m \in nodes(tr) \ C |-> tr.stamp[m]],
     !.evictable = @ - tokens(tr, C)]

\* With a node goes everything below it.
Downward(tr, C) ==
  /\ C \subseteq nodes(tr)
  /\ \A m \in C, k \in nodes(tr) : IsPrefix(m, k) => k \in C

\* The fields of the pruned tree.
LEMMA PruneFields ==
  ASSUME NEW tr, NEW C,
         DOMAIN tr = {"value", "ref", "stamp", "evictable", "protected"}
  PROVE  LET d == pruned(tr, C)
         IN  /\ DOMAIN d = {"value", "ref", "stamp", "evictable", "protected"}
             /\ DOMAIN d.value = DOMAIN tr.value \ edges(tr, C)
             /\ \A x \in DOMAIN d.value : d.value[x] = tr.value[x]
             /\ nodes(d) = nodes(tr) \ C
             /\ DOMAIN d.stamp = nodes(d)
             /\ \A m \in nodes(d) : d.ref[m] = tr.ref[m] /\ d.stamp[m] = tr.stamp[m]
             /\ d.evictable = tr.evictable - tokens(tr, C)
             /\ d.protected = tr.protected
<1> DEFINE d == pruned(tr, C)
<1>1. /\ DOMAIN d = DOMAIN tr
      /\ d.value = [q \in DOMAIN tr.value \ edges(tr, C) |-> tr.value[q]]
      /\ d.ref = [m \in nodes(tr) \ C |-> tr.ref[m]]
      /\ d.stamp = [m \in nodes(tr) \ C |-> tr.stamp[m]]
      /\ d.evictable = tr.evictable - tokens(tr, C)
      /\ d.protected = tr.protected
  BY DEF pruned
<1> HIDE DEF d
<1>2. nodes(d) = nodes(tr) \ C /\ DOMAIN d.stamp = nodes(d)
  BY <1>1 DEF nodes
<1>3. DOMAIN d.value = DOMAIN tr.value \ edges(tr, C)
  BY <1>1
<1>4. /\ \A x \in DOMAIN d.value : d.value[x] = tr.value[x]
      /\ \A m \in nodes(d) : d.ref[m] = tr.ref[m] /\ d.stamp[m] = tr.stamp[m]
  BY <1>1, <1>2
<1> QED
  BY <1>1, <1>2, <1>3, <1>4 DEF d

\* The pages that stay keep their edges.
LEMMA PruneEnds ==
  ASSUME NEW S, NEW tr, TreeInv(tr, S), NEW C \in SUBSET nodes(tr),
         NEW x \in DOMAIN tr.value, NEW m \in nodes(tr), Ends(tr, x, m), m \notin C
  PROVE  /\ x \in DOMAIN pruned(tr, C).value
         /\ m \in nodes(pruned(tr, C))
         /\ Ends(pruned(tr, C), x, m)
<1> DEFINE d == pruned(tr, C)
<1>1. /\ DOMAIN d.value = DOMAIN tr.value \ edges(tr, C)
      /\ nodes(d) = nodes(tr) \ C
  BY PruneFields DEF TreeInv
<1>2. x \notin edges(tr, C)
  BY OnEdges
<1> HIDE DEF d
<1>3. Ends(d, x, m)
  BY <1>1 DEF Ends
<1> QED
  BY <1>1, <1>2, <1>3 DEF d

\* Pruning keeps the shape of the tree.
LEMMA PruneKeepsShape ==
  ASSUME NEW S, NEW tr, TreeInv(tr, S), NEW C, Downward(tr, C)
  PROVE  TreeInv(pruned(tr, C), S)
<1> DEFINE d == pruned(tr, C)
<1>1. /\ DOMAIN d = {"value", "ref", "stamp", "evictable", "protected"}
      /\ DOMAIN d.value = DOMAIN tr.value \ edges(tr, C)
      /\ nodes(d) = nodes(tr) \ C
      /\ DOMAIN d.stamp = nodes(d)
  BY PruneFields DEF TreeInv
<1>2. /\ IsFiniteSet(DOMAIN tr.value)
      /\ DOMAIN tr.value \subseteq Seq(S) \ {Root}
      /\ nodes(tr) \subseteq DOMAIN tr.value
      /\ nodes(tr) \subseteq Seq(S)
  BY DEF TreeInv
<1>3. C \in SUBSET nodes(tr)
  BY DEF Downward
<1>4. IsFiniteSet(DOMAIN d.value)
  BY <1>1, <1>2, FS_Subset
<1>5. ASSUME NEW x \in DOMAIN d.value
      PROVE  \E m \in nodes(tr) : m \notin C /\ Ends(tr, x, m)
  <2>1. x \in DOMAIN tr.value /\ x \notin edges(tr, C)
    BY <1>1
  <2>2. PICK m \in nodes(tr) : Ends(tr, x, m)
    BY <2>1 DEF TreeInv
  <2>3. m \notin C
    BY <1>3, <2>1, <2>2, OnEdges
  <2> QED
    BY <2>2, <2>3
<1>6. ASSUME NEW x \in DOMAIN d.value PROVE \E m \in nodes(d) : Ends(d, x, m)
  <2>1. x \in DOMAIN tr.value
    BY <1>1
  <2>2. PICK m \in nodes(tr) : m \notin C /\ Ends(tr, x, m)
    BY <1>5
  <2> QED
    BY <1>3, <2>1, <2>2, PruneEnds
<1>7. ASSUME NEW m \in nodes(d) PROVE m \in DOMAIN d.value
  <2>1. m \in nodes(tr) /\ m \notin C
    BY <1>1
  <2>2. Ends(tr, m, m)
    BY <1>2, <2>1, EndsUnique
  <2> QED
    BY <1>2, <1>3, <2>1, <2>2, PruneEnds
<1>8. ASSUME NEW y \in DOMAIN d.value, NEW x \in Seq(S) \ {Root}, IsPrefix(x, y)
      PROVE  x \in DOMAIN d.value
  <2>1. y \in DOMAIN tr.value
    BY <1>1
  <2>2. x \in DOMAIN tr.value
    BY <2>1, <1>8 DEF TreeInv
  <2>3. PICK m \in nodes(tr) : m \notin C /\ Ends(tr, y, m)
    BY <1>5
  <2>4. PICK n \in nodes(tr) : Ends(tr, x, n)
    BY <2>2 DEF TreeInv
  <2>5. IsPrefix(x, m)
    BY <1>2, <1>8, <2>1, <2>3, PrefixOrder DEF Ends
  <2>6. IsPrefix(n, m)
    BY <2>3, <2>4, <2>5 DEF Ends
  <2>7. n \notin C
    BY <2>3, <2>6 DEF Downward
  <2> QED
    BY <1>3, <2>2, <2>4, <2>7, PruneEnds
<1> HIDE DEF d
<1>9. DOMAIN d.value \subseteq Seq(S) \ {Root} /\ nodes(d) \subseteq DOMAIN d.value
  BY <1>1, <1>2, <1>7
<1>10. TreeInv(d, S)
  BY <1>1, <1>4, <1>6, <1>8, <1>9 DEF TreeInv
<1> QED
  BY <1>10 DEF d

\* Nodes without ref count are nobody's handle.
LEMMA PruneKeepsCounts ==
  ASSUME NEW S, NEW tr, TreeInv(tr, S), NEW C \in SUBSET nodes(tr),
         \A n \in C : tr.ref[n] = 0, NEW H, NEW at, CountsHandles(tr, H, at)
  PROVE  CountsHandles(pruned(tr, C), H, at)
<1> DEFINE d == pruned(tr, C)
<1>1. /\ nodes(d) = nodes(tr) \ C
      /\ \A m \in nodes(d) : d.ref[m] = tr.ref[m]
  BY PruneFields DEF TreeInv
<1>2. \A n \in C, h \in H : ~ IsPrefix(n, at[h])
  BY CountsMeaning
<1>3. \A n \in nodes(tr) : IsPrefix(n, n)
  BY NodesArePaths, PrefixOrder
<1> HIDE DEF d
<1>4. \A h \in H : at[h] \in nodes(d) \union {Root}
  BY <1>1, <1>2, <1>3 DEF CountsHandles
<1>5. CountsHandles(d, H, at)
  BY <1>1, <1>4 DEF CountsHandles
<1> QED
  BY <1>5 DEF d

\* Pruning takes the tokens of its nodes off the evictable ones.
LEMMA PruneKeepsSizes ==
  ASSUME NEW S, NEW tr, TreeInv(tr, S), NEW C, Downward(tr, C),
         \A n \in C : tr.ref[n] = 0, SizesAgree(tr)
  PROVE  /\ SizesAgree(pruned(tr, C))
         /\ tokens(tr, C) \in Nat
         /\ tokens(tr, C) <= tr.evictable
<1> DEFINE d == pruned(tr, C)
           U == {m \in nodes(tr) : tr.ref[m] = 0}
           L == {m \in nodes(tr) : tr.ref[m] > 0}
           U2 == {m \in nodes(d) : d.ref[m] = 0}
           L2 == {m \in nodes(d) : d.ref[m] > 0}
<1>1. /\ DOMAIN d.value = DOMAIN tr.value \ edges(tr, C)
      /\ nodes(d) = nodes(tr) \ C
      /\ \A m \in nodes(d) : d.ref[m] = tr.ref[m]
      /\ d.evictable = tr.evictable - tokens(tr, C)
      /\ d.protected = tr.protected
  BY PruneFields DEF TreeInv
<1>2. TreeInv(d, S)
  BY PruneKeepsShape
<1>3. C \in SUBSET nodes(tr)
  BY DEF Downward
<1>4. ASSUME NEW ns \in SUBSET nodes(d) PROVE edges(d, ns) = edges(tr, ns)
  <2>1. ns \in SUBSET nodes(tr)
    BY <1>1
  <2>2. edges(d, ns) \subseteq DOMAIN d.value /\ edges(tr, ns) \subseteq DOMAIN tr.value
    BY <1>2, <2>1, OnEdges
  <2>3. ASSUME NEW x \in DOMAIN tr.value
        PROVE  x \in edges(d, ns) <=> x \in edges(tr, ns)
    <3>1. PICK m \in nodes(tr) : Ends(tr, x, m)
      BY DEF TreeInv
    <3>2. x \in edges(tr, ns) <=> m \in ns
      BY <2>1, <3>1, OnEdges
    <3>3. CASE m \in C
      <4>1. x \in edges(tr, C)
        BY <1>3, <3>1, <3>3, OnEdges
      <4>2. x \notin DOMAIN d.value
        BY <1>1, <4>1
      <4> QED
        BY <1>1, <2>2, <3>2, <3>3, <4>2
    <3>4. CASE m \notin C
      <4>1. x \in DOMAIN d.value /\ m \in nodes(d) /\ Ends(d, x, m)
        BY <1>3, <3>1, <3>4, PruneEnds
      <4>2. x \in edges(d, ns) <=> m \in ns
        BY <1>2, <4>1, OnEdges
      <4> QED
        BY <3>2, <4>2
    <3> QED
      BY <3>3, <3>4
  <2> QED
    BY <1>1, <2>2, <2>3
<1>5. tr.evictable = tokens(tr, U) /\ tr.protected = tokens(tr, L)
  BY DEF SizesAgree
<1> HIDE DEF d
<1>6. U2 = U \ C /\ L2 = L /\ C \in SUBSET U /\ U \in SUBSET nodes(tr)
  BY <1>1, <1>3
<1>7. U2 \in SUBSET nodes(d) /\ L2 \in SUBSET nodes(d)
  OBVIOUS
<1> HIDE DEF U, L, U2, L2
<1>8. /\ tokens(tr, U) \in Nat /\ tokens(tr, C) \in Nat
      /\ tokens(tr, U2) = tokens(tr, U) - tokens(tr, C)
  BY <1>6, TokensSplit
<1>9. tokens(d, U2) = tokens(tr, U2) /\ tokens(d, L2) = tokens(tr, L2)
  BY <1>4, <1>7 DEF tokens
<1>10. d.evictable = tokens(d, U2) /\ d.protected = tokens(d, L2)
  BY <1>1, <1>5, <1>6, <1>8, <1>9
<1>11. SizesAgree(d)
  BY <1>10 DEF SizesAgree, U2, L2
<1>12. tokens(tr, U2) \in Nat
  BY <1>6, TokensSplit
<1> QED
  BY <1>5, <1>8, <1>11, <1>12 DEF d

\* Nodes without ref count take no page of a handle's path with them.
LEMMA PruneKeepsHandles ==
  ASSUME NEW S, NEW tr, TreeInv(tr, S), NEW C \in SUBSET nodes(tr),
         \A n \in C : tr.ref[n] = 0,
         NEW H, NEW at, CountsHandles(tr, H, at), NEW h \in H,
         NEW x \in Seq(S) \ {Root}, IsPrefix(x, at[h])
  PROVE  /\ x \in DOMAIN tr.value
         /\ x \in DOMAIN pruned(tr, C).value
         /\ pruned(tr, C).value[x] = tr.value[x]
<1> DEFINE d == pruned(tr, C)
<1>1. /\ DOMAIN d.value = DOMAIN tr.value \ edges(tr, C)
      /\ \A y \in DOMAIN d.value : d.value[y] = tr.value[y]
  BY PruneFields DEF TreeInv
<1>2. at[h] \in nodes(tr)
  BY RootPrefix DEF CountsHandles
<1>3. x \in DOMAIN tr.value
  BY <1>2 DEF TreeInv
<1>4. PICK m \in nodes(tr) : Ends(tr, x, m)
  BY <1>3 DEF TreeInv
<1>5. IsPrefix(m, at[h])
  BY <1>2, <1>4 DEF Ends
<1>6. m \notin C
  BY <1>5, CountsMeaning
<1>7. x \notin edges(tr, C)
  BY <1>3, <1>4, <1>6, OnEdges
<1> HIDE DEF d
<1> QED
  BY <1>1, <1>3, <1>7 DEF d

\* One pop of evict() prunes a leaf.
LEMMA DropIsPruned ==
  ASSUME NEW tr, NEW n
  PROVE  /\ drop_leaf(tr, n) = pruned(tr, {n})
         /\ edge(tr, n) = edges(tr, {n})
         /\ node_length(tr, n) = tokens(tr, {n})
         /\ n \in nodes(tr) /\ is_leaf(tr, n) => Downward(tr, {n})
<1>1. edge(tr, n) = edges(tr, {n}) /\ node_length(tr, n) = tokens(tr, {n})
  BY DEF node_length, tokens, edges
<1>2. drop_leaf(tr, n) = pruned(tr, {n})
  BY <1>1 DEF drop_leaf, pruned
<1>3. n \in nodes(tr) /\ is_leaf(tr, n) => Downward(tr, {n})
  BY DEF Downward, is_leaf, IsStrictPrefix
<1> QED
  BY <1>1, <1>2, <1>3

\* The fields of drop_leaf.
LEMMA DropFields ==
  ASSUME NEW tr, NEW n,
         DOMAIN tr = {"value", "ref", "stamp", "evictable", "protected"}
  PROVE  LET d == drop_leaf(tr, n)
         IN  /\ DOMAIN d = {"value", "ref", "stamp", "evictable", "protected"}
             /\ DOMAIN d.value = DOMAIN tr.value \ edge(tr, n)
             /\ \A x \in DOMAIN d.value : d.value[x] = tr.value[x]
             /\ nodes(d) = nodes(tr) \ {n}
             /\ DOMAIN d.stamp = nodes(d)
             /\ \A m \in nodes(d) : d.ref[m] = tr.ref[m] /\ d.stamp[m] = tr.stamp[m]
             /\ d.evictable = tr.evictable - node_length(tr, n)
             /\ d.protected = tr.protected
<1>1. /\ drop_leaf(tr, n) = pruned(tr, {n})
      /\ edge(tr, n) = edges(tr, {n}) /\ node_length(tr, n) = tokens(tr, {n})
  BY DropIsPruned
<1> DEFINE d == pruned(tr, {n})
<1>2. /\ DOMAIN d = {"value", "ref", "stamp", "evictable", "protected"}
      /\ DOMAIN d.value = DOMAIN tr.value \ edges(tr, {n})
      /\ \A x \in DOMAIN d.value : d.value[x] = tr.value[x]
      /\ nodes(d) = nodes(tr) \ {n}
      /\ DOMAIN d.stamp = nodes(d)
      /\ \A m \in nodes(d) : d.ref[m] = tr.ref[m] /\ d.stamp[m] = tr.stamp[m]
      /\ d.evictable = tr.evictable - tokens(tr, {n})
      /\ d.protected = tr.protected
  BY PruneFields
<1> HIDE DEF d
<1>3. drop_leaf(tr, n) = d
  BY <1>1 DEF d
<1> QED
  BY <1>1, <1>2, <1>3

\* The pages that stay keep their edges.
LEMMA DropEnds ==
  ASSUME NEW S, NEW tr, TreeInv(tr, S), NEW n \in nodes(tr),
         NEW x \in DOMAIN tr.value, NEW m \in nodes(tr), Ends(tr, x, m), m # n
  PROVE  /\ x \in DOMAIN drop_leaf(tr, n).value
         /\ m \in nodes(drop_leaf(tr, n))
         /\ Ends(drop_leaf(tr, n), x, m)
<1>1. {n} \in SUBSET nodes(tr) /\ m \notin {n}
  OBVIOUS
<1>2. /\ x \in DOMAIN pruned(tr, {n}).value
      /\ m \in nodes(pruned(tr, {n}))
      /\ Ends(pruned(tr, {n}), x, m)
  BY <1>1, PruneEnds
<1>3. drop_leaf(tr, n) = pruned(tr, {n})
  BY DropIsPruned
<1> QED
  BY <1>2, <1>3

\* drop_leaf keeps the shape of the tree.
LEMMA DropKeepsShape ==
  ASSUME NEW S, NEW tr, TreeInv(tr, S), NEW n \in nodes(tr), is_leaf(tr, n)
  PROVE  TreeInv(drop_leaf(tr, n), S)
<1>1. Downward(tr, {n})
  BY DropIsPruned
<1>2. TreeInv(pruned(tr, {n}), S)
  BY <1>1, PruneKeepsShape
<1>3. drop_leaf(tr, n) = pruned(tr, {n})
  BY DropIsPruned
<1> QED
  BY <1>2, <1>3

\* A node without ref count is nobody's handle.
LEMMA DropKeepsCounts ==
  ASSUME NEW S, NEW tr, TreeInv(tr, S), NEW n \in nodes(tr), tr.ref[n] = 0,
         NEW H, NEW at, CountsHandles(tr, H, at)
  PROVE  CountsHandles(drop_leaf(tr, n), H, at)
<1>1. {n} \in SUBSET nodes(tr) /\ \A m \in {n} : tr.ref[m] = 0
  OBVIOUS
<1>2. CountsHandles(pruned(tr, {n}), H, at)
  BY <1>1, PruneKeepsCounts
<1> QED
  BY <1>2, DropIsPruned

\* drop_leaf takes the tokens of the leaf off the evictable ones.
LEMMA DropKeepsSizes ==
  ASSUME NEW S, NEW tr, TreeInv(tr, S), NEW n \in nodes(tr), is_leaf(tr, n),
         tr.ref[n] = 0, SizesAgree(tr)
  PROVE  /\ SizesAgree(drop_leaf(tr, n))
         /\ node_length(tr, n) \in Nat
         /\ node_length(tr, n) <= tr.evictable
<1>1. \A m \in {n} : tr.ref[m] = 0
  OBVIOUS
<1>2. Downward(tr, {n})
  BY DropIsPruned
<1>3. /\ SizesAgree(pruned(tr, {n}))
      /\ tokens(tr, {n}) \in Nat
      /\ tokens(tr, {n}) <= tr.evictable
  BY <1>1, <1>2, PruneKeepsSizes
<1> QED
  BY <1>3, DropIsPruned

\* A leaf without ref count takes no page of a handle's path with it.
LEMMA DropKeepsHandles ==
  ASSUME NEW S, NEW tr, TreeInv(tr, S), NEW n \in nodes(tr), tr.ref[n] = 0,
         NEW H, NEW at, CountsHandles(tr, H, at), NEW h \in H,
         NEW x \in Seq(S) \ {Root}, IsPrefix(x, at[h])
  PROVE  /\ x \in DOMAIN tr.value
         /\ x \in DOMAIN drop_leaf(tr, n).value
         /\ drop_leaf(tr, n).value[x] = tr.value[x]
<1>1. {n} \in SUBSET nodes(tr) /\ \A m \in {n} : tr.ref[m] = 0
  OBVIOUS
<1>2. ASSUME NEW C \in SUBSET nodes(tr), \A m \in C : tr.ref[m] = 0
      PROVE  /\ x \in DOMAIN tr.value
             /\ x \in DOMAIN pruned(tr, C).value
             /\ pruned(tr, C).value[x] = tr.value[x]
  BY <1>2, PruneKeepsHandles
<1>3. drop_leaf(tr, n) = pruned(tr, {n})
  BY DropIsPruned
<1> QED
  BY <1>1, <1>2, <1>3

\* While anything is evictable, evict() finds a leaf it may take.
LEMMA LeafToEvict ==
  ASSUME NEW S, NEW tr, TreeInv(tr, S), NEW H, NEW at, CountsHandles(tr, H, at),
         SizesAgree(tr), tr.evictable > 0
  PROVE  evict_candidates(tr) # {}
<1> DEFINE U == {n \in nodes(tr) : tr.ref[n] = 0}
           below(n) == {k \in nodes(tr) : IsPrefix(n, k)}
<1>1. nodes(tr) \subseteq Seq(S) /\ IsFiniteSet(nodes(tr))
  BY NodesArePaths
<1>2. PICK m \in nodes(tr) : tr.ref[m] = 0
  <2>1. tr.evictable = PageSize * Cardinality(edges(tr, U))
    BY DEF SizesAgree, tokens
  <2>2. edges(tr, U) # {}
    <3> SUFFICES ASSUME edges(tr, U) = {} PROVE FALSE
      OBVIOUS
    <3>1. Cardinality(edges(tr, U)) = 0
      BY FS_EmptySet
    <3>2. PageSize * 0 = 0
      BY PageAssumption
    <3> QED
      BY <2>1, <3>1, <3>2
  <2> QED
    BY <2>2 DEF edges
<1> DEFINE sizes == {Cardinality(below(n)) : n \in below(m)}
<1>3. \A n \in nodes(tr) : IsFiniteSet(below(n)) /\ Cardinality(below(n)) \in Nat
  <2> TAKE n \in nodes(tr)
  <2>1. IsFiniteSet(below(n))
    BY <1>1, FS_Subset
  <2> HIDE DEF below
  <2> QED
    BY <2>1, FS_CardinalityType
<1>4. PICK n \in below(m) :
        \A k \in below(m) : Cardinality(below(n)) <= Cardinality(below(k))
  <2>1. m \in below(m)
    BY <1>1, PrefixOrder
  <2>2. sizes \in SUBSET Nat /\ sizes # {}
    BY <1>3, <2>1
  <2>3. PICK x \in sizes : \A y \in sizes : x <= y
    <3> HIDE DEF sizes
    <3> QED
      BY <2>2, NatWellOrdered
  <2> QED
    BY <2>3
<1>5. n \in nodes(tr) /\ IsPrefix(m, n)
  OBVIOUS
<1>6. ASSUME NEW k \in nodes(tr), IsStrictPrefix(n, k) PROVE FALSE
  <2>1. IsPrefix(n, k) /\ n # k
    BY <1>6 DEF IsStrictPrefix
  <2>2. k \in below(m)
    BY <1>1, <1>5, <2>1, PrefixOrder
  <2>3. below(k) \subseteq below(n)
    BY <1>1, <1>5, <2>1, PrefixOrder
  <2>4. n \in below(n) /\ n \notin below(k)
    BY <1>1, <1>5, <2>1, PrefixOrder
  <2>5. Cardinality(below(n)) <= Cardinality(below(k))
    BY <1>4, <2>2
  <2>6. IsFiniteSet(below(n)) /\ Cardinality(below(n)) \in Nat /\ Cardinality(below(k)) \in Nat
    BY <1>3, <1>5
  <2> HIDE DEF below
  <2>7. Cardinality(below(k)) <= Cardinality(below(n))
    BY <2>3, <2>6, FS_Subset
  <2>8. Cardinality(below(n)) = Cardinality(below(k))
    BY <2>5, <2>6, <2>7
  <2>9. below(n) = below(k)
    BY <2>3, <2>6, <2>8, FS_Subset
  <2> QED
    BY <2>4, <2>9
<1>7. tr.ref[n] = 0
  <2>1. \A h \in H : ~ IsPrefix(m, at[h])
    BY <1>2, CountsMeaning
  <2>2. ASSUME NEW h \in H, IsPrefix(n, at[h]) PROVE FALSE
    <3>1. at[h] \in Seq(S)
      BY <1>1, RootPrefix DEF CountsHandles
    <3>2. IsPrefix(m, at[h])
      BY <1>1, <1>5, <2>2, <3>1, PrefixOrder
    <3> QED
      BY <2>1, <3>2
  <2> QED
    BY <1>5, <2>2, CountsMeaning
<1>8. n \in evict_candidates(tr)
  BY <1>5, <1>6, <1>7 DEF evict_candidates, is_leaf
<1> QED
  BY <1>8

\* The shape is what WellFormed checks.
LEMMA ShapeIsWellFormed ==
  ASSUME NEW S, NEW tr, TreeInv(tr, S)
  PROVE  WellFormed(tr)
<1>1. DOMAIN tr.value \subseteq Seq(S) \ {Root} /\ nodes(tr) \subseteq DOMAIN tr.value
  BY NodesArePaths
<1>2. ASSUME NEW q \in DOMAIN tr.value, Len(q) > 1
      PROVE  Front(q) \in DOMAIN tr.value
  <2>1. q \in Seq(S) /\ Len(q) \in Nat /\ Len(q) - 1 \in 0 .. Len(q)
    BY <1>1, <1>2, LenProperties
  <2>2. /\ Front(q) \in Seq(S) /\ Len(Front(q)) = Len(q) - 1
        /\ IsPrefix(Front(q), q)
    BY <2>1, PrefixCut DEF Front
  <2>3. Front(q) # Root
    BY <1>2, <2>1, <2>2, RootPrefix
  <2> QED
    BY <2>2, <2>3 DEF TreeInv
<1>3. ASSUME NEW q \in DOMAIN tr.value, q \notin nodes(tr)
      PROVE  Cardinality({y \in DOMAIN tr.value : Len(y) = Len(q) + 1 /\ IsPrefix(q, y)}) = 1
  <2> DEFINE next == {y \in DOMAIN tr.value : Len(y) = Len(q) + 1 /\ IsPrefix(q, y)}
  <2>1. PICK m \in nodes(tr) : Ends(tr, q, m)
    BY DEF TreeInv
  <2>2. IsPrefix(q, m) /\ q # m /\ m \in Seq(S) /\ q \in Seq(S)
    BY <1>1, <1>3, <2>1 DEF Ends
  <2>3. Len(q) \in Nat /\ Len(m) \in Nat /\ Len(q) <= Len(m) /\ Len(q) # Len(m)
    BY <2>2, PrefixOrder, LenProperties
  <2> DEFINE y0 == SubSeq(m, 1, Len(q) + 1)
  <2>4. Len(q) + 1 \in 0 .. Len(m)
    BY <2>3
  <2>5. y0 \in Seq(S) /\ Len(y0) = Len(q) + 1 /\ IsPrefix(y0, m)
    BY <2>2, <2>4, PrefixCut
  <2> HIDE DEF y0
  <2>6. y0 # Root
    BY <2>3, <2>5, RootPrefix
  <2>7. y0 \in DOMAIN tr.value
    BY <1>1, <2>5, <2>6 DEF TreeInv
  <2>8. IsPrefix(q, y0)
    BY <2>2, <2>3, <2>5, PrefixOrder
  <2>9. ASSUME NEW y \in next PROVE y = y0
    <3>1. y \in DOMAIN tr.value /\ y \in Seq(S) /\ Len(y) = Len(q) + 1 /\ IsPrefix(q, y)
      BY <1>1
    <3>2. PICK k \in nodes(tr) : Ends(tr, y, k)
      BY <3>1 DEF TreeInv
    <3>3. IsPrefix(y, k) /\ k \in Seq(S)
      BY <1>1, <3>2 DEF Ends
    <3>4. IsPrefix(q, k)
      BY <2>2, <3>1, <3>3, PrefixOrder
    <3>5. IsPrefix(m, k)
      BY <2>1, <3>4 DEF Ends
    <3>6. IsPrefix(y0, k)
      BY <2>2, <2>5, <3>3, <3>5, PrefixOrder
    <3>7. IsPrefix(y, y0)
      BY <2>3, <2>5, <3>1, <3>3, <3>6, PrefixOrder
    <3> QED
      BY <2>5, <3>1, <3>7, PrefixOrder
  <2>10. next = {y0}
    BY <2>5, <2>7, <2>8, <2>9
  <2> HIDE DEF next
  <2>11. Cardinality(next) = 1
    BY <2>10, FS_Singleton
  <2> QED
    BY <2>11 DEF next
<1> QED
  BY <1>1, <1>2, <1>3 DEF WellFormed

\* The empty tree.
LEMMA EmptyTreeIsSound ==
  ASSUME NEW S
  PROVE  /\ TreeInv(EmptyTree, S)
         /\ SizesAgree(EmptyTree)
         /\ \A at : CountsHandles(EmptyTree, {}, at)
         /\ nodes(EmptyTree) = {} /\ DOMAIN EmptyTree.value = {}
<1>1. DOMAIN <<>> = {}
  OBVIOUS
<1>2. /\ EmptyTree.value = <<>> /\ EmptyTree.ref = <<>> /\ EmptyTree.stamp = <<>>
      /\ EmptyTree.evictable = 0 /\ EmptyTree.protected = 0
      /\ DOMAIN EmptyTree = {"value", "ref", "stamp", "evictable", "protected"}
  BY DEF EmptyTree
<1> HIDE DEF EmptyTree
<1>3. DOMAIN EmptyTree.value = {} /\ nodes(EmptyTree) = {} /\ DOMAIN EmptyTree.stamp = {}
  BY <1>1, <1>2 DEF nodes
<1>4. TreeInv(EmptyTree, S)
  BY <1>2, <1>3, FS_EmptySet DEF TreeInv
<1>5. \A ns \in SUBSET {} : tokens(EmptyTree, ns) = 0
  <2> SUFFICES tokens(EmptyTree, {}) = 0
    OBVIOUS
  <2>1. edges(EmptyTree, {}) = {}
    BY DEF edges
  <2>2. PageSize * 0 = 0
    BY PageAssumption
  <2> QED
    BY <2>1, <2>2, FS_EmptySet DEF tokens
<1>6. SizesAgree(EmptyTree)
  BY <1>2, <1>3, <1>5 DEF SizesAgree
<1>7. \A at : CountsHandles(EmptyTree, {}, at)
  BY <1>3, FS_EmptySet DEF CountsHandles
<1> QED
  BY <1>3, <1>4, <1>6, <1>7

\* The two sizes of a tree are natural numbers.
LEMMA SizesAreNatural ==
  ASSUME NEW S, NEW tr, TreeInv(tr, S), SizesAgree(tr)
  PROVE  tr.evictable \in Nat /\ tr.protected \in Nat
<1> DEFINE U == {n \in nodes(tr) : tr.ref[n] = 0}
           L == {n \in nodes(tr) : tr.ref[n] > 0}
<1>1. tr.evictable = tokens(tr, U) /\ tr.protected = tokens(tr, L)
  BY DEF SizesAgree
<1>2. U \in SUBSET nodes(tr) /\ L \in SUBSET nodes(tr)
  OBVIOUS
<1> HIDE DEF U, L
<1>3. tokens(tr, U) \in Nat /\ tokens(tr, L) \in Nat
  BY <1>2, TokensSplit
<1> QED
  BY <1>1, <1>3

\* The larger and the smaller of two numbers.
LEMMA OfTwo ==
  ASSUME NEW a \in Int, NEW b \in Int
  PROVE  /\ Max({a, b}) = IF a > b THEN a ELSE b
         /\ Min({a, b}) = IF a < b THEN a ELSE b
<1>1. \E x \in {a, b} : \A y \in {a, b} : x >= y
  OBVIOUS
<1>2. Max({a, b}) \in {a, b} /\ \A y \in {a, b} : Max({a, b}) >= y
  BY <1>1 DEF Max
<1>3. \E x \in {a, b} : \A y \in {a, b} : x <= y
  OBVIOUS
<1>4. Min({a, b}) \in {a, b} /\ \A y \in {a, b} : Min({a, b}) <= y
  BY <1>3 DEF Min
<1> QED
  BY <1>2, <1>4
\* A lock adds one handle and a release takes one.
LEMMA HandlesMove ==
  ASSUME NEW P, NEW locks \in [P -> Nat], NEW q \in P
  PROVE  /\ LET l == [locks EXCEPT ![q] = @ + 1]
            IN  /\ handles(l) = handles(locks) \union {<<q, locks[q] + 1>>}
                /\ <<q, locks[q] + 1>> \notin handles(locks)
         /\ locks[q] > 0 =>
              LET l == [locks EXCEPT ![q] = @ - 1]
              IN  /\ handles(l) = handles(locks) \ {<<q, locks[q]>>}
                  /\ <<q, locks[q]>> \in handles(locks)
<1>1. ASSUME NEW l, DOMAIN l = P
      PROVE  \A h : h \in handles(l) <=> \E r \in P : \E k \in 1 .. l[r] : h = <<r, k>>
  BY <1>1 DEF handles
<1>2. \A h : h \in handles(locks) <=> \E r \in P : \E k \in 1 .. locks[r] : h = <<r, k>>
  BY <1>1
<1>3. ASSUME NEW l, l = [locks EXCEPT ![q] = @ + 1]
      PROVE  /\ handles(l) = handles(locks) \union {<<q, locks[q] + 1>>}
             /\ <<q, locks[q] + 1>> \notin handles(locks)
  <2>1. locks[q] \in Nat /\ l[q] = locks[q] + 1 /\ DOMAIN l = P
    BY <1>3
  <2>2. \A r \in P : r # q => l[r] = locks[r]
    BY <1>3
  <2>3. <<q, locks[q] + 1>> \notin handles(locks)
    BY <1>2, <2>1
  <2>4. \A h : h \in handles(l) <=> \E r \in P : \E k \in 1 .. l[r] : h = <<r, k>>
    BY <1>1, <2>1
  <2>5. \A h : h \in handles(l) <=> h \in handles(locks) \/ h = <<q, locks[q] + 1>>
    <3>1. 1 .. l[q] = (1 .. locks[q]) \union {locks[q] + 1}
      BY <2>1
    <3> QED
      BY <1>2, <2>2, <2>4, <3>1
  <2> QED
    BY <2>3, <2>5
<1>4. ASSUME NEW l, l = [locks EXCEPT ![q] = @ - 1], locks[q] > 0
      PROVE  /\ handles(l) = handles(locks) \ {<<q, locks[q]>>}
             /\ <<q, locks[q]>> \in handles(locks)
  <2>1. locks[q] \in Nat /\ l[q] = locks[q] - 1 /\ DOMAIN l = P
    BY <1>4
  <2>2. \A r \in P : r # q => l[r] = locks[r]
    BY <1>4
  <2>3. <<q, locks[q]>> \in handles(locks)
    BY <1>2, <1>4, <2>1
  <2>4. \A h : h \in handles(l) <=> \E r \in P : \E k \in 1 .. l[r] : h = <<r, k>>
    BY <1>1, <2>1
  <2>5. \A h : h \in handles(l) <=> h \in handles(locks) /\ h # <<q, locks[q]>>
    <3>1. 1 .. l[q] = (1 .. locks[q]) \ {locks[q]}
      BY <1>4, <2>1
    <3> QED
      BY <1>2, <2>2, <2>4, <3>1
  <2> QED
    BY <2>3, <2>5
<1> QED
  BY <1>3, <1>4

\* The handles are those of the paths that are locked.
LEMMA HandlesMeaning ==
  ASSUME NEW P, NEW locks \in [P -> Nat]
  PROVE  /\ handles(locks) \subseteq P \X Nat
         /\ \A r \in P : locks[r] > 0 => \E h \in handles(locks) : h[1] = r
         /\ \A h \in handles(locks) : locks[h[1]] > 0
<1>1. \A h : h \in handles(locks) <=> \E r \in P : \E k \in 1 .. locks[r] : h = <<r, k>>
  BY DEF handles
<1>2. \A r \in P : locks[r] > 0 => \E h \in handles(locks) : h[1] = r
  <2> SUFFICES ASSUME NEW r \in P, locks[r] > 0 PROVE \E h \in handles(locks) : h[1] = r
    OBVIOUS
  <2>1. <<r, 1>> \in handles(locks)
    BY <1>1
  <2> QED
    BY <2>1
<1> QED
  BY <1>1, <1>2

=============================================================================
