----------------------------- MODULE EngineKVProofs -----------------------------
(***************************************************************************)
(* The engine's KV bookkeeping, for every set of requests, pool, row width *)
(* and page size: locks are handles, the prefix a request reuses stays     *)
(* pinned, an eviction always finds a leaf; and as long as no add_request  *)
(* fails for want of slots, no slot has two owners and every request reads *)
(* back what was computed for its own tokens.                              *)
(***************************************************************************)
EXTENDS EngineKV, RadixTreeProofs

-----------------------------------------------------------------------------
(***************************************************************************)
(* Positions and pages.                                                    *)
(***************************************************************************)
\* The position of the j-th token of page k.
position(k, j) == (k - 1) * PageSize + j

\* A number and its quotient by the page size.
LEMMA Quotient ==
  ASSUME NEW n \in Nat
  PROVE  /\ n \div PageSize \in Nat /\ n % PageSize \in 0 .. (PageSize - 1)
         /\ n = (PageSize * (n \div PageSize)) + (n % PageSize)
<1>1. PageSize \in Nat \ {0}
  BY PageAssumption
<1>2. /\ n % PageSize \in 0 .. (PageSize - 1)
      /\ n = (PageSize * (n \div PageSize)) + (n % PageSize)
  BY <1>1
<1>3. n \div PageSize \in Nat
  BY <1>1
<1> QED
  BY <1>2, <1>3

\* Multiples of the page size are ordered as their factors.
LEMMA Multiples ==
  ASSUME NEW a \in Int, NEW b \in Int
  PROVE  /\ PageSize * a \in Int
         /\ a <= b <=> PageSize * a <= PageSize * b
         /\ a < b <=> PageSize * a + PageSize <= PageSize * b
         /\ PageSize * (a - 1) = PageSize * a - PageSize
         /\ PageSize * (a + 1) = PageSize * a + PageSize
<1>1. PageSize \in Nat \ {0}
  BY PageAssumption
<1>2. \A x, y \in Int : x <= y => PageSize * x <= PageSize * y
  BY <1>1
<1>3. PageSize * (a - 1) = PageSize * a - PageSize
  BY <1>1
<1>4. PageSize * (a + 1) = PageSize * a + PageSize
  BY <1>1
<1>5. PageSize * (b + 1) = PageSize * b + PageSize
  BY <1>1
<1>6. a <= b => PageSize * a <= PageSize * b
  BY <1>2
<1>7. a > b => PageSize * b + PageSize <= PageSize * a
  <2> SUFFICES ASSUME a > b PROVE PageSize * b + PageSize <= PageSize * a
    OBVIOUS
  <2>1. b + 1 <= a /\ b + 1 \in Int
    OBVIOUS
  <2>2. PageSize * (b + 1) <= PageSize * a
    BY <1>2, <2>1
  <2> QED
    BY <1>5, <2>2
<1>8. a < b => PageSize * a + PageSize <= PageSize * b
  <2> SUFFICES ASSUME a < b PROVE PageSize * a + PageSize <= PageSize * b
    OBVIOUS
  <2>1. a + 1 <= b /\ a + 1 \in Int
    OBVIOUS
  <2>2. PageSize * (a + 1) <= PageSize * b
    BY <1>2, <2>1
  <2> QED
    BY <1>4, <2>2
<1>9. PageSize * a \in Int /\ PageSize * b \in Int
  BY <1>1
<1> QED
  BY <1>1, <1>3, <1>4, <1>6, <1>7, <1>8, <1>9

\* A position is in the page page_of names, at the place offset_of names, and a
\* sequence's whole pages hold the positions up to a multiple of the page size.
LEMMA Paging ==
  /\ \A i \in Nat \ {0} :
       /\ page_of(i) \in Nat \ {0} /\ offset_of(i) \in 1 .. PageSize
       /\ position(page_of(i), offset_of(i)) = i
  /\ \A k \in Nat \ {0}, j \in 1 .. PageSize :
       /\ position(k, j) \in Nat \ {0}
       /\ page_of(position(k, j)) = k /\ offset_of(position(k, j)) = j
  /\ \A k \in Nat \ {0}, j \in 1 .. PageSize, n \in Nat :
       position(k, j) <= PageSize * n <=> k <= n
  /\ \A i \in Nat \ {0}, n \in Nat : i <= PageSize * n <=> page_of(i) <= n
  /\ \A n \in Nat :
       /\ n \div PageSize \in Nat
       /\ align_down(n) = PageSize * (n \div PageSize)
       /\ align_down(n) \in 0 .. n /\ n < align_down(n) + PageSize
<1>1. PageSize \in Nat \ {0}
  BY PageAssumption
<1>2. ASSUME NEW i \in Nat \ {0}
      PROVE  /\ page_of(i) \in Nat \ {0} /\ offset_of(i) \in 1 .. PageSize
             /\ position(page_of(i), offset_of(i)) = i
  <2> DEFINE d == (i - 1) \div PageSize
             m == (i - 1) % PageSize
  <2>1. /\ d \in Nat /\ m \in 0 .. (PageSize - 1)
        /\ i - 1 = PageSize * d + m
    BY Quotient
  <2>2. page_of(i) = d + 1 /\ offset_of(i) = m + 1
    BY DEF page_of, offset_of
  <2> HIDE DEF d, m
  <2>3. ((d + 1) - 1) * PageSize = PageSize * d
    BY <1>1, <2>1
  <2>4. PageSize * d \in Int
    BY <2>1, Multiples
  <2>5. position(d + 1, m + 1) = i
    BY <2>1, <2>3, <2>4 DEF position
  <2> QED
    BY <1>1, <2>1, <2>2, <2>5
<1>3. ASSUME NEW k \in Nat \ {0}, NEW j \in 1 .. PageSize
      PROVE  /\ position(k, j) = PageSize * (k - 1) + j
             /\ position(k, j) \in Nat \ {0}
  <2>1. position(k, j) = PageSize * (k - 1) + j
    BY <1>1 DEF position
  <2>2. PageSize * (k - 1) \in Nat
    BY <1>1
  <2> QED
    BY <2>1, <2>2
<1>4. ASSUME NEW k \in Nat \ {0}, NEW j \in 1 .. PageSize, NEW n \in Nat
      PROVE  position(k, j) <= PageSize * n <=> k <= n
  <2>1. /\ PageSize * (k - 1) = PageSize * k - PageSize
        /\ k <= n <=> PageSize * k <= PageSize * n
        /\ n < k <=> PageSize * n + PageSize <= PageSize * k
        /\ PageSize * k \in Int /\ PageSize * n \in Int
    <3>1. k \in Int /\ n \in Int
      OBVIOUS
    <3> QED
      BY <3>1, Multiples, Zenon
  <2>2. position(k, j) = PageSize * (k - 1) + j
    BY <1>3
  <2> QED
    BY <1>1, <2>1, <2>2
<1>5. ASSUME NEW k \in Nat \ {0}, NEW j \in 1 .. PageSize
      PROVE  page_of(position(k, j)) = k /\ offset_of(position(k, j)) = j
  <2> DEFINE i == position(k, j)
             g == page_of(i)
             o == offset_of(i)
  <2>1. i \in Nat \ {0}
    BY <1>3
  <2>2. g \in Nat \ {0} /\ o \in 1 .. PageSize /\ position(g, o) = i
    BY <1>2, <2>1
  <2>3. \A n \in Nat : g <= n <=> k <= n
    BY <1>4, <2>2
  <2> HIDE DEF g, o
  <2>4. g = k
    BY <2>2, <2>3
  <2>5. PageSize * (k - 1) + o = PageSize * (k - 1) + j /\ PageSize * (k - 1) \in Int
    BY <1>3, <2>2, <2>4, Multiples
  <2> QED
    BY <2>2, <2>4, <2>5 DEF g, o
<1>6. \A i \in Nat \ {0}, n \in Nat : i <= PageSize * n <=> page_of(i) <= n
  BY <1>2, <1>4
<1>7. ASSUME NEW n \in Nat
      PROVE  /\ n \div PageSize \in Nat
             /\ align_down(n) = PageSize * (n \div PageSize)
             /\ align_down(n) \in 0 .. n /\ n < align_down(n) + PageSize
  <2> DEFINE d == n \div PageSize
             m == n % PageSize
  <2>1. /\ d \in Nat /\ m \in 0 .. (PageSize - 1)
        /\ n = PageSize * d + m
    BY Quotient
  <2>2. align_down(n) = d * PageSize
    BY DEF align_down
  <2> HIDE DEF d, m
  <2>3. d * PageSize = PageSize * d /\ PageSize * d \in Nat
    BY <1>1, <2>1
  <2> QED
    BY <1>1, <2>1, <2>2, <2>3 DEF d
<1> QED
  BY <1>2, <1>3, <1>4, <1>5, <1>6, <1>7

-----------------------------------------------------------------------------
(***************************************************************************)
(* Lists of slots.                                                         *)
(***************************************************************************)
\* A function on 1 .. n is a sequence.
LEMMA FunctionIsSeq ==
  ASSUME NEW V, NEW n \in Nat, NEW f \in [1 .. n -> V]
  PROVE  f \in Seq(V) /\ Len(f) = n /\ DOMAIN f = 1 .. n
<1>1. f = [i \in 1 .. n |-> f[i]] /\ \A i \in 1 .. n : f[i] \in V
  OBVIOUS
<1> DEFINE g == [i \in 1 .. n |-> f[i]]
<1>2. g \in Seq(V) /\ Len(g) = n
  BY <1>1, IsASeq
<1> QED
  BY <1>1, <1>2

\* list.sort gives back the elements of the list, each as often as before.
LEMMA SortedIsPermuted ==
  ASSUME NEW V \in SUBSET Int, NEW s \in Seq(V)
  PROVE  /\ sorted(s) \in Seq(V) /\ Len(sorted(s)) = Len(s)
         /\ Range(sorted(s)) = Range(s)
         /\ IsInjective(s) => IsInjective(sorted(s))
<1> DEFINE n == Len(s)
           D == 1 .. n
           before(i) == {j \in D : s[j] < s[i] \/ (s[j] = s[i] /\ j <= i)}
           place == [i \in D |-> Cardinality(before(i))]
           c == [k \in D |-> CHOOSE i \in D : place[i] = k]
<1>1. n \in Nat /\ DOMAIN s = D /\ \A i \in D : s[i] \in Int /\ s[i] \in V
  BY LenProperties
<1>2. IsFiniteSet(D) /\ Cardinality(D) = n
  <2>1. \A a, b \in Int : /\ IsFiniteSet(a .. b)
                          /\ Cardinality(a .. b) = IF a > b THEN 0 ELSE b - a + 1
    BY FS_Interval
  <2> QED
    BY <1>1, <2>1, SMTT(60)
<1>3. sorted(s) = [k \in D |-> s[c[k]]]
  <2>1. sorted(s) = [k \in D |-> s[CHOOSE i \in D : place[i] = k]]
    BY <1>1 DEF sorted
  <2> QED
    BY <2>1
<1>4. \A i \in D : /\ before(i) \subseteq D /\ IsFiniteSet(before(i))
                   /\ i \in before(i) /\ place[i] \in 1 .. n
  <2> TAKE i \in D
  <2>1. before(i) \subseteq D /\ i \in before(i)
    BY <1>1
  <2> HIDE DEF before
  <2>2. IsFiniteSet(before(i)) /\ Cardinality(before(i)) <= n
    BY <1>2, <2>1, FS_Subset
  <2>3. Cardinality(before(i)) \in Nat /\ Cardinality(before(i)) # 0
    BY <2>1, <2>2, FS_CardinalityType, FS_EmptySet
  <2> QED
    BY <1>1, <2>1, <2>2, <2>3
<1>5. \A i, k \in D : i # k => place[i] # place[k]
  <2>1. ASSUME NEW i \in D, NEW k \in D, i # k, i \in before(k)
        PROVE  place[i] < place[k]
    <3>1. k \notin before(i)
      BY <1>1, <2>1
    <3>2. before(i) \subseteq before(k) \ {k}
      <4> SUFFICES ASSUME NEW j \in before(i) PROVE j \in before(k)
        BY <3>1
      <4> QED
        BY <1>1, <2>1
    <3> HIDE DEF before
    <3>3. IsFiniteSet(before(k) \ {k}) /\ Cardinality(before(k) \ {k}) = Cardinality(before(k)) - 1
      BY <1>4, FS_RemoveElement
    <3>4. Cardinality(before(i)) <= Cardinality(before(k) \ {k})
      BY <3>2, <3>3, FS_Subset
    <3> QED
      BY <1>1, <1>4, <3>3, <3>4
  <2> SUFFICES ASSUME NEW i \in D, NEW k \in D, i # k PROVE place[i] # place[k]
    OBVIOUS
  <2>2. i \in before(k) \/ k \in before(i)
    BY <1>1
  <2> HIDE DEF before, place
  <2>3. place[i] \in Int /\ place[k] \in Int
    BY <1>1, <1>4
  <2> QED
    BY <2>1, <2>2, <2>3
<1> HIDE DEF before
<1>6. \A k \in D : \E i \in D : place[i] = k
  <2>1. place \in Injection(D, D)
    BY <1>4, <1>5 DEF Injection, IsInjective
  <2>2. place \in Surjection(D, D)
    BY <1>2, <2>1, FS_Injection
  <2> QED
    BY <2>2 DEF Surjection
<1> HIDE DEF place
<1>7. \A k \in D : c[k] \in D /\ place[c[k]] = k
  BY <1>6
<1>8. \A i \in D : \E k \in D : c[k] = i
  <2> TAKE i \in D
  <2>1. place[i] \in D
    BY <1>4
  <2>2. c[place[i]] = i
    BY <1>5, <1>7, <2>1
  <2> QED
    BY <2>1, <2>2
<1> HIDE DEF c
<1>9. sorted(s) \in Seq(V) /\ Len(sorted(s)) = n /\ DOMAIN sorted(s) = D
  <2>1. sorted(s) \in [D -> V]
    BY <1>1, <1>3, <1>7
  <2> QED
    BY <1>1, <2>1, FunctionIsSeq
<1>10. Range(sorted(s)) = Range(s)
  <2>1. Range(sorted(s)) = {sorted(s)[k] : k \in D} /\ Range(s) = {s[i] : i \in D}
    BY <1>1, <1>9 DEF Range
  <2>2. \A k \in D : sorted(s)[k] = s[c[k]]
    BY <1>3
  <2> HIDE DEF D
  <2>3. \A x : x \in {sorted(s)[k] : k \in D} <=> x \in {s[i] : i \in D}
    BY <1>7, <1>8, <2>2
  <2> QED
    BY <2>1, <2>3
<1>11. IsInjective(s) => IsInjective(sorted(s))
  <2> SUFFICES ASSUME IsInjective(s), NEW a \in D, NEW b \in D, sorted(s)[a] = sorted(s)[b]
               PROVE  a = b
    BY <1>9 DEF IsInjective
  <2>1. s[c[a]] = s[c[b]]
    BY <1>3
  <2>2. c[a] = c[b]
    BY <1>1, <1>7, <2>1 DEF IsInjective
  <2> QED
    BY <1>7, <2>2
<1> QED
  BY <1>9, <1>10, <1>11

\* Two lists put together.
LEMMA ConcatIsUnion ==
  ASSUME NEW V, NEW s \in Seq(V), NEW t \in Seq(V)
  PROVE  /\ s \o t \in Seq(V)
         /\ Range(s \o t) = Range(s) \union Range(t)
         /\ IsInjective(s) /\ IsInjective(t) /\ Range(s) \cap Range(t) = {}
              => IsInjective(s \o t)
<1> DEFINE u == s \o t
<1>1. /\ u \in Seq(V) /\ Len(u) = Len(s) + Len(t)
      /\ \A i \in 1 .. Len(s) + Len(t) : u[i] = IF i <= Len(s) THEN s[i] ELSE t[i - Len(s)]
  BY ConcatProperties
<1>2. /\ Len(s) \in Nat /\ DOMAIN s = 1 .. Len(s)
      /\ Len(t) \in Nat /\ DOMAIN t = 1 .. Len(t)
      /\ DOMAIN u = 1 .. Len(u)
  BY <1>1, LenProperties
<1> HIDE DEF u
<1>3. \A i \in 1 .. Len(s) : i \in 1 .. Len(u) /\ u[i] = s[i]
  BY <1>1, <1>2
<1>4. \A i \in 1 .. Len(t) : (Len(s) + i) \in 1 .. Len(u) /\ u[Len(s) + i] = t[i]
  BY <1>1, <1>2, SMTT(60)
<1>5. \A i \in 1 .. Len(u) : \/ i \in 1 .. Len(s) /\ u[i] = s[i]
                             \/ (i - Len(s)) \in 1 .. Len(t) /\ u[i] = t[i - Len(s)]
  BY <1>1, <1>2
<1>6. Range(u) = Range(s) \union Range(t)
  <2> DEFINE A == 1 .. Len(s)
             B == 1 .. Len(t)
             C == 1 .. Len(u)
  <2>1. /\ Range(u) = {u[i] : i \in C}
        /\ Range(s) = {s[i] : i \in A} /\ Range(t) = {t[i] : i \in B}
    BY <1>2 DEF Range
  <2>2. /\ \A i \in A : \E j \in C : u[j] = s[i]
        /\ \A i \in B : \E j \in C : u[j] = t[i]
        /\ \A j \in C : (\E i \in A : u[j] = s[i]) \/ (\E i \in B : u[j] = t[i])
    BY <1>3, <1>4, <1>5
  <2> HIDE DEF A, B, C
  <2>3. \A x : x \in {u[i] : i \in C} <=> x \in {s[i] : i \in A} \/ x \in {t[i] : i \in B}
    BY <2>2
  <2> QED
    BY <2>1, <2>3
<1>7. ASSUME IsInjective(s), IsInjective(t), Range(s) \cap Range(t) = {}
      PROVE  IsInjective(u)
  <2> SUFFICES ASSUME NEW a \in 1 .. Len(u), NEW b \in 1 .. Len(u), u[a] = u[b]
               PROVE  a = b
    BY <1>2 DEF IsInjective
  <2>1. \A i \in 1 .. Len(s), j \in 1 .. Len(t) : s[i] # t[j]
    BY <1>2, <1>7 DEF Range
  <2>2. \A i, j \in 1 .. Len(s) : s[i] = s[j] => i = j
    BY <1>2, <1>7 DEF IsInjective
  <2>3. \A i, j \in 1 .. Len(t) : t[i] = t[j] => i = j
    BY <1>2, <1>7 DEF IsInjective
  <2> QED
    BY <1>2, <1>5, <2>1, <2>2, <2>3
<1> QED
  BY <1>1, <1>6, <1>7 DEF u

\* Two lists put together and sorted.
LEMMA SortedUnion ==
  ASSUME NEW V \in SUBSET Int, NEW s \in Seq(V), NEW t \in Seq(V)
  PROVE  /\ sorted(s \o t) \in Seq(V)
         /\ Range(sorted(s \o t)) = Range(s) \union Range(t)
         /\ IsInjective(s) /\ IsInjective(t) /\ Range(s) \cap Range(t) = {}
              => IsInjective(sorted(s \o t))
<1>1. s \o t \in Seq(V) /\ Range(s \o t) = Range(s) \union Range(t)
  BY ConcatIsUnion
<1>2. IsInjective(s) /\ IsInjective(t) /\ Range(s) \cap Range(t) = {} => IsInjective(s \o t)
  BY ConcatIsUnion
<1> QED
  BY <1>1, <1>2, SortedIsPermuted

\* A finite set as a list.
LEMMA SetAsList ==
  ASSUME NEW V, NEW T \in SUBSET V, IsFiniteSet(T)
  PROVE  SetToSeq(T) \in Seq(V) /\ Range(SetToSeq(T)) = T /\ IsInjective(SetToSeq(T))
<1> DEFINE n == Cardinality(T)
           f == SetToSeq(T)
<1>1. n \in Nat /\ ExistsBijection(1 .. n, T)
  BY FS_CardinalityType
<1>2. \E g \in [1 .. n -> T] : IsInjective(g)
  BY <1>1 DEF ExistsBijection, Bijection, Injection
<1>3. f \in [1 .. n -> T] /\ IsInjective(f)
  BY <1>2 DEF SetToSeq
<1>4. IsFiniteSet(1 .. n) /\ Cardinality(1 .. n) = n
  <2>1. \A a, b \in Int : /\ IsFiniteSet(a .. b)
                          /\ Cardinality(a .. b) = IF a > b THEN 0 ELSE b - a + 1
    BY FS_Interval
  <2> HIDE DEF n
  <2> QED
    BY <1>1, <2>1
<1> HIDE DEF f
<1>5. f \in Surjection(1 .. n, T)
  <2>1. f \in Injection(1 .. n, T)
    BY <1>3 DEF Injection
  <2> QED
    BY <1>4, <2>1, FS_Injection
<1>6. Range(f) = T
  BY <1>3, <1>5 DEF Range, Surjection
<1>7. f \in Seq(V)
  <2>1. f \in [1 .. n -> V]
    BY <1>3
  <2> HIDE DEF n
  <2> QED
    BY <1>1, <2>1, FunctionIsSeq
<1> QED
  BY <1>3, <1>6, <1>7 DEF f

-----------------------------------------------------------------------------
(***************************************************************************)
(* The pages of a token sequence.                                          *)
(***************************************************************************)
\* A page as the tree knows it, and the first n tokens of the path q.
PageSet == Seq(Tokens)
text(q, n) == [i \in 1 .. n |-> q[page_of(i)][offset_of(i)]]

\* The k-th page of a sequence, element by element.
LEMMA PageSlice ==
  ASSUME NEW V, NEW s \in Seq(V), NEW n \in Nat, PageSize * n <= Len(s), NEW k \in 1 .. n
  PROVE  LET page == SubSeq(s, (k - 1) * PageSize + 1, k * PageSize)
         IN  /\ page \in Seq(V) /\ Len(page) = PageSize
             /\ \A j \in 1 .. PageSize :
                  /\ position(k, j) \in 1 .. Len(s)
                  /\ position(k, j) <= PageSize * n
                  /\ page[j] = s[position(k, j)]
<1> DEFINE a == (k - 1) * PageSize
           b == a + 1
           e == a + PageSize
<1>1. PageSize \in Nat \ {0} /\ Len(s) \in Nat /\ PageSize * n \in Int
  BY PageAssumption, LenProperties
<1>2. a \in Nat /\ k * PageSize = a + PageSize
  BY <1>1
<1>3. \A j \in 1 .. PageSize :
        position(k, j) = a + j /\ a + j <= PageSize * n /\ a + j \in 1 .. Len(s)
  <2> TAKE j \in 1 .. PageSize
  <2>1. k \in Nat \ {0} /\ k <= n
    OBVIOUS
  <2>2. position(k, j) <= PageSize * n /\ position(k, j) \in Nat \ {0}
    BY <2>1, Paging
  <2>3. position(k, j) = a + j
    BY DEF position
  <2> HIDE DEF a
  <2> QED
    BY <1>1, <2>2, <2>3
<1> HIDE DEF a
<1>4. \A i \in b .. e : s[i] \in V
  <2> TAKE i \in b .. e
  <2>1. i - a \in 1 .. PageSize /\ a + (i - a) = i
    BY <1>1, <1>2
  <2>2. i \in 1 .. Len(s)
    BY <1>3, <2>1
  <2> QED
    BY <2>2, LenProperties
<1>5. b \in Int /\ e \in Int /\ e - b + 1 = PageSize /\ b <= e
  BY <1>1, <1>2
<1>6. SubSeq(s, (k - 1) * PageSize + 1, k * PageSize) = SubSeq(s, b, e)
  BY <1>2 DEF a
<1>7. \A j \in 1 .. PageSize : b + j - 1 = a + j
  BY <1>2
<1> HIDE DEF b, e
<1>8. /\ SubSeq(s, b, e) \in Seq(V)
      /\ Len(SubSeq(s, b, e)) = IF b <= e THEN e - b + 1 ELSE 0
      /\ \A i \in 1 .. e - b + 1 : SubSeq(s, b, e)[i] = s[b + i - 1]
  BY <1>4, <1>5, SubSeqProperties
<1> QED
  BY <1>3, <1>5, <1>6, <1>7, <1>8, ZenonT(60)

\* The whole pages of ids, token by token.
LEMMA PagesMeaning ==
  ASSUME NEW ids \in Seq(Tokens)
  PROVE  /\ pages(ids) \in Seq(PageSet)
         /\ Len(pages(ids)) \in Nat /\ Len(pages(ids)) = Len(ids) \div PageSize
         /\ PageSize * Len(pages(ids)) = align_down(Len(ids))
         /\ align_down(Len(ids)) \in 0 .. Len(ids)
         /\ \A k \in 1 .. Len(pages(ids)) :
              /\ Len(pages(ids)[k]) = PageSize
              /\ \A j \in 1 .. PageSize :
                   /\ position(k, j) \in 1 .. Len(ids)
                   /\ pages(ids)[k][j] = ids[position(k, j)]
<1> DEFINE n == Len(ids) \div PageSize
           page(k) == SubSeq(ids, (k - 1) * PageSize + 1, k * PageSize)
<1>1. /\ Len(ids) \in Nat /\ n \in Nat
      /\ align_down(Len(ids)) = PageSize * n /\ align_down(Len(ids)) \in 0 .. Len(ids)
  BY LenProperties, Paging
<1>2. pages(ids) = [k \in 1 .. n |-> page(k)]
  BY DEF pages
<1>3. PageSize * n <= Len(ids)
  BY <1>1
<1> HIDE DEF n
<1>4. \A k \in 1 .. n : /\ page(k) \in Seq(Tokens) /\ Len(page(k)) = PageSize
                        /\ \A j \in 1 .. PageSize :
                             /\ position(k, j) \in 1 .. Len(ids)
                             /\ page(k)[j] = ids[position(k, j)]
  BY <1>1, <1>3, PageSlice
<1> HIDE DEF page
<1>5. pages(ids) \in [1 .. n -> PageSet]
  BY <1>2, <1>4 DEF PageSet
<1>6. pages(ids) \in Seq(PageSet) /\ Len(pages(ids)) = n
  BY <1>1, <1>5, FunctionIsSeq
<1> QED
  BY <1>1, <1>2, <1>4, <1>6 DEF n

\* The tokens of a path of whole pages of ids are those of ids.
LEMMA TextOfPages ==
  ASSUME NEW ids \in Seq(Tokens), NEW q \in Seq(PageSet), IsPrefix(q, pages(ids)),
         NEW n \in 0 .. (PageSize * Len(q))
  PROVE  /\ n <= Len(ids)
         /\ text(q, n) = SubSeq(ids, 1, n)
<1>1. /\ Len(q) \in Nat /\ Len(q) <= Len(pages(ids))
      /\ \A k \in 1 .. Len(q) : q[k] = pages(ids)[k]
  BY PagesMeaning, PrefixMeaning, LenProperties
<1>2. /\ Len(pages(ids)) \in Nat
      /\ PageSize * Len(pages(ids)) \in 0 .. Len(ids) /\ Len(ids) \in Nat
  BY PagesMeaning, LenProperties
<1>3. PageSize * Len(q) <= PageSize * Len(pages(ids)) /\ PageSize * Len(q) \in Int
  <2>1. Len(q) \in Int /\ Len(pages(ids)) \in Int
    BY <1>1, <1>2
  <2>2. \A a, b \in Int : PageSize * a \in Int /\ (a <= b <=> PageSize * a <= PageSize * b)
    BY Multiples, Zenon
  <2> QED
    BY <1>1, <2>1, <2>2, Zenon
<1>4. n \in Nat /\ n <= Len(ids)
  BY <1>2, <1>3
<1>5. \A i \in 1 .. n : q[page_of(i)][offset_of(i)] = ids[i]
  <2> TAKE i \in 1 .. n
  <2>1. i \in Nat \ {0} /\ i <= PageSize * Len(q)
    BY <1>3, <1>4
  <2>2. /\ page_of(i) \in Nat \ {0} /\ offset_of(i) \in 1 .. PageSize
        /\ position(page_of(i), offset_of(i)) = i
        /\ page_of(i) <= Len(q)
    BY <1>1, <2>1, Paging
  <2>3. page_of(i) \in 1 .. Len(q) /\ page_of(i) \in 1 .. Len(pages(ids))
    BY <1>1, <1>2, <2>2
  <2> QED
    BY <1>1, <2>2, <2>3, PagesMeaning
<1>6. /\ Len(SubSeq(ids, 1, n)) = n /\ SubSeq(ids, 1, n) \in Seq(Tokens)
      /\ \A i \in 1 .. n : SubSeq(ids, 1, n)[i] = ids[i]
  <2>1. \A i \in 1 .. n : ids[i] \in Tokens
    BY <1>2, <1>4, LenProperties
  <2>2. /\ SubSeq(ids, 1, n) \in Seq(Tokens)
        /\ Len(SubSeq(ids, 1, n)) = IF 1 <= n THEN n - 1 + 1 ELSE 0
        /\ \A i \in 1 .. n - 1 + 1 : SubSeq(ids, 1, n)[i] = ids[1 + i - 1]
    BY <1>4, <2>1, SubSeqProperties
  <2> QED
    BY <1>4, <2>2
<1>7. text(q, n) \in Seq(Tokens) /\ Len(text(q, n)) = n
      /\ \A i \in 1 .. n : text(q, n)[i] = ids[i]
  <2>1. text(q, n) = [i \in 1 .. n |-> ids[i]]
    BY <1>5 DEF text
  <2>2. \A i \in 1 .. n : ids[i] \in Tokens
    BY <1>2, <1>4, LenProperties
  <2>3. text(q, n) \in [1 .. n -> Tokens]
    BY <2>1, <2>2
  <2> QED
    BY <1>4, <2>1, <2>3, FunctionIsSeq
<1> QED
  BY <1>4, <1>6, <1>7, SeqEqual

\* A longer sequence has the pages of its beginning.
LEMMA PagesOfLonger ==
  ASSUME NEW s \in Seq(Tokens), NEW t \in Seq(Tokens),
         Len(s) <= Len(t), \A i \in 1 .. Len(s) : s[i] = t[i]
  PROVE  /\ IsPrefix(pages(s), pages(t))
         /\ Len(pages(s)) <= Len(pages(t))
         /\ \A k \in 1 .. Len(pages(s)) : pages(s)[k] = pages(t)[k]
<1>1. /\ Len(s) \in Nat /\ Len(t) \in Nat
      /\ Len(pages(s)) \in Nat /\ Len(pages(t)) \in Nat
      /\ PageSize * Len(pages(s)) <= Len(s)
      /\ Len(t) < PageSize * Len(pages(t)) + PageSize
      /\ pages(s) \in Seq(PageSet) /\ pages(t) \in Seq(PageSet)
  BY PagesMeaning, LenProperties, Paging
<1>2. Len(pages(s)) <= Len(pages(t))
  <2>1. Len(pages(s)) \in Int /\ Len(pages(t)) \in Int
    BY <1>1
  <2>2. \A a, b \in Int : PageSize * a \in Int /\ (a < b <=> PageSize * a + PageSize <= PageSize * b)
    BY Multiples, Zenon
  <2>3. /\ PageSize * Len(pages(s)) \in Int /\ PageSize * Len(pages(t)) \in Int
        /\ Len(pages(t)) < Len(pages(s)) <=>
             PageSize * Len(pages(t)) + PageSize <= PageSize * Len(pages(s))
    BY <2>1, <2>2, Zenon
  <2> DEFINE a == PageSize * Len(pages(s))
             b == PageSize * Len(pages(t))
             l == Len(pages(s))
             m == Len(pages(t))
  <2>4. /\ a \in Int /\ b \in Int /\ (m < l <=> b + PageSize <= a)
        /\ a <= Len(s) /\ Len(t) < b + PageSize /\ l \in Nat /\ m \in Nat
        /\ PageSize \in Nat /\ Len(s) \in Nat /\ Len(t) \in Nat
    BY <1>1, <2>3, PageAssumption
  <2> HIDE DEF a, b, l, m
  <2>5. l <= m
    BY <2>4
  <2> QED
    BY <2>5 DEF l, m
<1>3. \A k \in 1 .. Len(pages(s)) : pages(s)[k] = pages(t)[k]
  <2> TAKE k \in 1 .. Len(pages(s))
  <2>1. k \in 1 .. Len(pages(t))
    BY <1>1, <1>2
  <2>2. pages(s)[k] \in Seq(Tokens) /\ pages(t)[k] \in Seq(Tokens)
    BY <1>1, <2>1, LenProperties DEF PageSet
  <2>3. /\ Len(pages(s)[k]) = PageSize /\ Len(pages(t)[k]) = PageSize
        /\ \A j \in 1 .. PageSize : pages(s)[k][j] = pages(t)[k][j]
    BY <2>1, PagesMeaning
  <2> QED
    BY <2>2, <2>3, SeqEqual
<1> QED
  BY <1>1, <1>2, <1>3, PrefixMeaning

-----------------------------------------------------------------------------
(***************************************************************************)
(* The invariant that every step keeps, add_requests that fail included.   *)
(***************************************************************************)
\* The requests whose handle is locked, and their handles.
Holders == {r \in Requests : Live(r) \/ req[r].phase = "rejected"}
handle_of == [r \in Requests |-> req[r].handle]

RequestRecords ==
  [phase : Phases, row : Rows, ids : Seq(Tokens), promptLen : Nat, maxLen : Nat,
   handle : Seq(PageSet), cachedLen : Nat, done : Nat]

VariablesTyped ==
  /\ freeSlots \in Seq(Slots)
  /\ alloc \in [Rows -> Seq(Slots)]
  /\ pageTable \in [Rows -> [Positions -> Slots]]
  /\ freeRows \subseteq Rows
  /\ req \in [Requests -> RequestRecords]
  /\ stage \in {"idle", "alloc", "evict", "retry"}
  /\ current \in Requests \union {Nobody}
  /\ toEvict \in Nat
  /\ unwritten \subseteq Slots

\* A page of the tree is in PageSize slots.
ValuesTyped ==
  \A x \in DOMAIN tree.value : tree.value[x] \in Seq(Slots) /\ Len(tree.value[x]) = PageSize

TreeSound ==
  /\ TreeInv(tree, PageSet)
  /\ CountsHandles(tree, Holders, handle_of)
  /\ SizesAgree(tree)
  /\ ValuesTyped

\* What a request's lengths say of each other.
LengthsAgree ==
  \A r \in Requests :
    /\ req[r].cachedLen <= req[r].promptLen
    /\ req[r].done <= Len(req[r].ids)
    /\ Live(r) =>
         /\ IsPrefix(req[r].handle, pages(req[r].ids))
         /\ req[r].cachedLen <= PageSize * Len(req[r].handle)
         /\ req[r].cachedLen <= req[r].done
         /\ req[r].promptLen <= Len(req[r].ids)
         /\ Len(req[r].ids) < req[r].maxLen
         /\ req[r].maxLen <= MaxSeqLen

\* A live request has a row of its own.
RowsApart ==
  /\ \A r \in Requests : Live(r) => req[r].row \notin freeRows
  /\ \A r, q \in Requests : Live(r) /\ Live(q) /\ req[r].row = req[q].row => r = q

\* The head of a live request's row aliases the slots of its handle's pages.
HeadsAliased ==
  \A r \in Requests : Live(r) =>
    \A pos \in 1 .. req[r].cachedLen :
      pageTable[req[r].row][pos] =
        tree.value[SubSeq(req[r].handle, 1, page_of(pos))][offset_of(pos)]

StageSound ==
  /\ stage # "idle" => current \in Requests /\ Live(current)
  /\ stage = "evict" => toEvict > 0 /\ toEvict <= tree.evictable

Inv ==
  /\ VariablesTyped
  /\ TreeSound
  /\ LengthsAgree
  /\ RowsApart
  /\ HeadsAliased
  /\ StageSound

\* Handles that did not move are counted as before.
LEMMA SameHandles ==
  ASSUME NEW tr, NEW H, NEW at, CountsHandles(tr, H, at),
         NEW at2, \A h \in H : at2[h] = at[h]
  PROVE  CountsHandles(tr, H, at2)
<1>1. \A n : {h \in H : IsPrefix(n, at2[h])} = {h \in H : IsPrefix(n, at[h])}
  OBVIOUS
<1> QED
  BY <1>1 DEF CountsHandles

\* The pages of a locked handle are in the tree.
LEMMA HandlePages ==
  ASSUME VariablesTyped, TreeSound, NEW r \in Holders, NEW k \in 1 .. Len(req[r].handle)
  PROVE  /\ SubSeq(req[r].handle, 1, k) \in DOMAIN tree.value
         /\ SubSeq(req[r].handle, 1, k) \in Seq(PageSet) \ {Root}
         /\ IsPrefix(SubSeq(req[r].handle, 1, k), handle_of[r])
<1> DEFINE q == req[r].handle
           x == SubSeq(q, 1, k)
<1>1. r \in Requests /\ q \in Seq(PageSet)
  BY DEF VariablesTyped, RequestRecords, Holders
<1>2. handle_of[r] = q
  BY <1>1 DEF handle_of
<1>3. q \in nodes(tree) \union {Root}
  BY <1>2 DEF TreeSound, CountsHandles
<1>4. Len(q) \in Nat /\ Len(Root) = 0
  BY <1>1, LenProperties, RootPrefix
<1> HIDE DEF q
<1>5. q # Root /\ k \in 0 .. Len(q)
  BY <1>4 DEF q
<1>6. x \in Seq(PageSet) /\ Len(x) = k /\ IsPrefix(x, q)
  BY <1>1, <1>5, PrefixCut
<1>7. x # Root
  BY <1>4, <1>6 DEF q
<1>8. q \in DOMAIN tree.value
  BY <1>3, <1>5 DEF TreeSound, TreeInv
<1>9. x \in DOMAIN tree.value
  <2> HIDE DEF x
  <2> QED
    BY <1>6, <1>7, <1>8 DEF TreeSound, TreeInv
<1> QED
  BY <1>2, <1>6, <1>7, <1>9 DEF q

\* A position of the aliased head is in a page of the handle.
LEMMA HeadPages ==
  ASSUME VariablesTyped, TreeSound, LengthsAgree, NEW r \in Requests, Live(r),
         NEW pos \in 1 .. req[r].cachedLen
  PROVE  /\ page_of(pos) \in 1 .. Len(req[r].handle) /\ offset_of(pos) \in 1 .. PageSize
         /\ SubSeq(req[r].handle, 1, page_of(pos)) \in DOMAIN tree.value
         /\ SubSeq(req[r].handle, 1, page_of(pos)) \in Seq(PageSet) \ {Root}
         /\ IsPrefix(SubSeq(req[r].handle, 1, page_of(pos)), handle_of[r])
<1>1. /\ req[r].handle \in Seq(PageSet) /\ req[r].cachedLen \in Nat
      /\ req[r].cachedLen <= PageSize * Len(req[r].handle)
  BY DEF VariablesTyped, RequestRecords, LengthsAgree
<1>2. Len(req[r].handle) \in Nat
  BY <1>1, LenProperties
<1>3. PageSize * Len(req[r].handle) \in Int
  BY <1>2, PageAssumption
<1>4. pos \in Nat \ {0} /\ pos <= PageSize * Len(req[r].handle)
  BY <1>1, <1>3
<1>5. page_of(pos) \in Nat \ {0} /\ page_of(pos) <= Len(req[r].handle) /\ offset_of(pos) \in 1 .. PageSize
  BY <1>2, <1>4, Paging
<1>6. page_of(pos) \in 1 .. Len(req[r].handle)
  BY <1>2, <1>5
<1>7. r \in Holders
  BY DEF Holders
<1> QED
  BY <1>5, <1>6, <1>7, HandlePages

\* The aliased head of a request that keeps its row and its handle.
LEMMA HeadStays ==
  ASSUME VariablesTyped, TreeSound, LengthsAgree, HeadsAliased,
         NEW r \in Requests, Live(r),
         req'[r].row = req[r].row, req'[r].handle = req[r].handle,
         req'[r].cachedLen = req[r].cachedLen,
         \A pos \in 1 .. req[r].cachedLen :
           pageTable'[req[r].row][pos] = pageTable[req[r].row][pos],
         \A x \in (DOMAIN tree.value) \ {Root} :
           IsPrefix(x, handle_of[r]) => tree'.value[x] = tree.value[x]
  PROVE  \A pos \in 1 .. req'[r].cachedLen :
           pageTable'[req'[r].row][pos] =
             tree'.value[SubSeq(req'[r].handle, 1, page_of(pos))][offset_of(pos)]
<1> SUFFICES ASSUME NEW pos \in 1 .. req[r].cachedLen
             PROVE  pageTable[req[r].row][pos] =
                      tree'.value[SubSeq(req[r].handle, 1, page_of(pos))][offset_of(pos)]
  OBVIOUS
<1> DEFINE x == SubSeq(req[r].handle, 1, page_of(pos))
<1>1. x \in DOMAIN tree.value /\ x # Root /\ IsPrefix(x, handle_of[r])
  BY HeadPages
<1>2. pageTable[req[r].row][pos] = tree.value[x][offset_of(pos)]
  BY DEF HeadsAliased
<1> HIDE DEF x
<1>3. tree'.value[x] = tree.value[x]
  BY <1>1
<1> QED
  BY <1>2, <1>3 DEF x

\* match and lock, for a request that held nothing.
LEMMA LockedMatchKeeps ==
  ASSUME EngineBounds, TreeSound, NEW r \in Requests, r \notin Holders,
         NEW ids \in Prompts, tree' = locked_match(ids),
         Holders' = Holders \union {r},
         \A h \in Holders : handle_of'[h] = handle_of[h],
         handle_of'[r] = matched_path(tree, pages(ids))
  PROVE  /\ TreeSound'
         /\ tree'.value = tree.value
<1> DEFINE p == pages(ids)
           q == matched_path(tree, p)
           w == tree_walk(tree, p, clock + 1)
<1>1. p \in Seq(PageSet)
  BY PagesMeaning DEF EngineBounds
<1>2. TreeInv(tree, PageSet) /\ SizesAgree(tree) /\ CountsHandles(tree, Holders, handle_of)
  BY DEF TreeSound
<1>3. /\ TreeInv(w, PageSet) /\ SizesAgree(w)
      /\ CountsHandles(w, Holders, handle_of)
      /\ q \in nodes(w) \union {Root}
  BY <1>1, <1>2, WalkKeepsShape, WalkKeepsSizes, WalkKeepsCounts
<1>4. w.value = tree.value
  BY <1>1, <1>2, WalkFacts
<1>5. lock_handle(w, q).value = w.value
  BY <1>3, LockFields DEF TreeInv
<1>6. tree' = lock_handle(w, q)
  BY DEF locked_match
<1>7. handle_of'[r] = q
  OBVIOUS
<1> HIDE DEF q, w, p
<1>8. /\ TreeInv(lock_handle(w, q), PageSet)
      /\ CountsHandles(lock_handle(w, q), Holders \union {r}, handle_of')
  BY <1>3, <1>7, LockKeeps
<1>9. SizesAgree(lock_handle(w, q))
  BY <1>3, LockKeepsSizes
<1>10. tree'.value = tree.value
  BY <1>4, <1>5, <1>6
<1>11. ValuesTyped'
  BY <1>10 DEF TreeSound, ValuesTyped
<1> QED
  BY <1>6, <1>8, <1>9, <1>10, <1>11 DEF TreeSound

\* The release of a locked handle.
LEMMA ReleaseKeeps ==
  ASSUME TreeSound, NEW r \in Holders
  PROVE  LET t == unlock_handle(tree, req[r].handle)
         IN  /\ TreeInv(t, PageSet) /\ SizesAgree(t)
             /\ CountsHandles(t, Holders \ {r}, handle_of)
             /\ t.value = tree.value
<1>1. handle_of[r] = req[r].handle
  BY DEF Holders, handle_of
<1>2. TreeInv(tree, PageSet) /\ SizesAgree(tree) /\ CountsHandles(tree, Holders, handle_of)
  BY DEF TreeSound
<1> DEFINE t == unlock_handle(tree, handle_of[r])
<1>3. TreeInv(t, PageSet) /\ CountsHandles(t, Holders \ {r}, handle_of)
  BY <1>2, UnlockKeeps
<1>4. SizesAgree(t)
  BY <1>2, UnlockKeepsSizes
<1>5. t.value = tree.value
  BY <1>2, LockFields DEF TreeInv
<1> HIDE DEF t
<1> QED
  BY <1>1, <1>3, <1>4, <1>5 DEF t

\* A step that leaves the tree and the handles alone.
LEMMA TreeStays ==
  ASSUME TreeSound, tree' = tree, Holders' = Holders,
         \A h \in Holders : handle_of'[h] = handle_of[h]
  PROVE  TreeSound'
<1>1. CountsHandles(tree, Holders, handle_of')
  BY SameHandles DEF TreeSound
<1> QED
  BY <1>1 DEF TreeSound, ValuesTyped

-----------------------------------------------------------------------------
(***************************************************************************)
(* The invariant is inductive.                                             *)
(***************************************************************************)
\* The empty engine.
LEMMA InitInv ==
  ASSUME EngineBounds, Init
  PROVE  Inv
<1> USE DEF Init
<1>1. MaxRunningReq \in Nat \ {0} /\ NumSlots \in Nat \ {0} /\ MaxSeqLen \in Nat
  BY DEF EngineBounds
<1>2. 0 \in Rows /\ 0 \in Slots
  BY <1>1 DEF Rows, Slots
<1>3. \A r \in Requests : req[r] = NoRequest /\ ~ Live(r)
  BY DEF Live, NoRequest
<1>4. Holders = {}
  BY <1>3 DEF Holders, NoRequest
<1>5. NoRequest \in RequestRecords
  <2>1. Root \in Seq(PageSet) /\ <<>> \in Seq(Tokens)
    BY RootPrefix, EmptySeq
  <2> QED
    BY <1>2, <2>1 DEF NoRequest, RequestRecords, Phases
<1>6. freeSlots \in Seq(Slots)
  <2>1. freeSlots \in [1 .. (NumSlots - 1) -> Slots]
    BY <1>1 DEF Slots
  <2>2. NumSlots - 1 \in Nat
    BY <1>1
  <2> QED
    BY <2>1, <2>2, FunctionIsSeq
<1>7. alloc \in [Rows -> Seq(Slots)]
  BY EmptySeq
<1>8. VariablesTyped
  BY <1>2, <1>5, <1>6, <1>7 DEF VariablesTyped
<1>9. TreeSound
  BY <1>4, EmptyTreeIsSound DEF TreeSound, ValuesTyped
<1>10. LengthsAgree
  <2>1. Len(<<>>) = 0
    BY EmptySeq
  <2> QED
    BY <1>3, <2>1 DEF LengthsAgree, NoRequest
<1> QED
  BY <1>3, <1>8, <1>9, <1>10 DEF Inv, RowsApart, HeadsAliased, StageSound

\* What add_request reuses is matched and leaves a token to forward.
LEMMA ReusedLength ==
  ASSUME NEW n \in Nat, NEW ids \in Seq(Tokens), Len(ids) > 0
  PROVE  reused_len(ids, n) \in Nat /\ reused_len(ids, n) <= n /\ reused_len(ids, n) < Len(ids)
<1> DEFINE l == Len(ids) - 1
           m == Min({n, l})
<1>1. Len(ids) \in Nat /\ l \in Nat
  BY LenProperties
<1> HIDE DEF l
<1>2. m \in Nat /\ m <= n /\ m <= l
  <2>1. n \in Int /\ l \in Int
    BY <1>1
  <2>2. m = IF n < l THEN n ELSE l
    BY <2>1, OfTwo
  <2> HIDE DEF m
  <2> QED
    BY <1>1, <2>2
<1> HIDE DEF m
<1>3. align_down(m) \in 0 .. m
  BY <1>2, Paging
<1>4. reused_len(ids, n) = align_down(m)
  BY DEF reused_len, m, l
<1> QED
  BY <1>1, <1>2, <1>3, <1>4 DEF l

\* The row add_request takes.
LEMMA RowTaken ==
  ASSUME EngineBounds, freeRows \subseteq Rows, freeRows # {}
  PROVE  Min(freeRows) \in freeRows
<1>1. freeRows \in SUBSET Nat
  BY DEF Rows
<1>2. \E x \in freeRows : \A y \in freeRows : x <= y
  BY <1>1, NatWellOrdered
<1> QED
  BY <1>2 DEF Min

\* The pool is finite.
LEMMA SlotsFinite ==
  ASSUME EngineBounds
  PROVE  IsFiniteSet(Slots)
<1>1. \A a, b \in Int : IsFiniteSet(a .. b)
  BY FS_Interval
<1> QED
  BY <1>1 DEF Slots, EngineBounds

\* The request add_request makes.
LEMMA AdmittedIsSound ==
  ASSUME EngineBounds, TreeSound, NEW ids \in Prompts, NEW m \in OutputLens, NEW row \in Rows
  PROVE  LET new == admitted(row, ids, m)
         IN  /\ new \in RequestRecords
             /\ new.phase = "prefill" /\ new.row = row /\ new.ids = ids
             /\ new.handle = matched_path(tree, pages(ids))
             /\ new.done = new.cachedLen /\ new.promptLen = Len(ids)
             /\ new.cachedLen < Len(ids)
             /\ new.cachedLen <= PageSize * Len(new.handle)
             /\ IsPrefix(new.handle, pages(ids))
             /\ Len(ids) < new.maxLen /\ new.maxLen <= MaxSeqLen
<1> DEFINE q == matched_path(tree, pages(ids))
           n == PageSize * Len(q)
           cached == reused_len(ids, n)
<1>1. /\ ids \in Seq(Tokens) /\ Len(ids) > 0 /\ Len(ids) \in Nat
      /\ m \in Nat \ {0} /\ Len(ids) + m <= MaxSeqLen
  BY LenProperties DEF EngineBounds
<1>2. pages(ids) \in Seq(PageSet)
  BY <1>1, PagesMeaning
<1>3. TreeInv(tree, PageSet)
  BY DEF TreeSound
<1>4. q \in Seq(PageSet) /\ IsPrefix(q, pages(ids))
  BY <1>2, <1>3, MatchedPath
<1>5. Len(q) \in Nat
  BY <1>4, LenProperties
<1> HIDE DEF q
<1>6. n \in Nat
  BY <1>5, PageAssumption
<1> HIDE DEF n
<1>7. cached \in Nat /\ cached <= n /\ cached < Len(ids)
  BY <1>1, <1>6, ReusedLength
<1>8. admitted(row, ids, m) =
        [phase |-> "prefill", row |-> row, ids |-> ids, promptLen |-> Len(ids),
         maxLen |-> Len(ids) + m, handle |-> q, cachedLen |-> cached, done |-> cached]
  BY DEF admitted, q, n
<1> HIDE DEF cached
<1> QED
  BY <1>1, <1>4, <1>7, <1>8 DEF RequestRecords, Phases, q, n

\* The slots a match hands over.
LEMMA MatchedSlots ==
  ASSUME TreeSound, NEW ids \in Seq(Tokens), NEW pos \in Nat \ {0},
         pos <= PageSize * Len(matched_path(tree, pages(ids)))
  PROVE  LET q == matched_path(tree, pages(ids))
         IN  /\ matched_indices(tree, q)[pos] =
                  tree.value[SubSeq(q, 1, page_of(pos))][offset_of(pos)]
             /\ matched_indices(tree, q)[pos] \in Slots
<1> DEFINE q == matched_path(tree, pages(ids))
           x == SubSeq(q, 1, page_of(pos))
<1>1. TreeInv(tree, PageSet) /\ pages(ids) \in Seq(PageSet)
  BY PagesMeaning DEF TreeSound
<1>2. /\ q \in Seq(PageSet) /\ Len(q) \in Nat
      /\ q = Root \/ q \in DOMAIN tree.value
  BY <1>1, MatchedPath, LenProperties
<1>3. /\ page_of(pos) \in Nat \ {0} /\ offset_of(pos) \in 1 .. PageSize
      /\ page_of(pos) <= Len(q)
  BY <1>2, Paging
<1> HIDE DEF q
<1>4. x \in Seq(PageSet) /\ Len(x) = page_of(pos) /\ IsPrefix(x, q)
  BY <1>2, <1>3, PrefixCut
<1>5. x # Root /\ q # Root
  BY <1>2, <1>3, <1>4, RootPrefix
<1> HIDE DEF x
<1>6. x \in DOMAIN tree.value
  BY <1>1, <1>2, <1>4, <1>5 DEF TreeInv
<1>7. tree.value[x][offset_of(pos)] \in Slots
  <2>1. tree.value[x] \in Seq(Slots) /\ Len(tree.value[x]) = PageSize
    BY <1>6 DEF TreeSound, ValuesTyped
  <2> QED
    BY <1>3, <2>1, ElementOfSeq
<1>8. pos \in 1 .. PageSize * Len(q)
  <2>1. PageSize * Len(q) \in Int
    BY <1>2, PageAssumption
  <2> QED
    BY <2>1 DEF q
<1>9. matched_indices(tree, q)[pos] = tree.value[x][offset_of(pos)]
  BY <1>8 DEF matched_indices, x
<1> QED
  BY <1>7, <1>9 DEF q, x

\* add_request up to the allocation.
LEMMA AddRequestKeeps ==
  ASSUME EngineBounds, Inv, NEW r \in Requests, NEW ids \in Prompts, NEW m \in OutputLens,
         add_request(r, ids, m)
  PROVE  Inv'
<1> DEFINE row == Min(freeRows)
           q == matched_path(tree, pages(ids))
           new == admitted(row, ids, m)
           hit == matched_indices(tree, q)
<1>1. /\ stage = "idle" /\ req[r].phase = "new" /\ freeRows # {}
      /\ tree' = locked_match(ids)
      /\ freeRows' = freeRows \ {row}
      /\ req' = [req EXCEPT ![r] = new]
      /\ pageTable' = [pageTable EXCEPT ![row] =
                         [pos \in Positions |-> IF pos <= new.cachedLen THEN hit[pos] ELSE @[pos]]]
      /\ stage' = "alloc" /\ current' = r
      /\ freeSlots' = freeSlots /\ alloc' = alloc /\ toEvict' = toEvict
      /\ unwritten' = unwritten
  BY DEF add_request
<1>2. VariablesTyped /\ TreeSound /\ LengthsAgree /\ RowsApart /\ HeadsAliased
  BY DEF Inv
<1>3. row \in freeRows /\ row \in Rows
  BY <1>1, <1>2, RowTaken DEF VariablesTyped
<1>4. ids \in Seq(Tokens) /\ Len(ids) \in Nat
  BY LenProperties DEF EngineBounds
<1>5. /\ new \in RequestRecords
      /\ new.phase = "prefill" /\ new.row = row /\ new.ids = ids
      /\ new.handle = q /\ new.done = new.cachedLen /\ new.promptLen = Len(ids)
      /\ new.cachedLen < Len(ids) /\ new.cachedLen <= PageSize * Len(q)
      /\ IsPrefix(q, pages(ids))
      /\ Len(ids) < new.maxLen /\ new.maxLen <= MaxSeqLen
  BY <1>2, <1>3, AdmittedIsSound
<1>6. \A pos \in 1 .. new.cachedLen :
        /\ hit[pos] = tree.value[SubSeq(q, 1, page_of(pos))][offset_of(pos)]
        /\ hit[pos] \in Slots
  <2> TAKE pos \in 1 .. new.cachedLen
  <2>1. q \in Seq(PageSet) /\ new.cachedLen \in Nat
    BY <1>5 DEF RequestRecords
  <2>2. PageSize * Len(q) \in Int
    BY <2>1, LenProperties, PageAssumption
  <2>3. pos \in Nat \ {0} /\ pos <= PageSize * Len(q)
    BY <1>5, <2>1, <2>2
  <2> QED
    BY <1>2, <1>4, <2>3, MatchedSlots
<1> HIDE DEF row, q, new, hit
<1>7. /\ req'[r] = new
      /\ \A h \in Requests : h # r => req'[h] = req[h]
      /\ req' \in [Requests -> RequestRecords]
  BY <1>1, <1>2, <1>5 DEF VariablesTyped
<1>8. /\ ~ Live(r) /\ r \notin Holders /\ Holders' = Holders \union {r}
      /\ \A h \in Requests : h # r => (Live(h)' <=> Live(h))
      /\ Live(r)'
  BY <1>1, <1>5, <1>7 DEF Live, Holders
<1>9. /\ \A h \in Holders : handle_of'[h] = handle_of[h]
      /\ handle_of'[r] = q
  BY <1>5, <1>7, <1>8 DEF handle_of, Holders
<1>10. TreeSound' /\ tree'.value = tree.value
  BY <1>1, <1>2, <1>8, <1>9, LockedMatchKeeps DEF q
<1>11. pageTable' \in [Rows -> [Positions -> Slots]]
  <2>1. MaxSeqLen \in Nat
    BY DEF EngineBounds
  <2>2. \A pos \in Positions : pos <= new.cachedLen => hit[pos] \in Slots
    BY <1>6, <2>1 DEF Positions
  <2>3. pageTable \in [Rows -> [Positions -> Slots]]
    BY <1>2 DEF VariablesTyped
  <2> QED
    BY <1>1, <1>3, <2>2, <2>3
<1>12. VariablesTyped'
  BY <1>1, <1>2, <1>7, <1>11 DEF VariablesTyped
<1>13. LengthsAgree'
  <2> SUFFICES ASSUME NEW h \in Requests
               PROVE  /\ req'[h].cachedLen <= req'[h].promptLen
                      /\ req'[h].done <= Len(req'[h].ids)
                      /\ Live(h)' =>
                           /\ IsPrefix(req'[h].handle, pages(req'[h].ids))
                           /\ req'[h].cachedLen <= PageSize * Len(req'[h].handle)
                           /\ req'[h].cachedLen <= req'[h].done
                           /\ req'[h].promptLen <= Len(req'[h].ids)
                           /\ Len(req'[h].ids) < req'[h].maxLen
                           /\ req'[h].maxLen <= MaxSeqLen
    BY DEF LengthsAgree
  <2>1. CASE h = r
    <3>1. new.cachedLen \in Nat
      BY <1>5 DEF RequestRecords
    <3> QED
      BY <1>4, <1>5, <1>7, <2>1, <3>1
  <2>2. CASE h # r
    BY <1>2, <1>7, <1>8, <2>2 DEF LengthsAgree
  <2> QED
    BY <2>1, <2>2
<1>14. RowsApart'
  BY <1>1, <1>2, <1>3, <1>5, <1>7, <1>8 DEF RowsApart
<1>15. HeadsAliased'
  <2> SUFFICES ASSUME NEW h \in Requests, Live(h)'
               PROVE  \A pos \in 1 .. req'[h].cachedLen :
                        pageTable'[req'[h].row][pos] =
                          tree'.value[SubSeq(req'[h].handle, 1, page_of(pos))][offset_of(pos)]
    BY DEF HeadsAliased
  <2>1. CASE h = r
    <3> TAKE pos \in 1 .. req'[h].cachedLen
    <3>1. pos \in 1 .. new.cachedLen /\ new.cachedLen \in Nat
      BY <1>5, <1>7, <2>1 DEF RequestRecords
    <3>2. pos \in Positions
      <4>1. MaxSeqLen \in Nat
        BY DEF EngineBounds
      <4>2. new.cachedLen < MaxSeqLen
        <5>1. new.maxLen \in Nat
          BY <1>5 DEF RequestRecords
        <5> QED
          BY <1>4, <1>5, <3>1, <4>1, <5>1
      <4> QED
        BY <3>1, <4>1, <4>2 DEF Positions
    <3>3. pageTable'[row][pos] = hit[pos]
      BY <1>1, <1>2, <1>3, <3>1, <3>2 DEF VariablesTyped
    <3> QED
      BY <1>5, <1>6, <1>7, <1>10, <2>1, <3>1, <3>3
  <2>2. CASE h # r
    <3>1. Live(h) /\ req'[h] = req[h]
      BY <1>7, <1>8, <2>2
    <3>2. req[h].row # row
      BY <1>2, <1>3, <3>1 DEF RowsApart
    <3>3. pageTable'[req[h].row] = pageTable[req[h].row]
      BY <1>1, <1>2, <3>2 DEF VariablesTyped
    <3> QED
      BY <1>2, <1>10, <3>1, <3>3, HeadStays
  <2> QED
    BY <2>1, <2>2
<1>16. StageSound'
  BY <1>1, <1>8 DEF StageSound
<1> QED
  BY <1>10, <1>12, <1>13, <1>14, <1>15, <1>16 DEF Inv

\* add_request when every row is taken.
LEMMA RejectRequestKeeps ==
  ASSUME EngineBounds, Inv, NEW r \in Requests, NEW ids \in Prompts, reject_request(r, ids)
  PROVE  Inv'
<1> DEFINE q == matched_path(tree, pages(ids))
           new == [NoRequest EXCEPT !.phase = "rejected", !.handle = q]
<1>1. /\ stage = "idle" /\ req[r].phase = "new"
      /\ tree' = locked_match(ids)
      /\ req' = [req EXCEPT ![r] = new]
      /\ UNCHANGED <<freeSlots, alloc, pageTable, freeRows, stage, current, toEvict, unwritten>>
  BY DEF reject_request
<1>2. VariablesTyped /\ TreeSound /\ LengthsAgree /\ RowsApart /\ HeadsAliased
  BY DEF Inv
<1>3. ids \in Seq(Tokens)
  BY DEF EngineBounds
<1>4. /\ new.phase = "rejected" /\ new.handle = q /\ new.ids = <<>>
      /\ new.cachedLen = 0 /\ new.promptLen = 0 /\ new.done = 0
      /\ new \in RequestRecords
  <2>1. q \in Seq(PageSet)
    BY <1>2, <1>3, PagesMeaning, MatchedPath DEF TreeSound
  <2> HIDE DEF q
  <2>2. 0 \in Rows
    BY DEF Rows, EngineBounds
  <2> QED
    BY <2>1, <2>2, EmptySeq DEF NoRequest, RequestRecords, Phases
<1> HIDE DEF new, q
<1>5. /\ req'[r] = new
      /\ \A h \in Requests : h # r => req'[h] = req[h]
      /\ req' \in [Requests -> RequestRecords]
  BY <1>1, <1>2, <1>4 DEF VariablesTyped
<1>6. /\ ~ Live(r) /\ r \notin Holders /\ Holders' = Holders \union {r}
      /\ \A h \in Requests : h # r => (Live(h)' <=> Live(h))
      /\ ~ Live(r)'
  BY <1>1, <1>4, <1>5 DEF Live, Holders
<1>7. /\ \A h \in Holders : handle_of'[h] = handle_of[h]
      /\ handle_of'[r] = q
  BY <1>4, <1>5, <1>6 DEF handle_of, Holders
<1>8. TreeSound' /\ tree'.value = tree.value
  BY <1>1, <1>2, <1>6, <1>7, LockedMatchKeeps DEF q
<1>9. VariablesTyped'
  BY <1>1, <1>2, <1>5 DEF VariablesTyped
<1>10. LengthsAgree'
  <2>1. Len(<<>>) = 0
    BY EmptySeq
  <2> QED
    BY <1>2, <1>4, <1>5, <1>6, <2>1 DEF LengthsAgree
<1>11. RowsApart'
  BY <1>1, <1>2, <1>5, <1>6 DEF RowsApart
<1>12. HeadsAliased'
  <2> SUFFICES ASSUME NEW h \in Requests, Live(h)'
               PROVE  \A pos \in 1 .. req'[h].cachedLen :
                        pageTable'[req'[h].row][pos] =
                          tree'.value[SubSeq(req'[h].handle, 1, page_of(pos))][offset_of(pos)]
    BY DEF HeadsAliased
  <2>1. h # r /\ Live(h) /\ req'[h] = req[h]
    BY <1>5, <1>6
  <2> QED
    BY <1>1, <1>2, <1>8, <2>1, HeadStays
<1>13. StageSound'
  BY <1>1 DEF StageSound
<1> QED
  BY <1>8, <1>9, <1>10, <1>11, <1>12, <1>13 DEF Inv

\* The requests, the tree and the pages of the heads stay as they are.
LEMMA RequestsStay ==
  ASSUME Inv, tree' = tree, req' = req, freeRows' = freeRows,
         \A r \in Requests : Live(r) => \A pos \in 1 .. req[r].cachedLen :
           pageTable'[req[r].row][pos] = pageTable[req[r].row][pos]
  PROVE  TreeSound' /\ LengthsAgree' /\ RowsApart' /\ HeadsAliased'
<1>1. VariablesTyped /\ TreeSound /\ LengthsAgree /\ RowsApart /\ HeadsAliased
  BY DEF Inv
<1>2. Holders' = Holders /\ handle_of' = handle_of /\ \A r : Live(r)' <=> Live(r)
  BY DEF Holders, handle_of, Live
<1>3. TreeSound'
  BY <1>1, <1>2, TreeStays
<1>4. LengthsAgree' /\ RowsApart'
  BY <1>1, <1>2 DEF LengthsAgree, RowsApart
<1>5. HeadsAliased'
  BY <1>1, <1>2 DEF HeadsAliased
<1> QED
  BY <1>3, <1>4, <1>5

\* _allocate_slot asks for whole pages that cover the rest of the row.
LEMMA NeedCovers ==
  ASSUME EngineBounds, Inv, stage # "idle"
  PROVE  /\ current \in Requests /\ Live(current)
         /\ req[current].row \in Rows
         /\ req[current].cachedLen \in 0 .. MaxSeqLen
         /\ remaining \in Nat /\ remaining = MaxSeqLen - req[current].cachedLen
         /\ remaining > 0
         /\ need \in Nat /\ remaining <= need
         /\ PageSize = 1 => need = remaining
<1> DEFINE c == req[current]
           n == remaining + PageSize - 1
<1>1. current \in Requests /\ Live(current)
  BY DEF Inv, StageSound
<1>2. c \in RequestRecords
  BY <1>1 DEF Inv, VariablesTyped
<1>3. /\ c.cachedLen <= c.done /\ c.done <= Len(c.ids) /\ Len(c.ids) < c.maxLen
      /\ c.maxLen <= MaxSeqLen
  BY <1>1 DEF Inv, LengthsAgree
<1>4. c.cachedLen \in Nat /\ c.done \in Nat /\ Len(c.ids) \in Nat /\ c.maxLen \in Nat
      /\ c.row \in Rows /\ MaxSeqLen \in Nat
  BY <1>2, LenProperties DEF RequestRecords, EngineBounds
<1>5. remaining = MaxSeqLen - c.cachedLen /\ c.cachedLen < MaxSeqLen
  BY <1>3, <1>4 DEF remaining
<1> HIDE DEF c
<1>6. remaining \in Nat /\ remaining > 0
  BY <1>4, <1>5
<1>7. n \in Nat /\ PageSize \in Nat \ {0}
  BY <1>6, PageAssumption
<1>8. need = align_down(n)
  BY DEF need, align_down
<1>9. need \in Nat /\ n < need + PageSize
  <2> HIDE DEF n
  <2>1. align_down(n) \in 0 .. n /\ n < align_down(n) + PageSize
    BY <1>7, Paging
  <2> QED
    BY <1>7, <1>8, <2>1
<1>10. remaining <= need
  BY <1>6, <1>7, <1>9
<1>11. PageSize = 1 => need = remaining
  <2>1. align_down(n) \in 0 .. n
    BY <1>7, Paging
  <2> QED
    BY <1>6, <1>8, <1>10, <2>1
<1> QED
  BY <1>1, <1>4, <1>5, <1>6, <1>9, <1>10, <1>11 DEF c

\* The allocation maps the rest of the row.
LEMMA AllocateKeeps ==
  ASSUME EngineBounds, Inv, allocate
  PROVE  Inv'
<1> DEFINE row == req[current].row
           cached == req[current].cachedLen
           slots == SubSeq(freeSlots, 1, need)
<1>1. /\ stage # "idle" /\ need <= Len(freeSlots)
      /\ freeSlots' = SubSeq(freeSlots, need + 1, Len(freeSlots))
      /\ alloc' = [alloc EXCEPT ![row] = slots]
      /\ pageTable' = [pageTable EXCEPT ![row] = mapped(row, cached, slots)]
      /\ stage' = "idle" /\ current' = Nobody
      /\ tree' = tree /\ req' = req /\ freeRows' = freeRows
      /\ toEvict' = toEvict /\ unwritten' = unwritten
  BY DEF allocate
<1>2. /\ row \in Rows /\ cached \in 0 .. MaxSeqLen
      /\ need \in Nat /\ MaxSeqLen - cached <= need
      /\ current \in Requests /\ Live(current)
      /\ MaxSeqLen \in Nat
  BY <1>1, NeedCovers DEF EngineBounds
<1>3. VariablesTyped /\ RowsApart
  BY DEF Inv
<1>4. /\ freeSlots \in Seq(Slots) /\ Len(freeSlots) \in Nat
      /\ \A i \in 1 .. Len(freeSlots) : freeSlots[i] \in Slots
  BY <1>3, LenProperties DEF VariablesTyped
<1>5. /\ slots \in Seq(Slots) /\ Len(slots) = need
      /\ \A i \in 1 .. need : slots[i] = freeSlots[i]
  <2>1. \A i \in 1 .. need : freeSlots[i] \in Slots
    BY <1>1, <1>2, <1>4
  <2>2. /\ SubSeq(freeSlots, 1, need) \in Seq(Slots)
        /\ Len(SubSeq(freeSlots, 1, need)) = IF 1 <= need THEN need - 1 + 1 ELSE 0
        /\ \A i \in 1 .. need - 1 + 1 : SubSeq(freeSlots, 1, need)[i] = freeSlots[1 + i - 1]
    BY <1>2, <2>1, SubSeqProperties
  <2> QED
    BY <1>2, <2>2
<1>6. freeSlots' \in Seq(Slots)
  <2>1. \A i \in (need + 1) .. Len(freeSlots) : freeSlots[i] \in Slots
    BY <1>2, <1>4
  <2>2. SubSeq(freeSlots, need + 1, Len(freeSlots)) \in Seq(Slots)
    BY <1>2, <1>4, <2>1, SubSeqProperties
  <2> QED
    BY <1>1, <2>2
<1> HIDE DEF slots
<1>7. mapped(row, cached, slots) =
        [pos \in Positions |-> IF pos > cached THEN slots[pos - cached] ELSE pageTable[row][pos]]
  BY DEF mapped
<1> HIDE DEF row, cached
<1>8. \A pos \in Positions : pos > cached => slots[pos - cached] \in Slots
  <2> SUFFICES ASSUME NEW pos \in Positions, pos > cached PROVE slots[pos - cached] \in Slots
    OBVIOUS
  <2>1. pos - cached \in 1 .. need
    BY <1>2 DEF Positions
  <2> QED
    BY <1>5, <2>1, ElementOfSeq
<1>9. pageTable \in [Rows -> [Positions -> Slots]]
  BY <1>3 DEF VariablesTyped
<1>10. mapped(row, cached, slots) \in [Positions -> Slots]
  BY <1>2, <1>7, <1>8, <1>9
<1>11. pageTable' \in [Rows -> [Positions -> Slots]]
  BY <1>1, <1>2, <1>9, <1>10
<1>12. alloc' \in [Rows -> Seq(Slots)]
  BY <1>1, <1>2, <1>3, <1>5 DEF VariablesTyped
<1>13. VariablesTyped'
  BY <1>1, <1>3, <1>6, <1>11, <1>12 DEF VariablesTyped
<1>14. ASSUME NEW r \in Requests, Live(r), NEW pos \in 1 .. req[r].cachedLen
       PROVE  pageTable'[req[r].row][pos] = pageTable[req[r].row][pos]
  <2>1. CASE r = current
    <3>1. pos \in Positions /\ ~ (pos > cached)
      BY <1>2, <1>14, <2>1 DEF Positions, cached
    <3>2. pageTable'[row][pos] = pageTable[row][pos]
      BY <1>1, <1>2, <1>7, <1>9, <3>1
    <3> QED
      BY <2>1, <3>2 DEF row
  <2>2. CASE r # current
    <3>1. req[r].row # row
      BY <1>2, <1>3, <1>14, <2>2 DEF RowsApart, row
    <3> QED
      BY <1>1, <1>9, <3>1
  <2> QED
    BY <2>1, <2>2
<1>15. TreeSound' /\ LengthsAgree' /\ RowsApart' /\ HeadsAliased'
  BY <1>1, <1>14, RequestsStay
<1>16. StageSound'
  BY <1>1 DEF StageSound
<1> QED
  BY <1>13, <1>15, <1>16 DEF Inv

\* The allocation turns to evict().
LEMMA BeginEvictKeeps ==
  ASSUME EngineBounds, Inv, begin_evict
  PROVE  Inv'
<1>1. /\ stage = "alloc" /\ need > Len(freeSlots) /\ tree.evictable > 0
      /\ stage' = "evict" /\ toEvict' = Min({need, tree.evictable})
      /\ UNCHANGED <<freeSlots, alloc, pageTable, freeRows, tree, req, current, unwritten>>
  BY DEF begin_evict
<1>2. need \in Nat /\ Len(freeSlots) \in Nat
  <2>1. freeSlots \in Seq(Slots)
    BY DEF Inv, VariablesTyped
  <2> QED
    BY <1>1, <2>1, NeedCovers, LenProperties
<1>3. tree.evictable \in Nat
  <2>1. TreeInv(tree, PageSet) /\ SizesAgree(tree)
    BY DEF Inv, TreeSound
  <2> QED
    BY <2>1, SizesAreNatural
<1>4. toEvict' \in Nat /\ toEvict' > 0 /\ toEvict' <= tree'.evictable
  <2>1. need \in Int /\ tree.evictable \in Int /\ tree'.evictable = tree.evictable
    BY <1>1, <1>2, <1>3
  <2>2. toEvict' = IF need < tree.evictable THEN need ELSE tree.evictable
    BY <1>1, <2>1, OfTwo
  <2>3. need > 0 /\ tree.evictable > 0
    BY <1>1, <1>2
  <2>4. (IF need < tree.evictable THEN need ELSE tree.evictable) \in 1 .. tree.evictable
    BY <1>2, <1>3, <2>3
  <2>5. toEvict' \in 1 .. tree.evictable
    BY <2>2, <2>4
  <2> QED
    BY <1>3, <2>1, <2>5
<1>5. VariablesTyped'
  BY <1>1, <1>4 DEF Inv, VariablesTyped
<1>6. TreeSound' /\ LengthsAgree' /\ RowsApart' /\ HeadsAliased'
  BY <1>1, RequestsStay
<1>7. StageSound'
  BY <1>1, <1>4 DEF Inv, StageSound, Live
<1> QED
  BY <1>5, <1>6, <1>7 DEF Inv

\* The slots of a leaf.
LEMMA LeafSlots ==
  ASSUME EngineBounds, TreeSound, NEW n \in nodes(tree)
  PROVE  leaf_slots(tree, n) \in SUBSET Slots /\ IsFiniteSet(leaf_slots(tree, n))
<1> DEFINE F == {Range(tree.value[q]) : q \in edge(tree, n)}
<1>1. leaf_slots(tree, n) = UNION F
  BY DEF leaf_slots
<1>2. \A q \in edge(tree, n) : tree.value[q] \in Seq(Slots)
  BY DEF edge, TreeSound, ValuesTyped
<1>3. \A q \in edge(tree, n) : Range(tree.value[q]) \subseteq Slots
  <2> TAKE q \in edge(tree, n)
  <2> DEFINE v == tree.value[q]
  <2>1. DOMAIN v = 1 .. Len(v) /\ \A i \in 1 .. Len(v) : v[i] \in Slots
    BY <1>2, LenProperties
  <2> HIDE DEF v
  <2>2. Range(v) \subseteq Slots
    BY <2>1 DEF Range
  <2> QED
    BY <2>2 DEF v
<1>4. UNION F \subseteq Slots
  BY <1>3
<1>5. IsFiniteSet(UNION F)
  BY <1>4, SlotsFinite, FS_Subset
<1> QED
  BY <1>1, <1>4, <1>5

\* One pop of evict().
LEMMA EvictPopKeeps ==
  ASSUME EngineBounds, Inv, evict_pop
  PROVE  Inv'
<1>1. PICK n \in nodes(tree) :
        /\ lru_leaf(tree, n)
        /\ tree' = drop_leaf(tree, n)
        /\ freeSlots' = sorted(freeSlots \o SetToSeq(leaf_slots(tree, n)))
        /\ toEvict' = Max({0, toEvict - node_length(tree, n)})
        /\ stage' = IF toEvict' = 0 THEN "retry" ELSE "evict"
  BY DEF evict_pop
<1>2. /\ stage = "evict"
      /\ UNCHANGED <<alloc, pageTable, freeRows, req, current, unwritten>>
  BY DEF evict_pop
<1>3. is_leaf(tree, n) /\ tree.ref[n] = 0
  BY <1>1 DEF lru_leaf, evict_candidates
<1>4. VariablesTyped /\ TreeSound /\ LengthsAgree /\ RowsApart /\ HeadsAliased /\ StageSound
  BY DEF Inv
<1>5. /\ TreeInv(tree, PageSet) /\ SizesAgree(tree)
      /\ CountsHandles(tree, Holders, handle_of) /\ ValuesTyped
  BY <1>4 DEF TreeSound
<1> DEFINE d == drop_leaf(tree, n)
<1>6. /\ DOMAIN d.value = DOMAIN tree.value \ edge(tree, n)
      /\ \A x \in DOMAIN d.value : d.value[x] = tree.value[x]
      /\ d.evictable = tree.evictable - node_length(tree, n)
  BY <1>5, DropFields DEF TreeInv
<1>7. TreeInv(d, PageSet)
  BY <1>3, <1>5, DropKeepsShape
<1>8. CountsHandles(d, Holders, handle_of)
  BY <1>3, <1>5, DropKeepsCounts
<1>9. /\ SizesAgree(d)
      /\ node_length(tree, n) \in Nat /\ node_length(tree, n) <= tree.evictable
  BY <1>3, <1>5, DropKeepsSizes
<1>10. d.evictable \in Nat /\ tree.evictable \in Nat
  BY <1>5, <1>7, <1>9, SizesAreNatural
<1>11. \A h \in Holders, x \in Seq(PageSet) \ {Root} :
         IsPrefix(x, handle_of[h]) => d.value[x] = tree.value[x]
  BY <1>3, <1>5, DropKeepsHandles
<1> HIDE DEF d
<1>12. tree' = d
  BY <1>1 DEF d
<1>13. Holders' = Holders /\ handle_of' = handle_of /\ \A r : Live(r)' <=> Live(r)
  BY <1>2 DEF Holders, handle_of, Live
<1>14. TreeSound'
  <2>1. ValuesTyped'
    BY <1>5, <1>6, <1>12 DEF ValuesTyped
  <2> QED
    BY <1>7, <1>8, <1>9, <1>12, <1>13, <2>1 DEF TreeSound
<1>15. toEvict' \in Nat /\ toEvict' <= d.evictable
  <2> DEFINE a == toEvict - node_length(tree, n)
  <2>1. toEvict \in Nat /\ toEvict <= tree.evictable
    BY <1>2, <1>4 DEF VariablesTyped, StageSound
  <2>2. a \in Int /\ a <= d.evictable
    BY <1>6, <1>9, <1>10, <2>1
  <2> HIDE DEF a
  <2>3. Max({0, a}) = IF 0 > a THEN 0 ELSE a
    BY <2>2, OfTwo
  <2>4. toEvict' = Max({0, a})
    BY <1>1 DEF a
  <2> QED
    BY <1>10, <2>2, <2>3, <2>4
<1>16. freeSlots' \in Seq(Slots)
  <2>1. /\ leaf_slots(tree, n) \in SUBSET Slots
        /\ SetToSeq(leaf_slots(tree, n)) \in Seq(Slots)
    BY <1>4, LeafSlots, SetAsList
  <2>2. Slots \in SUBSET Int /\ freeSlots \in Seq(Slots)
    BY <1>4 DEF Slots, VariablesTyped
  <2> QED
    BY <1>1, <2>1, <2>2, SortedUnion
<1>17. VariablesTyped'
  BY <1>1, <1>2, <1>4, <1>15, <1>16 DEF VariablesTyped
<1>18. LengthsAgree' /\ RowsApart'
  BY <1>2, <1>4, <1>13 DEF LengthsAgree, RowsApart
<1>19. HeadsAliased'
  <2> SUFFICES ASSUME NEW h \in Requests, Live(h)
               PROVE  \A pos \in 1 .. req'[h].cachedLen :
                        pageTable'[req'[h].row][pos] =
                          tree'.value[SubSeq(req'[h].handle, 1, page_of(pos))][offset_of(pos)]
    BY <1>13 DEF HeadsAliased
  <2>1. \A x \in (DOMAIN tree.value) \ {Root} :
          IsPrefix(x, handle_of[h]) => tree'.value[x] = tree.value[x]
    BY <1>5, <1>11, <1>12 DEF Holders, TreeInv
  <2> QED
    BY <1>2, <1>4, <2>1, HeadStays
<1>20. StageSound'
  <2>1. stage' # "idle" => current' \in Requests /\ Live(current)'
    BY <1>2, <1>4, <1>13 DEF StageSound
  <2>2. stage' = "evict" => toEvict' > 0
    BY <1>1, <1>15
  <2> QED
    BY <1>12, <1>15, <2>1, <2>2 DEF StageSound
<1> QED
  BY <1>14, <1>17, <1>18, <1>19, <1>20 DEF Inv

\* add_request raises: the pool is still short.
LEMMA AllocateFailsKeeps ==
  ASSUME EngineBounds, Inv, allocate_fails
  PROVE  Inv'
<1>1. /\ stage' = "idle" /\ current' = Nobody
      /\ UNCHANGED <<freeSlots, alloc, pageTable, freeRows, tree, req, toEvict, unwritten>>
  BY DEF allocate_fails
<1>2. VariablesTyped'
  BY <1>1 DEF Inv, VariablesTyped
<1>3. TreeSound' /\ LengthsAgree' /\ RowsApart' /\ HeadsAliased'
  BY <1>1, RequestsStay
<1>4. StageSound'
  BY <1>1 DEF StageSound
<1> QED
  BY <1>2, <1>3, <1>4 DEF Inv

\* A request that goes on: it keeps its row, its handle and its bounds, and its
\* tokens only grow.
LEMMA ForwardKeeps ==
  ASSUME EngineBounds, Inv, NEW r \in Requests, Live(r), stage = "idle",
         NEW new \in RequestRecords, req' = [req EXCEPT ![r] = new],
         new.phase \in {"prefill", "decode"},
         new.row = req[r].row, new.handle = req[r].handle, new.cachedLen = req[r].cachedLen,
         new.promptLen = req[r].promptLen, new.maxLen = req[r].maxLen,
         Len(req[r].ids) <= Len(new.ids), Len(new.ids) < new.maxLen,
         \A i \in 1 .. Len(req[r].ids) : req[r].ids[i] = new.ids[i],
         req[r].done <= new.done, new.done <= Len(new.ids),
         UNCHANGED <<freeSlots, alloc, pageTable, freeRows, tree, stage, current, toEvict>>,
         unwritten' \subseteq Slots
  PROVE  Inv'
<1>1. VariablesTyped /\ TreeSound /\ LengthsAgree /\ RowsApart /\ HeadsAliased
  BY DEF Inv
<1>2. /\ req'[r] = new
      /\ \A h \in Requests : h # r => req'[h] = req[h]
      /\ req' \in [Requests -> RequestRecords]
  BY <1>1 DEF VariablesTyped
<1>3. \A h \in Requests : Live(h)' <=> Live(h)
  BY <1>2 DEF Live
<1>4. Holders' = Holders /\ \A h \in Holders : handle_of'[h] = handle_of[h]
  <2>1. Live(r)' /\ req'[r].phase # "rejected" /\ req[r].phase # "rejected"
    BY <1>2 DEF Live
  <2>2. Holders' = Holders
    BY <1>2, <1>3, <2>1 DEF Holders
  <2> QED
    BY <1>2, <2>2 DEF Holders, handle_of
<1>5. TreeSound'
  BY <1>1, <1>4, TreeStays
<1>6. VariablesTyped'
  BY <1>1, <1>2 DEF VariablesTyped
<1>7. RowsApart'
  BY <1>1, <1>2, <1>3 DEF RowsApart
<1>8. HeadsAliased'
  <2> SUFFICES ASSUME NEW h \in Requests, Live(h)
               PROVE  \A pos \in 1 .. req'[h].cachedLen :
                        pageTable'[req'[h].row][pos] =
                          tree'.value[SubSeq(req'[h].handle, 1, page_of(pos))][offset_of(pos)]
    BY <1>3 DEF HeadsAliased
  <2>1. req'[h].row = req[h].row /\ req'[h].handle = req[h].handle
        /\ req'[h].cachedLen = req[h].cachedLen
    BY <1>2
  <2> QED
    BY <1>1, <2>1, HeadStays
<1>9. IsPrefix(new.handle, pages(new.ids))
  <2> DEFINE s == req[r].ids
             t == new.ids
  <2>1. s \in Seq(Tokens) /\ t \in Seq(Tokens) /\ new.handle \in Seq(PageSet)
    BY <1>1 DEF VariablesTyped, RequestRecords
  <2>2. IsPrefix(new.handle, pages(s))
    BY <1>1 DEF LengthsAgree
  <2> HIDE DEF s, t
  <2>3. Len(s) <= Len(t) /\ \A i \in 1 .. Len(s) : s[i] = t[i]
    BY DEF s, t
  <2>4. IsPrefix(pages(s), pages(t))
    BY <2>1, <2>3, PagesOfLonger
  <2>5. pages(s) \in Seq(PageSet) /\ pages(t) \in Seq(PageSet)
    BY <2>1, PagesMeaning
  <2> QED
    BY <2>1, <2>2, <2>4, <2>5, PrefixOrder DEF t
<1>10. LengthsAgree'
  <2> SUFFICES ASSUME NEW h \in Requests
               PROVE  /\ req'[h].cachedLen <= req'[h].promptLen
                      /\ req'[h].done <= Len(req'[h].ids)
                      /\ Live(h)' =>
                           /\ IsPrefix(req'[h].handle, pages(req'[h].ids))
                           /\ req'[h].cachedLen <= PageSize * Len(req'[h].handle)
                           /\ req'[h].cachedLen <= req'[h].done
                           /\ req'[h].promptLen <= Len(req'[h].ids)
                           /\ Len(req'[h].ids) < req'[h].maxLen
                           /\ req'[h].maxLen <= MaxSeqLen
    BY DEF LengthsAgree
  <2>1. CASE h = r
    <3>1. /\ new.cachedLen \in Nat /\ new.done \in Nat /\ req[r].done \in Nat
          /\ new.promptLen \in Nat /\ Len(new.ids) \in Nat /\ Len(req[r].ids) \in Nat
      BY <1>1, LenProperties DEF VariablesTyped, RequestRecords
    <3>2. /\ req[r].cachedLen <= req[r].promptLen
          /\ req[r].cachedLen <= PageSize * Len(req[r].handle)
          /\ req[r].cachedLen <= req[r].done
          /\ req[r].promptLen <= Len(req[r].ids)
          /\ req[r].maxLen <= MaxSeqLen
      BY <1>1 DEF LengthsAgree
    <3> QED
      BY <1>2, <1>9, <2>1, <3>1, <3>2
  <2>2. CASE h # r
    BY <1>1, <1>2, <1>3, <2>2 DEF LengthsAgree
  <2> QED
    BY <2>1, <2>2
<1>11. StageSound'
  BY DEF StageSound
<1> QED
  BY <1>5, <1>6, <1>7, <1>8, <1>10, <1>11 DEF Inv

\* A chunk of the prompt.
LEMMA PrefillChunkKeeps ==
  ASSUME EngineBounds, Inv, NEW r \in Requests, NEW n \in 1 .. MaxSeqLen, prefill_chunk(r, n)
  PROVE  Inv'
<1> DEFINE to == req[r].done + n
           new == [req[r] EXCEPT !.done = to]
<1>1. VariablesTyped /\ LengthsAgree
  BY DEF Inv
<1>2. /\ stage = "idle" /\ req[r].phase = "prefill" /\ to < req[r].promptLen
      /\ unwritten' \subseteq unwritten
      /\ req' = [req EXCEPT ![r].done = to]
      /\ UNCHANGED <<freeSlots, alloc, pageTable, freeRows, tree, stage, current, toEvict>>
  BY DEF prefill_chunk
<1>3. Live(r) /\ req[r] \in RequestRecords
  BY <1>1, <1>2 DEF Live, VariablesTyped
<1>4. req[r].done \in Nat /\ req[r].promptLen \in Nat /\ Len(req[r].ids) \in Nat /\ MaxSeqLen \in Nat
  BY <1>3, LenProperties DEF RequestRecords, EngineBounds
<1>5. req[r].promptLen <= Len(req[r].ids) /\ Len(req[r].ids) < req[r].maxLen
  BY <1>1, <1>3 DEF LengthsAgree
<1>6. to \in Nat /\ req[r].done <= to /\ to <= Len(req[r].ids)
  BY <1>2, <1>4, <1>5
<1>7. req' = [req EXCEPT ![r] = new]
  BY <1>2
<1> HIDE DEF to
<1>8. /\ new \in RequestRecords
      /\ new.phase = "prefill" /\ new.row = req[r].row /\ new.handle = req[r].handle
      /\ new.cachedLen = req[r].cachedLen /\ new.promptLen = req[r].promptLen
      /\ new.maxLen = req[r].maxLen /\ new.ids = req[r].ids /\ new.done = to
  BY <1>2, <1>3, <1>6 DEF RequestRecords
<1> HIDE DEF new
<1>9. unwritten' \subseteq Slots
  BY <1>1, <1>2 DEF VariablesTyped
<1>10. /\ Len(req[r].ids) <= Len(new.ids) /\ Len(new.ids) < new.maxLen
       /\ \A i \in 1 .. Len(req[r].ids) : req[r].ids[i] = new.ids[i]
       /\ req[r].done <= new.done /\ new.done <= Len(new.ids)
  BY <1>4, <1>5, <1>6, <1>8
<1>11. new.phase \in {"prefill", "decode"}
  BY <1>8
<1> QED
  BY <1>2, <1>3, <1>7, <1>8, <1>9, <1>10, <1>11, ForwardKeeps

\* A token is sampled and the request goes on.
LEMMA SampleKeeps ==
  ASSUME EngineBounds, Inv, NEW r \in Requests, NEW tok \in Tokens, sample(r, tok)
  PROVE  Inv'
<1> DEFINE to == Len(req[r].ids)
           ids == Append(req[r].ids, tok)
           new == [req[r] EXCEPT !.ids = ids, !.done = to, !.phase = "decode"]
<1>1. VariablesTyped /\ LengthsAgree
  BY DEF Inv
<1>2. /\ stage = "idle" /\ Live(r) /\ Len(ids) < req[r].maxLen
      /\ unwritten' \subseteq unwritten
      /\ req' = [req EXCEPT ![r].ids = ids, ![r].done = to, ![r].phase = "decode"]
      /\ UNCHANGED <<freeSlots, alloc, pageTable, freeRows, tree, stage, current, toEvict>>
  BY DEF sample
<1>3. req[r] \in RequestRecords
  BY <1>1 DEF VariablesTyped
<1>4. req[r].ids \in Seq(Tokens) /\ to \in Nat
  BY <1>3, LenProperties DEF RequestRecords
<1>5. /\ ids \in Seq(Tokens) /\ Len(ids) = to + 1
      /\ \A i \in 1 .. to : ids[i] = req[r].ids[i]
  BY <1>4, AppendProperties
<1>6. req[r].done <= to
  BY <1>1, <1>2 DEF LengthsAgree
<1>7. req' = [req EXCEPT ![r] = new]
  BY <1>1, <1>2 DEF VariablesTyped
<1> HIDE DEF to, ids
<1>8. /\ new \in RequestRecords
      /\ new.phase = "decode" /\ new.row = req[r].row /\ new.handle = req[r].handle
      /\ new.cachedLen = req[r].cachedLen /\ new.promptLen = req[r].promptLen
      /\ new.maxLen = req[r].maxLen /\ new.ids = ids /\ new.done = to
  BY <1>3, <1>4, <1>5 DEF RequestRecords, Phases
<1> HIDE DEF new
<1>9. unwritten' \subseteq Slots
  BY <1>1, <1>2 DEF VariablesTyped
<1>10. Len(req[r].ids) <= Len(new.ids) /\ new.done <= Len(new.ids)
       /\ \A i \in 1 .. Len(req[r].ids) : req[r].ids[i] = new.ids[i]
  BY <1>4, <1>5, <1>8 DEF to
<1> QED
  BY <1>2, <1>6, <1>7, <1>8, <1>9, <1>10, ForwardKeeps DEF to, ids

\* A request that ends: its handle is released, its row is free again, and the
\* tree keeps the slots of every page it held.
LEMMA EndKeeps ==
  ASSUME EngineBounds, Inv, NEW r \in Requests, Live(r), stage = "idle",
         NEW new \in RequestRecords, req' = [req EXCEPT ![r] = new],
         new.phase \in {"done", "aborted"},
         new.cachedLen <= new.promptLen, new.done <= Len(new.ids),
         TreeInv(tree', PageSet), SizesAgree(tree'),
         CountsHandles(tree', Holders \ {r}, handle_of), ValuesTyped',
         \A x \in DOMAIN tree.value : tree'.value[x] = tree.value[x],
         freeSlots' \in Seq(Slots), freeRows' = freeRows \union {req[r].row},
         alloc' = [alloc EXCEPT ![req[r].row] = <<>>], unwritten' \subseteq Slots,
         UNCHANGED <<pageTable, stage, current, toEvict>>
  PROVE  Inv'
<1>1. VariablesTyped /\ TreeSound /\ LengthsAgree /\ RowsApart /\ HeadsAliased
  BY DEF Inv
<1>2. /\ req'[r] = new
      /\ \A h \in Requests : h # r => req'[h] = req[h]
      /\ req' \in [Requests -> RequestRecords]
  BY <1>1 DEF VariablesTyped
<1>3. \A h \in Requests : Live(h)' <=> Live(h) /\ h # r
  BY <1>2 DEF Live
<1>4. Holders' = Holders \ {r} /\ \A h \in Holders \ {r} : handle_of'[h] = handle_of[h]
  <2>1. ~ Live(r)' /\ req'[r].phase # "rejected"
    BY <1>2 DEF Live
  <2>2. Holders' = Holders \ {r}
    BY <1>2, <1>3, <2>1 DEF Holders
  <2> QED
    BY <1>2, <2>2 DEF Holders, handle_of
<1>5. TreeSound'
  <2>1. CountsHandles(tree', Holders', handle_of')
    BY <1>4, SameHandles
  <2> QED
    BY <2>1 DEF TreeSound
<1>6. req[r].row \in Rows
  BY <1>1 DEF VariablesTyped, RequestRecords
<1>7. VariablesTyped'
  <2>1. alloc' \in [Rows -> Seq(Slots)]
    BY <1>1, EmptySeq DEF VariablesTyped
  <2> QED
    BY <1>1, <1>2, <1>6, <2>1 DEF VariablesTyped
<1>8. LengthsAgree'
  <2> SUFFICES ASSUME NEW h \in Requests
               PROVE  /\ req'[h].cachedLen <= req'[h].promptLen
                      /\ req'[h].done <= Len(req'[h].ids)
                      /\ Live(h)' =>
                           /\ IsPrefix(req'[h].handle, pages(req'[h].ids))
                           /\ req'[h].cachedLen <= PageSize * Len(req'[h].handle)
                           /\ req'[h].cachedLen <= req'[h].done
                           /\ req'[h].promptLen <= Len(req'[h].ids)
                           /\ Len(req'[h].ids) < req'[h].maxLen
                           /\ req'[h].maxLen <= MaxSeqLen
    BY DEF LengthsAgree
  <2>1. CASE h = r
    BY <1>2, <1>3, <2>1
  <2>2. CASE h # r
    BY <1>1, <1>2, <1>3, <2>2 DEF LengthsAgree
  <2> QED
    BY <2>1, <2>2
<1>9. RowsApart'
  BY <1>1, <1>2, <1>3 DEF RowsApart
<1>10. HeadsAliased'
  <2> SUFFICES ASSUME NEW h \in Requests, Live(h)'
               PROVE  \A pos \in 1 .. req'[h].cachedLen :
                        pageTable'[req'[h].row][pos] =
                          tree'.value[SubSeq(req'[h].handle, 1, page_of(pos))][offset_of(pos)]
    BY DEF HeadsAliased
  <2>1. Live(h) /\ req'[h] = req[h]
    BY <1>2, <1>3
  <2> QED
    BY <1>1, <2>1, HeadStays
<1>11. StageSound'
  BY DEF StageSound
<1> QED
  BY <1>5, <1>7, <1>8, <1>9, <1>10, <1>11 DEF Inv

\* abort_request.
LEMMA AbortRequestKeeps ==
  ASSUME EngineBounds, Inv, NEW r \in Requests, abort_request(r)
  PROVE  Inv'
<1> DEFINE row == req[r].row
           new == [req[r] EXCEPT !.phase = "aborted"]
<1>1. VariablesTyped /\ TreeSound /\ LengthsAgree
  BY DEF Inv
<1>2. /\ stage = "idle" /\ Live(r)
      /\ tree' = unlock_handle(tree, req[r].handle)
      /\ freeSlots' = sorted(freeSlots \o alloc[row])
      /\ alloc' = [alloc EXCEPT ![row] = <<>>]
      /\ freeRows' = freeRows \union {row}
      /\ req' = [req EXCEPT ![r].phase = "aborted"]
      /\ UNCHANGED <<pageTable, stage, current, toEvict, unwritten>>
  BY DEF abort_request, abort_unlocks
<1>3. r \in Holders /\ req[r] \in RequestRecords
  BY <1>1, <1>2 DEF Holders, VariablesTyped
<1>4. /\ TreeInv(tree', PageSet) /\ SizesAgree(tree')
      /\ CountsHandles(tree', Holders \ {r}, handle_of)
      /\ tree'.value = tree.value
  BY <1>1, <1>2, <1>3, ReleaseKeeps
<1>5. ValuesTyped'
  BY <1>1, <1>4 DEF TreeSound, ValuesTyped
<1>6. row \in Rows
  BY <1>3 DEF RequestRecords
<1>7. freeSlots' \in Seq(Slots)
  <2>1. Slots \in SUBSET Int /\ freeSlots \in Seq(Slots) /\ alloc[row] \in Seq(Slots)
    BY <1>1, <1>6 DEF Slots, VariablesTyped
  <2> QED
    BY <1>2, <2>1, SortedUnion
<1>8. req' = [req EXCEPT ![r] = new]
  BY <1>2
<1>9. /\ new \in RequestRecords /\ new.phase = "aborted"
      /\ new.cachedLen <= new.promptLen /\ new.done <= Len(new.ids)
  BY <1>1, <1>3 DEF RequestRecords, Phases, LengthsAgree
<1> HIDE DEF new
<1>10. unwritten' \subseteq Slots /\ new.phase \in {"done", "aborted"}
  BY <1>1, <1>2, <1>9 DEF VariablesTyped
<1> QED
  BY <1>2, <1>4, <1>5, <1>7, <1>8, <1>9, <1>10, EndKeeps

-----------------------------------------------------------------------------
(***************************************************************************)
(* A request that stops gives its pages to the tree.                       *)
(***************************************************************************)
\* A part of a list.
LEMMA Slice ==
  ASSUME NEW V, NEW s \in Seq(V), NEW a \in Nat \ {0}, NEW b \in Nat, b <= Len(s)
  PROVE  /\ SubSeq(s, a, b) \in Seq(V)
         /\ Len(SubSeq(s, a, b)) = IF a <= b THEN b - a + 1 ELSE 0
         /\ DOMAIN SubSeq(s, a, b) = 1 .. (b - a + 1)
         /\ \A i \in 1 .. (b - a + 1) : SubSeq(s, a, b)[i] = s[a + i - 1]
         /\ Range(SubSeq(s, a, b)) = {s[i] : i \in a .. b}
<1> DEFINE t == SubSeq(s, a, b)
<1>1. Len(s) \in Nat /\ \A i \in 1 .. Len(s) : s[i] \in V
  BY LenProperties
<1>2. \A i \in a .. b : s[i] \in V
  BY <1>1
<1>3. /\ t \in Seq(V) /\ Len(t) = (IF a <= b THEN b - a + 1 ELSE 0)
      /\ \A i \in 1 .. b - a + 1 : t[i] = s[a + i - 1]
  BY <1>2, SubSeqProperties
<1>4. DOMAIN t = 1 .. Len(t)
  BY <1>3, LenProperties
<1> HIDE DEF t
<1>5. DOMAIN t = 1 .. (b - a + 1)
  BY <1>3, <1>4
<1>6. Range(t) = {s[i] : i \in a .. b}
  <2> DEFINE C == 1 .. (b - a + 1)
             B == a .. b
  <2>1. Range(t) = {t[i] : i \in C}
    BY <1>5 DEF Range
  <2>2. \A i \in C : (a + i - 1) \in B /\ t[i] = s[a + i - 1]
    BY <1>3
  <2>3. \A i \in B : (i - a + 1) \in C /\ t[i - a + 1] = s[i]
    BY <1>3
  <2>4. (\A i \in C : \E j \in B : t[i] = s[j]) /\ (\A j \in B : \E i \in C : t[i] = s[j])
    BY <2>2, <2>3
  <2> HIDE DEF B, C
  <2>5. \A x : x \in {t[i] : i \in C} <=> x \in {s[i] : i \in B}
    BY <2>4
  <2> QED
    BY <2>1, <2>5 DEF B
<1> QED
  BY <1>3, <1>5, <1>6 DEF t

\* The whole sequence of a request that stops on tok, its pages that the tree
\* does not hold, and the tokens of those it does.
stopped(r, tok) == Append(req[r].ids, tok)
held(r, tok) == matched_pages(unlock_handle(tree, req[r].handle), pages(stopped(r, tok)))
given(r, tok) ==
  missing(unlock_handle(tree, req[r].handle), pages(stopped(r, tok)), PageSet)

\* The lengths of a request that stops.
LEMMA StoppedLengths ==
  ASSUME EngineBounds, Inv, NEW r \in Requests, Live(r), NEW tok \in Tokens
  PROVE  /\ req[r] \in RequestRecords /\ req[r].row \in Rows /\ r \in Holders
         /\ MaxSeqLen \in Nat /\ req[r].ids \in Seq(Tokens)
         /\ stopped(r, tok) \in Seq(Tokens)
         /\ Len(req[r].ids) \in Nat /\ Len(stopped(r, tok)) = Len(req[r].ids) + 1
         /\ \A i \in 1 .. Len(req[r].ids) : stopped(r, tok)[i] = req[r].ids[i]
         /\ Len(stopped(r, tok)) <= MaxSeqLen
         /\ pages(stopped(r, tok)) \in Seq(PageSet)
         /\ Len(pages(stopped(r, tok))) \in Nat
         /\ PageSize * Len(pages(stopped(r, tok))) = align_down(Len(stopped(r, tok)))
         /\ align_down(Len(stopped(r, tok))) \in 0 .. Len(stopped(r, tok))
         /\ held(r, tok) \in 0 .. Len(pages(stopped(r, tok)))
         /\ PageSize * held(r, tok) \in Nat
         /\ req[r].cachedLen \in Nat /\ req[r].cachedLen <= PageSize * held(r, tok)
         /\ PageSize * held(r, tok) <= align_down(Len(stopped(r, tok)))
<1> DEFINE ids == stopped(r, tok)
           p == pages(ids)
           q == req[r].handle
           u == unlock_handle(tree, q)
           k == held(r, tok)
<1>1. VariablesTyped /\ TreeSound /\ LengthsAgree
  BY DEF Inv
<1>2. req[r] \in RequestRecords /\ r \in Holders /\ MaxSeqLen \in Nat
  BY <1>1 DEF VariablesTyped, Holders, EngineBounds
<1>3. /\ req[r].ids \in Seq(Tokens) /\ Len(req[r].ids) \in Nat /\ req[r].row \in Rows
      /\ req[r].maxLen \in Nat /\ req[r].cachedLen \in Nat /\ q \in Seq(PageSet)
  BY <1>2, LenProperties DEF RequestRecords
<1>4. /\ ids \in Seq(Tokens) /\ Len(ids) = Len(req[r].ids) + 1
      /\ \A i \in 1 .. Len(req[r].ids) : ids[i] = req[r].ids[i]
  BY <1>3, AppendProperties DEF stopped
<1>5. /\ Len(req[r].ids) < req[r].maxLen /\ req[r].maxLen <= MaxSeqLen
      /\ IsPrefix(q, pages(req[r].ids)) /\ req[r].cachedLen <= PageSize * Len(q)
  BY <1>1 DEF LengthsAgree
<1>6. Len(ids) <= MaxSeqLen
  BY <1>2, <1>3, <1>4, <1>5
<1> HIDE DEF ids
<1>7. /\ p \in Seq(PageSet) /\ Len(p) \in Nat
      /\ PageSize * Len(p) = align_down(Len(ids)) /\ align_down(Len(ids)) \in 0 .. Len(ids)
  BY <1>4, PagesMeaning
<1>8. IsPrefix(q, p)
  <2> DEFINE s == req[r].ids
  <2>1. s \in Seq(Tokens) /\ Len(s) <= Len(ids) /\ \A i \in 1 .. Len(s) : s[i] = ids[i]
    BY <1>3, <1>4
  <2> HIDE DEF s
  <2>2. IsPrefix(pages(s), p)
    BY <1>4, <2>1, PagesOfLonger
  <2>3. pages(s) \in Seq(PageSet)
    BY <2>1, PagesMeaning
  <2> QED
    BY <1>3, <1>5, <1>7, <2>2, <2>3, PrefixOrder DEF s
<1>9. TreeInv(u, PageSet) /\ u.value = tree.value
  BY <1>1, <1>2, ReleaseKeeps
<1>10. q = Root \/ q \in DOMAIN u.value
  <2>1. handle_of[r] = q
    BY DEF handle_of
  <2>2. q \in nodes(tree) \union {Root}
    BY <1>1, <1>2, <2>1 DEF TreeSound, CountsHandles
  <2> QED
    BY <1>1, <1>9, <2>2 DEF TreeSound, TreeInv
<1> HIDE DEF p, q, u
<1>11. k = matched_pages(u, p)
  BY DEF held, ids, p, q, u
<1>12. /\ k \in 0 .. Len(p)
       /\ Len(matched_path(u, p)) = k /\ matched_path(u, p) \in Seq(PageSet)
       /\ \A x \in DOMAIN u.value : IsPrefix(x, p) => IsPrefix(x, matched_path(u, p))
  BY <1>7, <1>9, <1>11, MatchedPath
<1>13. Len(q) <= k /\ Len(q) \in Nat
  <2>1. IsPrefix(q, matched_path(u, p))
    BY <1>8, <1>10, <1>12, RootPrefix
  <2>2. Len(q) <= Len(matched_path(u, p))
    BY <1>3, <1>12, <2>1, PrefixOrder DEF q
  <2> QED
    BY <1>3, <1>12, <2>2, LenProperties DEF q
<1> HIDE DEF k
<1>14. /\ PageSize * Len(q) <= PageSize * k /\ PageSize * k <= PageSize * Len(p)
       /\ PageSize * Len(q) \in Int /\ PageSize * k \in Nat
  <2>1. Len(q) \in Int /\ k \in Int /\ Len(p) \in Int /\ k <= Len(p) /\ k \in Nat
    BY <1>7, <1>12, <1>13
  <2>2. \A a, b \in Int : PageSize * a \in Int /\ (a <= b <=> PageSize * a <= PageSize * b)
    BY Multiples, Zenon
  <2>3. PageSize * k \in Nat
    BY <2>1, PageAssumption
  <2> QED
    BY <1>13, <2>1, <2>2, <2>3, Zenon
<1>15. req[r].cachedLen <= PageSize * k /\ PageSize * k <= align_down(Len(ids))
  <2>1. PageSize * k <= align_down(Len(ids))
    BY <1>7, <1>14
  <2> DEFINE a == PageSize * Len(q)
             b == PageSize * k
  <2>2. /\ a \in Int /\ b \in Int /\ a <= b
        /\ req[r].cachedLen \in Int /\ req[r].cachedLen <= a
    BY <1>3, <1>5, <1>14 DEF q
  <2> HIDE DEF a, b
  <2>3. req[r].cachedLen <= b
    BY <2>2
  <2> QED
    BY <2>1, <2>3 DEF b
<1> QED
  BY <1>2, <1>3, <1>4, <1>6, <1>7, <1>12, <1>14, <1>15 DEF ids, p, k

\* The pages a stopping request gives to the tree, and the slots they are in.
LEMMA GivenPages ==
  ASSUME EngineBounds, Inv, NEW r \in Requests, NEW tok \in Tokens, finish(r, tok)
  PROVE  /\ DOMAIN tree'.value = DOMAIN tree.value \union given(r, tok)
         /\ DOMAIN tree.value \cap given(r, tok) = {}
         /\ \A x \in DOMAIN tree.value : tree'.value[x] = tree.value[x]
         /\ \A x \in given(r, tok) :
              /\ x \in Seq(PageSet) \ {Root} /\ IsPrefix(x, pages(stopped(r, tok)))
              /\ Len(x) \in (held(r, tok) + 1) .. Len(pages(stopped(r, tok)))
              /\ tree'.value[x] \in Seq(Slots) /\ Len(tree'.value[x]) = PageSize
              /\ \A j \in 1 .. PageSize :
                   /\ position(Len(x), j) \in Positions
                   /\ position(Len(x), j) > PageSize * held(r, tok)
                   /\ position(Len(x), j) <= align_down(Len(stopped(r, tok)))
                   /\ tree'.value[x][j] = pageTable[req[r].row][position(Len(x), j)]
         /\ TreeInv(tree', PageSet) /\ SizesAgree(tree')
         /\ CountsHandles(tree', Holders \ {r}, handle_of)
<1> DEFINE ids == stopped(r, tok)
           p == pages(ids)
           row == req[r].row
           u == unlock_handle(tree, req[r].handle)
           k == held(r, tok)
           slices == [i \in 1 .. Len(p) |->
                        SubSeq(pageTable[row], (i - 1) * PageSize + 1, i * PageSize)]
           t == insert_prefix(u, p, slices, clock + 1)
<1>1. Live(r) /\ tree' = t
  BY DEF finish, stopped
<1>2. VariablesTyped /\ TreeSound
  BY DEF Inv
<1>3. /\ row \in Rows /\ r \in Holders /\ MaxSeqLen \in Nat
      /\ p \in Seq(PageSet) /\ Len(p) \in Nat
      /\ PageSize * Len(p) <= MaxSeqLen /\ PageSize * Len(p) = align_down(Len(ids))
      /\ k \in 0 .. Len(p)
  <2>1. /\ PageSize * Len(p) = align_down(Len(ids))
        /\ align_down(Len(ids)) \in 0 .. Len(ids) /\ Len(ids) <= MaxSeqLen
        /\ Len(req[r].ids) \in Nat /\ Len(ids) = Len(req[r].ids) + 1 /\ MaxSeqLen \in Nat
    BY <1>1, StoppedLengths
  <2>2. align_down(Len(ids)) <= MaxSeqLen
    <3> HIDE DEF ids
    <3> QED
      BY <2>1
  <2> QED
    BY <1>1, <2>1, <2>2, StoppedLengths
<1>4. /\ TreeInv(u, PageSet) /\ SizesAgree(u)
      /\ CountsHandles(u, Holders \ {r}, handle_of)
      /\ u.value = tree.value
  BY <1>2, <1>3, ReleaseKeeps
<1>5. pageTable[row] \in Seq(Slots) /\ Len(pageTable[row]) = MaxSeqLen
  <2>1. pageTable[row] \in [1 .. MaxSeqLen -> Slots]
    BY <1>2, <1>3 DEF VariablesTyped, Positions
  <2> QED
    BY <1>3, <2>1, FunctionIsSeq
<1>6. given(r, tok) = missing(u, p, PageSet) /\ k = matched_pages(u, p)
  BY DEF given, held
<1> HIDE DEF row, u, p, ids, k
<1>7. /\ TreeInv(t, PageSet) /\ SizesAgree(t)
      /\ CountsHandles(t, Holders \ {r}, handle_of)
  BY <1>3, <1>4, InsertKeepsShape, InsertKeepsCounts, InsertKeepsSizes
<1> DEFINE new == missing(u, p, PageSet)
<1>8. ASSUME NEW i \in 1 .. Len(p)
       PROVE  /\ slices[i] \in Seq(Slots) /\ Len(slices[i]) = PageSize
              /\ \A j \in 1 .. PageSize :
                   /\ position(i, j) \in 1 .. MaxSeqLen
                   /\ position(i, j) <= PageSize * Len(p)
                   /\ slices[i][j] = pageTable[row][position(i, j)]
  <2> DEFINE f == pageTable[row]
             n == Len(p)
  <2>1. /\ n \in Nat /\ PageSize * n <= Len(f) /\ f \in Seq(Slots) /\ i \in 1 .. n
        /\ Len(f) = MaxSeqLen
    BY <1>3, <1>5
  <2>2. slices[i] = SubSeq(f, (i - 1) * PageSize + 1, i * PageSize)
    OBVIOUS
  <2> HIDE DEF f, n, slices
  <2>3. LET page == SubSeq(f, (i - 1) * PageSize + 1, i * PageSize)
        IN  /\ page \in Seq(Slots) /\ Len(page) = PageSize
            /\ \A j \in 1 .. PageSize :
                 /\ position(i, j) \in 1 .. Len(f)
                 /\ position(i, j) <= PageSize * n
                 /\ page[j] = f[position(i, j)]
    BY <2>1, PageSlice
  <2> QED
    BY <2>1, <2>2, <2>3 DEF f, n
<1> HIDE DEF slices
<1>9. /\ DOMAIN t.value = DOMAIN u.value \union new
      /\ DOMAIN u.value \cap new = {}
      /\ \A x \in DOMAIN u.value : t.value[x] = u.value[x]
      /\ \A x \in new : t.value[x] = slices[Len(x)]
  BY <1>3, <1>4, InsertFacts
<1>10. \A x \in new : x \in Seq(PageSet) \ {Root} /\ IsPrefix(x, p)
                     /\ Len(x) \in (k + 1) .. Len(p)
  BY <1>3, <1>4, <1>6, MissingPages DEF missing
<1> HIDE DEF new
<1> HIDE DEF t
<1>11. ASSUME NEW x \in new
       PROVE  /\ t.value[x] \in Seq(Slots) /\ Len(t.value[x]) = PageSize
              /\ \A j \in 1 .. PageSize :
                   /\ position(Len(x), j) \in Positions
                   /\ position(Len(x), j) > PageSize * k
                   /\ position(Len(x), j) <= align_down(Len(ids))
                   /\ t.value[x][j] = pageTable[row][position(Len(x), j)]
  <2> DEFINE i == Len(x)
  <2>1. i \in 1 .. Len(p) /\ i \in Nat \ {0} /\ k < i /\ k \in Nat
    BY <1>3, <1>10, <1>11
  <2>2. t.value[x] = slices[i]
    BY <1>9, <1>11
  <2> HIDE DEF i
  <2>3. ASSUME NEW j \in 1 .. PageSize
        PROVE  position(i, j) > PageSize * k
    <3>1. ~ (position(i, j) <= PageSize * k)
      BY <2>1, Paging
    <3>2. position(i, j) \in Nat
      BY <2>1, Paging
    <3>3. PageSize * k \in Nat
      BY <2>1, PageAssumption
    <3> HIDE DEF k
    <3> QED
      BY <3>1, <3>2, <3>3
  <2>4. /\ slices[i] \in Seq(Slots) /\ Len(slices[i]) = PageSize
        /\ \A j \in 1 .. PageSize :
             /\ position(i, j) \in Positions
             /\ position(i, j) <= align_down(Len(ids))
             /\ slices[i][j] = pageTable[row][position(i, j)]
    BY <1>3, <1>8, <2>1 DEF Positions
  <2> QED
    BY <2>2, <2>3, <2>4 DEF i
<1> QED
  BY <1>1, <1>4, <1>6, <1>7, <1>9, <1>10, <1>11 DEF row, p, ids, k, new

\* finish: unlock, insert, give the rest back.
LEMMA FinishKeeps ==
  ASSUME EngineBounds, Inv, NEW r \in Requests, NEW tok \in Tokens, finish(r, tok)
  PROVE  Inv'
<1> DEFINE ids == stopped(r, tok)
           row == req[r].row
           inserted == PageSize * held(r, tok)
           new == [req[r] EXCEPT !.ids = ids, !.done = Len(req[r].ids), !.phase = "done"]
<1>1. VariablesTyped /\ TreeSound /\ LengthsAgree
  BY DEF Inv
<1>2. /\ stage = "idle" /\ Live(r)
      /\ freeSlots' = sorted(freeSlots \o freeable(row, req[r].cachedLen, inserted, Len(ids)))
      /\ alloc' = [alloc EXCEPT ![row] = <<>>]
      /\ freeRows' = freeRows \union {row}
      /\ req' = [req EXCEPT ![r].ids = ids, ![r].done = Len(req[r].ids), ![r].phase = "done"]
      /\ UNCHANGED <<pageTable, stage, current, toEvict>>
  BY DEF finish, stopped, held
<1>3. unwritten' \subseteq Slots
  <2>1. unwritten' \subseteq unwritten \union {slot_of(r, Len(ids))}
    BY DEF finish, stopped
  <2>2. /\ Len(ids) = Len(req[r].ids) + 1 /\ Len(req[r].ids) \in Nat
        /\ Len(ids) <= MaxSeqLen /\ MaxSeqLen \in Nat /\ row \in Rows
    BY <1>2, StoppedLengths
  <2> HIDE DEF ids
  <2>3. Len(ids) \in Positions
    BY <2>2 DEF Positions
  <2>4. slot_of(r, Len(ids)) \in Slots
    BY <1>1, <2>2, <2>3 DEF VariablesTyped, slot_of
  <2> QED
    BY <1>1, <2>1, <2>4 DEF VariablesTyped
<1>4. /\ TreeInv(tree', PageSet) /\ SizesAgree(tree')
      /\ CountsHandles(tree', Holders \ {r}, handle_of)
      /\ \A x \in DOMAIN tree.value : tree'.value[x] = tree.value[x]
  BY GivenPages
<1>5. ValuesTyped'
  <2> SUFFICES ASSUME NEW x \in DOMAIN tree'.value
               PROVE  tree'.value[x] \in Seq(Slots) /\ Len(tree'.value[x]) = PageSize
    BY DEF ValuesTyped
  <2>1. CASE x \in DOMAIN tree.value
    BY <1>1, <1>4, <2>1 DEF TreeSound, ValuesTyped
  <2>2. CASE x \in given(r, tok)
    BY <2>2, GivenPages
  <2> QED
    BY <2>1, <2>2, GivenPages
<1>6. /\ req[r] \in RequestRecords /\ row \in Rows /\ MaxSeqLen \in Nat
      /\ ids \in Seq(Tokens) /\ Len(req[r].ids) \in Nat /\ Len(ids) = Len(req[r].ids) + 1
      /\ Len(ids) <= MaxSeqLen /\ req[r].cachedLen \in Nat
      /\ inserted \in Nat /\ inserted <= Len(ids)
  <2>1. /\ inserted \in Nat /\ inserted <= align_down(Len(ids))
        /\ align_down(Len(ids)) \in 0 .. Len(ids)
        /\ Len(req[r].ids) \in Nat /\ Len(ids) = Len(req[r].ids) + 1
    BY <1>2, StoppedLengths
  <2>2. inserted <= Len(ids)
    <3> HIDE DEF ids, inserted
    <3> QED
      BY <2>1
  <2> QED
    BY <1>2, <2>1, <2>2, StoppedLengths
<1> HIDE DEF ids, row, inserted
<1>7. freeSlots' \in Seq(Slots)
  <2> DEFINE f == pageTable[row]
             tail == SubSeq(f, Len(ids) + 1, MaxSeqLen)
             part == SubSeq(f, req[r].cachedLen + 1, inserted)
  <2>1. f \in Seq(Slots) /\ Len(f) = MaxSeqLen
    <3>1. f \in [1 .. MaxSeqLen -> Slots]
      BY <1>1, <1>6 DEF VariablesTyped, Positions
    <3> QED
      BY <1>6, <3>1, FunctionIsSeq
  <2> HIDE DEF f
  <2>2. /\ (Len(ids) + 1) \in Nat \ {0} /\ (req[r].cachedLen + 1) \in Nat \ {0}
        /\ inserted <= Len(f) /\ MaxSeqLen <= Len(f)
    BY <1>6, <2>1, SMTT(60)
  <2>3. tail \in Seq(Slots) /\ part \in Seq(Slots)
    BY <1>6, <2>1, <2>2, Slice
  <2>4. freeable(row, req[r].cachedLen, inserted, Len(ids)) = part \o tail
    BY DEF freeable, f
  <2> HIDE DEF part, tail
  <2>5. part \o tail \in Seq(Slots)
    BY <2>3, ConcatProperties
  <2>6. Slots \in SUBSET Int /\ freeSlots \in Seq(Slots)
    BY <1>1 DEF Slots, VariablesTyped
  <2> QED
    BY <1>2, <2>4, <2>5, <2>6, SortedUnion
<1>8. req' = [req EXCEPT ![r] = new]
  BY <1>1, <1>2 DEF VariablesTyped
<1>9. /\ new \in RequestRecords /\ new.phase = "done" /\ new.ids = ids
      /\ new.done = Len(req[r].ids)
      /\ new.cachedLen = req[r].cachedLen /\ new.promptLen = req[r].promptLen
  BY <1>6 DEF RequestRecords, Phases
<1> HIDE DEF new
<1>10. /\ new.phase \in {"done", "aborted"} /\ new.cachedLen <= new.promptLen
       /\ new.done <= Len(new.ids)
  BY <1>1, <1>6, <1>9 DEF LengthsAgree
<1> QED
  BY <1>2, <1>3, <1>4, <1>5, <1>7, <1>8, <1>9, <1>10, EndKeeps DEF row

-----------------------------------------------------------------------------
(***************************************************************************)
(* What the engine promises whether or not an allocation fails.            *)
(***************************************************************************)
\* Every step keeps the invariant.
LEMMA StepInv ==
  ASSUME EngineBounds, Inv, [Next]_vars
  PROVE  Inv'
<1>1. ASSUME NEW r \in Requests, NEW ids \in Prompts, NEW m \in OutputLens, add_request(r, ids, m)
      PROVE  Inv'
  BY <1>1, AddRequestKeeps
<1>2. ASSUME NEW r \in Requests, NEW ids \in Prompts, reject_request(r, ids)
      PROVE  Inv'
  BY <1>2, RejectRequestKeeps
<1>3. ASSUME NEW r \in Requests, NEW n \in 1 .. MaxSeqLen, prefill_chunk(r, n)
      PROVE  Inv'
  BY <1>3, PrefillChunkKeeps
<1>4. ASSUME NEW r \in Requests, NEW tok \in Tokens, sample(r, tok)
      PROVE  Inv'
  BY <1>4, SampleKeeps
<1>5. ASSUME NEW r \in Requests, NEW tok \in Tokens, finish(r, tok)
      PROVE  Inv'
  BY <1>5, FinishKeeps
<1>6. ASSUME NEW r \in Requests, abort_request(r)
      PROVE  Inv'
  BY <1>6, AbortRequestKeeps
<1>7. CASE Allocation
  BY <1>7, AllocateKeeps, BeginEvictKeeps, EvictPopKeeps, AllocateFailsKeeps DEF Allocation
<1>8. CASE UNCHANGED vars
  <2>1. /\ UNCHANGED <<freeSlots, alloc, pageTable, freeRows, tree, req, stage, current,
                       toEvict, unwritten>>
    BY <1>8 DEF vars
  <2>2. TreeSound' /\ LengthsAgree' /\ RowsApart' /\ HeadsAliased'
    BY <2>1, RequestsStay
  <2>3. VariablesTyped' /\ StageSound'
    BY <2>1 DEF Inv, VariablesTyped, StageSound, Live
  <2> QED
    BY <2>2, <2>3 DEF Inv
<1> QED
  BY <1>1, <1>2, <1>3, <1>4, <1>5, <1>6, <1>7, <1>8 DEF Next, Operation

\* The invariant gives the types.
LEMMA InvGivesTypes ==
  ASSUME Inv
  PROVE  TypeOK
<1>1. VariablesTyped /\ TreeSound /\ LengthsAgree
  BY DEF Inv
<1>2. \A n \in nodes(tree) : tree.ref[n] \in Nat
  BY <1>1, CountsMeaning DEF TreeSound
<1>3. tree.evictable \in Nat /\ tree.protected \in Nat
  BY <1>1, SizesAreNatural DEF TreeSound
<1>4. ASSUME NEW r \in Requests
      PROVE  /\ req[r].phase \in Phases /\ req[r].row \in Rows
             /\ req[r].cachedLen \in 0 .. req[r].promptLen
             /\ req[r].done <= Len(req[r].ids)
  BY <1>1 DEF VariablesTyped, RequestRecords, LengthsAgree
<1> QED
  BY <1>1, <1>2, <1>3, <1>4 DEF TypeOK, VariablesTyped

\* A reference count counts locked handles, and evict() finds a leaf.
LEMMA InvGivesLocks ==
  ASSUME Inv
  PROVE  LocksAreHandles /\ EvictionPossible
<1>1. /\ TreeInv(tree, PageSet) /\ CountsHandles(tree, Holders, handle_of)
      /\ SizesAgree(tree)
  BY DEF Inv, TreeSound
<1>2. LocksAreHandles
  <2>1. \A n : {h \in Holders : IsPrefix(n, handle_of[h])} =
               {r \in Requests : (Live(r) \/ req[r].phase = "rejected") /\ IsPrefix(n, req[r].handle)}
    BY DEF Holders, handle_of
  <2> QED
    BY <1>1, <2>1 DEF LocksAreHandles, CountsHandles
<1>3. stage = "evict" => evict_candidates(tree) # {}
  <2> SUFFICES ASSUME stage = "evict" PROVE evict_candidates(tree) # {}
    OBVIOUS
  <2>1. tree.evictable \in Nat
    BY <1>1, SizesAreNatural
  <2>2. toEvict \in Nat /\ toEvict > 0 /\ toEvict <= tree.evictable
    BY DEF Inv, StageSound, VariablesTyped
  <2>3. tree.evictable > 0
    BY <2>1, <2>2
  <2> QED
    BY <1>1, <2>3, LeafToEvict
<1> QED
  BY <1>1, <1>2, <1>3 DEF EvictionPossible

\* A live request's row and handle, page by page of its reused prefix.
LEMMA InvGivesPinned ==
  ASSUME EngineBounds, Inv
  PROVE  ReusedPrefixPinned
<1> SUFFICES ASSUME NEW r \in Requests, Live(r)
             PROVE  LET p == pages(SubSeq(req[r].ids, 1, req[r].cachedLen))
                    IN  \A k \in 1 .. Len(p) :
                          /\ SubSeq(p, 1, k) \in DOMAIN tree.value
                          /\ tree.value[SubSeq(p, 1, k)] =
                               SubSeq(pageTable[req[r].row], (k - 1) * PageSize + 1, k * PageSize)
  BY DEF ReusedPrefixPinned
<1> DEFINE ids == req[r].ids
           c == req[r].cachedLen
           q == req[r].handle
           f == pageTable[req[r].row]
           s == SubSeq(ids, 1, c)
           p == pages(s)
<1>1. VariablesTyped /\ TreeSound /\ LengthsAgree /\ HeadsAliased
  BY DEF Inv
<1>2. /\ ids \in Seq(Tokens) /\ Len(ids) \in Nat /\ c \in Nat /\ q \in Seq(PageSet)
      /\ req[r].row \in Rows /\ MaxSeqLen \in Nat /\ Len(q) \in Nat /\ req[r].maxLen \in Nat
  BY <1>1, LenProperties DEF VariablesTyped, RequestRecords, EngineBounds
<1>3. /\ IsPrefix(q, pages(ids)) /\ c <= PageSize * Len(q)
      /\ c <= Len(ids) /\ c <= MaxSeqLen
  <2>1. /\ IsPrefix(q, pages(ids)) /\ c <= PageSize * Len(q)
        /\ c <= req[r].promptLen /\ req[r].promptLen <= Len(ids)
        /\ Len(ids) < req[r].maxLen /\ req[r].maxLen <= MaxSeqLen
    BY <1>1 DEF LengthsAgree
  <2>2. req[r].promptLen \in Nat
    BY <1>1 DEF VariablesTyped, RequestRecords
  <2>3. c <= Len(ids) /\ c <= MaxSeqLen
    <3> HIDE DEF c, ids
    <3> QED
      BY <1>2, <2>1, <2>2 DEF c, ids
  <2> QED
    BY <2>1, <2>3
<1>4. f \in Seq(Slots) /\ Len(f) = MaxSeqLen
  <2>1. f \in [1 .. MaxSeqLen -> Slots]
    BY <1>1, <1>2 DEF VariablesTyped, Positions
  <2> QED
    BY <1>2, <2>1, FunctionIsSeq
<1>5. \A pos \in 1 .. c : f[pos] = tree.value[SubSeq(q, 1, page_of(pos))][offset_of(pos)]
  BY <1>1 DEF HeadsAliased
<1>6. r \in Holders /\ ValuesTyped
  BY <1>1 DEF Holders, TreeSound
<1> HIDE DEF ids, c, f
<1>7. s \in Seq(Tokens) /\ Len(s) = c /\ \A i \in 1 .. c : s[i] = ids[i]
  <2>1. /\ s \in Seq(Tokens) /\ Len(s) = (IF 1 <= c THEN c - 1 + 1 ELSE 0)
        /\ \A i \in 1 .. (c - 1 + 1) : s[i] = ids[1 + i - 1]
    BY <1>2, <1>3, Slice
  <2> QED
    BY <1>2, <2>1
<1> HIDE DEF s
<1>8. /\ p \in Seq(PageSet) /\ Len(p) \in Nat
      /\ PageSize * Len(p) = align_down(c) /\ align_down(c) \in 0 .. c
      /\ pages(ids) \in Seq(PageSet)
  BY <1>2, <1>7, PagesMeaning
<1>9. IsPrefix(p, pages(ids))
  BY <1>2, <1>3, <1>7, PagesOfLonger
<1> HIDE DEF p
<1>10. Len(p) <= Len(q)
  <2>1. \A a, b \in Int : PageSize * a \in Int /\ (a <= b <=> PageSize * a <= PageSize * b)
    BY Multiples, Zenon
  <2>2. Len(p) \in Int /\ Len(q) \in Int
    BY <1>2, <1>8
  <2> DEFINE a == PageSize * Len(p)
             b == PageSize * Len(q)
  <2>3. /\ a \in Int /\ b \in Int
        /\ Len(p) <= Len(q) <=> a <= b
    BY <2>1, <2>2, Zenon
  <2>4. a <= c /\ c <= b
    BY <1>2, <1>3, <1>8
  <2> HIDE DEF a, b
  <2>5. a <= b
    BY <1>2, <2>3, <2>4
  <2> QED
    BY <2>3, <2>5
<1>11. IsPrefix(p, q)
  BY <1>2, <1>3, <1>8, <1>9, <1>10, PrefixOrder
<1>12. ASSUME NEW k \in 1 .. Len(p)
       PROVE  /\ SubSeq(p, 1, k) \in DOMAIN tree.value
              /\ tree.value[SubSeq(p, 1, k)] = SubSeq(f, (k - 1) * PageSize + 1, k * PageSize)
  <2> DEFINE x == SubSeq(p, 1, k)
             slice == SubSeq(f, (k - 1) * PageSize + 1, k * PageSize)
             v == tree.value[x]
  <2>1. k \in 0 .. Len(p) /\ k \in 0 .. Len(q) /\ k \in 1 .. Len(q) /\ k \in Nat \ {0}
    BY <1>2, <1>8, <1>10
  <2>2. x = SubSeq(q, 1, k)
    <3>1. x \in Seq(PageSet) /\ Len(x) = k /\ IsPrefix(x, p)
      BY <1>8, <2>1, PrefixCut
    <3> HIDE DEF x, q
    <3>2. IsPrefix(x, q)
      BY <1>2, <1>8, <1>11, <3>1, PrefixOrder
    <3>3. q \in Seq(PageSet)
      BY <1>2 DEF q
    <3> QED
      BY <3>1, <3>2, <3>3, PrefixCut DEF q
  <2>3. x \in DOMAIN tree.value
    BY <1>1, <1>6, <2>1, <2>2, HandlePages
  <2>4. v \in Seq(Slots) /\ Len(v) = PageSize
    BY <1>6, <2>3 DEF ValuesTyped
  <2>5. /\ slice \in Seq(Slots) /\ Len(slice) = PageSize
        /\ \A j \in 1 .. PageSize :
             /\ position(k, j) <= PageSize * Len(p)
             /\ slice[j] = f[position(k, j)]
    <3>1. PageSize * Len(p) <= Len(f)
      BY <1>2, <1>3, <1>4, <1>8
    <3> QED
      BY <1>4, <1>8, <3>1, PageSlice
  <2>6. \A j \in 1 .. PageSize : slice[j] = v[j]
    <3> TAKE j \in 1 .. PageSize
    <3>1. /\ position(k, j) \in Nat \ {0}
          /\ page_of(position(k, j)) = k /\ offset_of(position(k, j)) = j
      BY <2>1, Paging
    <3>2. position(k, j) \in 1 .. c
      <4> DEFINE a == PageSize * Len(p)
                 b == position(k, j)
      <4>1. a \in 0 .. c /\ b \in Nat \ {0} /\ b <= a /\ c \in Nat
        BY <1>2, <1>8, <2>5, <3>1
      <4> HIDE DEF a, b
      <4>2. b \in 1 .. c
        BY <4>1
      <4> QED
        BY <4>2 DEF b
    <3>3. f[position(k, j)] = tree.value[SubSeq(q, 1, k)][j]
      BY <1>5, <3>1, <3>2
    <3> QED
      BY <2>2, <2>5, <3>3
  <2> HIDE DEF v, slice, x
  <2>7. v = slice
    BY <2>4, <2>5, <2>6, SeqEqual
  <2> QED
    BY <2>3, <2>7 DEF v, slice, x
<1> QED
  BY <1>12 DEF p, s, ids, c, f

\* For every workload, pool and page size, failed allocations included: the
\* reference counts are the locked handles, the sizes agree with the tree and
\* evict() always has a leaf to pop, and the cached pages a live request reads
\* through its row stay in the tree, in those slots.
THEOREM EngineIsSound ==
  ASSUME EngineBounds
  PROVE  Spec => [](TypeOK /\ LocksAreHandles /\ EvictionPossible /\ ReusedPrefixPinned)
<1>1. Init => Inv
  BY InitInv
<1>2. Inv /\ [Next]_vars => Inv'
  BY StepInv
<1>3. Inv => TypeOK /\ LocksAreHandles /\ EvictionPossible /\ ReusedPrefixPinned
  BY InvGivesTypes, InvGivesLocks, InvGivesPinned
<1> QED
  BY <1>1, <1>2, <1>3, PTL DEF Spec

-----------------------------------------------------------------------------
(***************************************************************************)
(* Who owns a slot and what is in it, as long as no add_request fails for  *)
(* want of slots: a request that failed stays in the queue with whatever   *)
(* its row mapped before, and finishing it frees slots it never had.       *)
(***************************************************************************)
Adding(r) == stage # "idle" /\ r = current

\* A request the scheduler can run has the slots of its allocation, in order,
\* behind its aliased head; nobody else has an allocation.
SlotsMapped ==
  /\ \A r \in Requests : Live(r) /\ ~ Adding(r) =>
       \A pos \in (req[r].cachedLen + 1) .. MaxSeqLen :
         /\ pos - req[r].cachedLen \in DOMAIN alloc[req[r].row]
         /\ pageTable[req[r].row][pos] = alloc[req[r].row][pos - req[r].cachedLen]
  /\ \A row \in freeRows : alloc[row] = <<>>
  /\ stage # "idle" => /\ alloc[req[current].row] = <<>>
                       /\ req[current].done = req[current].cachedLen

\* No slot is in two places.
SlotsApart ==
  /\ IsInjective(freeSlots)
  /\ \A row \in Rows :
       /\ IsInjective(alloc[row])
       /\ Range(alloc[row]) \cap Range(freeSlots) = {}
  /\ \A x \in DOMAIN tree.value :
       /\ IsInjective(tree.value[x])
       /\ Range(tree.value[x]) \cap Range(freeSlots) = {}
       /\ \A row \in Rows : Range(tree.value[x]) \cap Range(alloc[row]) = {}
  /\ \A x, y \in DOMAIN tree.value :
       x # y => Range(tree.value[x]) \cap Range(tree.value[y]) = {}
  /\ \A row, other \in Rows :
       row # other => Range(alloc[row]) \cap Range(alloc[other]) = {}

\* A cached slot holds what was computed for the path that leads to it.
TreeContents ==
  \A x \in DOMAIN tree.value : \A j \in 1 .. PageSize :
    \/ kv[tree.value[x][j]] = text(x, position(Len(x), j))
    \/ tree.value[x][j] \in unwritten

\* A request's own slots hold what was computed for its own tokens.
OwnContents ==
  \A r \in Requests : Live(r) =>
    \A pos \in (req[r].cachedLen + 1) .. req[r].done :
      kv[slot_of(r, pos)] = SubSeq(req[r].ids, 1, pos)

SlotInv == SlotsMapped /\ SlotsApart /\ TreeContents /\ OwnContents

\* The slots behind a request's head are its own, each at one position, and
\* neither free nor cached nor another request's.
LEMMA OwnSlots ==
  ASSUME EngineBounds, Inv, SlotsMapped, SlotsApart,
         NEW r \in Requests, Live(r), ~ Adding(r)
  PROVE  LET own == (req[r].cachedLen + 1) .. MaxSeqLen
         IN  /\ req[r].row \in Rows
             /\ \A pos \in own : slot_of(r, pos) \in Range(alloc[req[r].row])
             /\ \A pos \in own : slot_of(r, pos) \in Slots
             /\ \A pos, other \in own : slot_of(r, pos) = slot_of(r, other) => pos = other
             /\ \A pos \in own, x \in DOMAIN tree.value : slot_of(r, pos) \notin Range(tree.value[x])
             /\ \A pos \in own : slot_of(r, pos) \notin Range(freeSlots)
             /\ \A pos \in own, row \in Rows :
                  row # req[r].row => slot_of(r, pos) \notin Range(alloc[row])
<1> DEFINE own == (req[r].cachedLen + 1) .. MaxSeqLen
           row == req[r].row
           c == req[r].cachedLen
           a == alloc[row]
<1>1. VariablesTyped
  BY DEF Inv
<1>2. row \in Rows /\ c \in Nat /\ MaxSeqLen \in Nat
  BY <1>1 DEF VariablesTyped, RequestRecords, EngineBounds
<1>3. a \in Seq(Slots) /\ DOMAIN a = 1 .. Len(a) /\ \A i \in 1 .. Len(a) : a[i] \in Slots
  <2>1. a \in Seq(Slots)
    BY <1>1, <1>2 DEF VariablesTyped
  <2> HIDE DEF a
  <2> QED
    BY <2>1, LenProperties
<1>4. \A pos \in own : pos - c \in DOMAIN a /\ slot_of(r, pos) = a[pos - c]
  BY DEF SlotsMapped, slot_of
<1>5. IsInjective(a)
  BY <1>2 DEF SlotsApart
<1> HIDE DEF a
<1>6. \A pos \in own : slot_of(r, pos) \in Range(a) /\ slot_of(r, pos) \in Slots
  BY <1>3, <1>4 DEF Range
<1>7. ASSUME NEW pos \in own, NEW other \in own, slot_of(r, pos) = slot_of(r, other)
      PROVE  pos = other
  <2>1. pos - c = other - c
    BY <1>4, <1>5, <1>7 DEF IsInjective
  <2> QED
    BY <1>2, <2>1
<1>8. /\ \A x \in DOMAIN tree.value : Range(tree.value[x]) \cap Range(a) = {}
      /\ Range(a) \cap Range(freeSlots) = {}
      /\ \A other \in Rows : other # row => Range(a) \cap Range(alloc[other]) = {}
  BY <1>2 DEF SlotsApart, a
<1> HIDE DEF own
<1>9. /\ \A pos \in own, x \in DOMAIN tree.value : slot_of(r, pos) \notin Range(tree.value[x])
      /\ \A pos \in own : slot_of(r, pos) \notin Range(freeSlots)
      /\ \A pos \in own, other \in Rows :
           other # row => slot_of(r, pos) \notin Range(alloc[other])
  BY <1>6, <1>8
<1> QED
  BY <1>2, <1>6, <1>7, <1>9 DEF own, a

\* The slots of a page of the tree.
LEMMA PageSlots ==
  ASSUME Inv, NEW x \in DOMAIN tree.value
  PROVE  /\ \A j \in 1 .. PageSize : tree.value[x][j] \in Range(tree.value[x])
         /\ \A j \in 1 .. PageSize : tree.value[x][j] \in Slots
         /\ Range(tree.value[x]) = {tree.value[x][j] : j \in 1 .. PageSize}
         /\ DOMAIN tree.value[x] = 1 .. PageSize
<1> DEFINE v == tree.value[x]
<1>1. v \in Seq(Slots) /\ Len(v) = PageSize
  BY DEF Inv, TreeSound, ValuesTyped
<1> HIDE DEF v
<1>2. DOMAIN v = 1 .. PageSize /\ \A j \in 1 .. PageSize : v[j] \in Slots
  BY <1>1, LenProperties
<1> QED
  BY <1>2 DEF v, Range

\* The empty engine.
LEMMA InitSlotInv ==
  ASSUME EngineBounds, Init
  PROVE  SlotInv
<1>1. \A r \in Requests : ~ Live(r)
  BY DEF Init, Live, NoRequest
<1>2. DOMAIN tree.value = {} /\ stage = "idle" /\ \A row \in Rows : alloc[row] = <<>>
  BY EmptyTreeIsSound DEF Init
<1>3. IsInjective(freeSlots)
  BY DEF Init, IsInjective
<1>4. Range(<<>>) = {} /\ IsInjective(<<>>)
  BY EmptySeq DEF Range, IsInjective
<1>5. freeRows \subseteq Rows
  BY DEF Init
<1>6. SlotsMapped
  BY <1>1, <1>2, <1>5 DEF SlotsMapped
<1>7. SlotsApart
  BY <1>2, <1>3, <1>4 DEF SlotsApart
<1> QED
  BY <1>1, <1>2, <1>6, <1>7 DEF SlotInv, TreeContents, OwnContents

\* A request reads its own tokens' K/V, through its head and behind it.
LEMMA SlotInvGivesHistory ==
  ASSUME EngineBounds, Inv, SlotInv
  PROVE  HistoryIntact
<1> SUFFICES ASSUME NEW r \in Requests, Live(r), NEW pos \in 1 .. req[r].done
             PROVE  \/ kv[slot_of(r, pos)] = SubSeq(req[r].ids, 1, pos)
                    \/ slot_of(r, pos) \in unwritten
  BY DEF HistoryIntact
<1>1. VariablesTyped /\ TreeSound /\ LengthsAgree /\ HeadsAliased
  BY DEF Inv
<1>2. /\ req[r].ids \in Seq(Tokens) /\ req[r].handle \in Seq(PageSet)
      /\ req[r].cachedLen \in Nat /\ req[r].done \in Nat
  BY <1>1 DEF VariablesTyped, RequestRecords
<1>3. CASE pos > req[r].cachedLen
  <2>1. pos \in (req[r].cachedLen + 1) .. req[r].done
    BY <1>2, <1>3
  <2> QED
    BY <2>1 DEF SlotInv, OwnContents
<1>4. CASE ~ (pos > req[r].cachedLen)
  <2> DEFINE q == req[r].handle
             k == page_of(pos)
             j == offset_of(pos)
             x == SubSeq(q, 1, k)
  <2>1. pos \in 1 .. req[r].cachedLen /\ pos \in Nat \ {0}
    BY <1>2, <1>4
  <2>2. /\ k \in 1 .. Len(q) /\ j \in 1 .. PageSize
        /\ x \in DOMAIN tree.value
    BY <1>1, <2>1, HeadPages
  <2>3. slot_of(r, pos) = tree.value[x][j]
    BY <1>1, <2>1 DEF HeadsAliased, slot_of
  <2>4. position(k, j) = pos /\ k \in Nat \ {0}
    BY <2>1, Paging
  <2>5. IsPrefix(q, pages(req[r].ids)) /\ pages(req[r].ids) \in Seq(PageSet)
    BY <1>1, <1>2, PagesMeaning DEF LengthsAgree
  <2>6. q \in Seq(PageSet) /\ Len(q) \in Nat
    BY <1>2, LenProperties
  <2> HIDE DEF q, k, j
  <2>7. x \in Seq(PageSet) /\ Len(x) = k /\ IsPrefix(x, q)
    <3>1. k \in 0 .. Len(q)
      BY <2>2, <2>6
    <3> QED
      BY <2>6, <3>1, PrefixCut
  <2> HIDE DEF x
  <2>8. IsPrefix(x, pages(req[r].ids))
    BY <2>5, <2>6, <2>7, PrefixOrder
  <2>9. pos \in 0 .. (PageSize * Len(x))
    <3>1. position(k, j) <= PageSize * k
      BY <2>2, <2>4, Paging
    <3>2. PageSize * k \in Nat
      BY <2>4, PageAssumption
    <3> QED
      BY <2>1, <2>4, <2>7, <3>1, <3>2
  <2>10. text(x, pos) = SubSeq(req[r].ids, 1, pos)
    BY <1>2, <2>7, <2>8, <2>9, TextOfPages
  <2>11. \/ kv[tree.value[x][j]] = text(x, position(Len(x), j))
         \/ tree.value[x][j] \in unwritten
    BY <2>2 DEF SlotInv, TreeContents, x
  <2> QED
    BY <2>3, <2>4, <2>7, <2>10, <2>11
<1> QED
  BY <1>3, <1>4

\* The tree's pages and the other requests keep their slots and contents.
LEMMA SlotsRest ==
  ASSUME EngineBounds, Inv, SlotInv,
         tree'.value = tree.value, freeSlots' = freeSlots, alloc' = alloc, kv' = kv,
         unwritten' = unwritten
  PROVE  SlotsApart' /\ TreeContents'
<1> QED
  BY DEF SlotInv, SlotsApart, TreeContents

\* match and lock move no slot.
LEMMA MatchMovesNothing ==
  ASSUME EngineBounds, Inv, NEW ids \in Prompts
  PROVE  locked_match(ids).value = tree.value
<1> DEFINE p == pages(ids)
           q == matched_path(tree, p)
           w == tree_walk(tree, p, clock + 1)
<1>1. p \in Seq(PageSet) /\ TreeInv(tree, PageSet)
  BY PagesMeaning DEF EngineBounds, Inv, TreeSound
<1>2. w.value = tree.value /\ TreeInv(w, PageSet)
  BY <1>1, WalkFacts, WalkKeepsShape
<1>3. lock_handle(w, q).value = w.value
  BY <1>2, LockFields DEF TreeInv
<1> QED
  BY <1>2, <1>3 DEF locked_match

\* add_request matches, locks and takes a row.
LEMMA AddRequestKeepsSlots ==
  ASSUME EngineBounds, Inv, SlotInv, NEW r \in Requests, NEW ids \in Prompts,
         NEW m \in OutputLens, add_request(r, ids, m)
  PROVE  SlotInv'
<1> DEFINE row == Min(freeRows)
           q == matched_path(tree, pages(ids))
           new == admitted(row, ids, m)
           hit == matched_indices(tree, q)
<1>1. /\ stage = "idle" /\ req[r].phase = "new" /\ freeRows # {}
      /\ tree' = locked_match(ids)
      /\ freeRows' = freeRows \ {row}
      /\ req' = [req EXCEPT ![r] = new]
      /\ pageTable' = [pageTable EXCEPT ![row] =
                         [pos \in Positions |-> IF pos <= new.cachedLen THEN hit[pos] ELSE @[pos]]]
      /\ stage' = "alloc" /\ current' = r
      /\ freeSlots' = freeSlots /\ alloc' = alloc /\ kv' = kv
      /\ unwritten' = unwritten
  BY DEF add_request
<1>2. VariablesTyped /\ TreeSound /\ RowsApart
  BY DEF Inv
<1>3. row \in freeRows /\ row \in Rows
  BY <1>1, <1>2, RowTaken DEF VariablesTyped
<1>4. new.phase = "prefill" /\ new.row = row /\ new.done = new.cachedLen /\ new.handle = q
      /\ new.cachedLen \in Nat
  BY <1>2, <1>3, AdmittedIsSound DEF RequestRecords
<1>5. tree'.value = tree.value
  BY <1>1, MatchMovesNothing
<1> HIDE DEF row, q, new, hit
<1>6. /\ req'[r] = new
      /\ \A h \in Requests : h # r => req'[h] = req[h]
  BY <1>1, <1>2 DEF VariablesTyped
<1>7. ~ Live(r) /\ \A h \in Requests : h # r => (Live(h)' <=> Live(h))
  BY <1>1, <1>6 DEF Live
<1>8. \A h \in Requests : Live(h) => h # r /\ pageTable'[req[h].row] = pageTable[req[h].row]
  <2> SUFFICES ASSUME NEW h \in Requests, Live(h)
               PROVE  h # r /\ pageTable'[req[h].row] = pageTable[req[h].row]
    OBVIOUS
  <2>1. h # r /\ req[h].row # row
    BY <1>2, <1>3, <1>7 DEF RowsApart
  <2> QED
    BY <1>1, <1>2, <2>1 DEF VariablesTyped
<1>9. SlotsMapped'
  <2>1. ASSUME NEW h \in Requests, Live(h)', ~ Adding(h)',
               NEW pos \in (req'[h].cachedLen + 1) .. MaxSeqLen
        PROVE  /\ pos - req'[h].cachedLen \in DOMAIN alloc'[req'[h].row]
               /\ pageTable'[req'[h].row][pos] = alloc'[req'[h].row][pos - req'[h].cachedLen]
    <3>1. h # r
      BY <1>1, <2>1 DEF Adding
    <3>2. Live(h) /\ ~ Adding(h) /\ req'[h] = req[h]
      BY <1>1, <1>6, <1>7, <2>1, <3>1 DEF Adding
    <3> QED
      BY <1>1, <1>8, <2>1, <3>2 DEF SlotInv, SlotsMapped
  <2>2. \A free \in freeRows : alloc[free] = <<>>
    BY DEF SlotInv, SlotsMapped
  <2> QED
    BY <1>1, <1>3, <1>4, <1>6, <2>1, <2>2 DEF SlotsMapped
<1>10. OwnContents'
  <2> SUFFICES ASSUME NEW h \in Requests, Live(h)',
                      NEW pos \in (req'[h].cachedLen + 1) .. req'[h].done
               PROVE  kv'[slot_of(h, pos)'] = SubSeq(req'[h].ids, 1, pos)
    BY DEF OwnContents
  <2>1. CASE h = r
    BY <1>4, <1>6, <2>1
  <2>2. CASE h # r
    <3>1. Live(h) /\ req'[h] = req[h]
      BY <1>6, <1>7, <2>2
    <3>2. slot_of(h, pos)' = slot_of(h, pos)
      BY <1>8, <3>1 DEF slot_of
    <3> QED
      BY <1>1, <3>1, <3>2 DEF SlotInv, OwnContents
  <2> QED
    BY <2>1, <2>2
<1> QED
  BY <1>1, <1>5, <1>9, <1>10, SlotsRest DEF SlotInv

\* add_request without a row leaves the slots alone.
LEMMA RejectRequestKeepsSlots ==
  ASSUME EngineBounds, Inv, SlotInv, NEW r \in Requests, NEW ids \in Prompts,
         reject_request(r, ids)
  PROVE  SlotInv'
<1> DEFINE q == matched_path(tree, pages(ids))
<1>1. /\ stage = "idle" /\ req[r].phase = "new"
      /\ tree' = locked_match(ids)
      /\ req' = [req EXCEPT ![r] = [NoRequest EXCEPT !.phase = "rejected", !.handle = q]]
      /\ UNCHANGED <<freeSlots, alloc, pageTable, freeRows, stage, current, toEvict, kv, unwritten>>
  BY DEF reject_request
<1>2. VariablesTyped
  BY DEF Inv
<1>3. tree'.value = tree.value
  BY <1>1, MatchMovesNothing
<1> HIDE DEF q
<1>4. /\ req'[r].phase = "rejected"
      /\ \A h \in Requests : h # r => req'[h] = req[h]
  BY <1>1, <1>2 DEF VariablesTyped, NoRequest
<1>5. \A h \in Requests : Live(h)' => h # r /\ Live(h) /\ req'[h] = req[h]
  BY <1>4 DEF Live
<1>6. SlotsMapped'
  BY <1>1, <1>5 DEF SlotInv, SlotsMapped, Adding
<1>7. OwnContents'
  BY <1>1, <1>5 DEF SlotInv, OwnContents, slot_of
<1> QED
  BY <1>1, <1>3, <1>6, <1>7, SlotsRest DEF SlotInv

\* The allocation: the head of the free list goes to the row.
LEMMA AllocateKeepsSlots ==
  ASSUME EngineBounds, Inv, SlotInv, allocate
  PROVE  SlotInv'
<1> DEFINE row == req[current].row
           cached == req[current].cachedLen
           n == Len(freeSlots)
           slots == SubSeq(freeSlots, 1, need)
           rest == SubSeq(freeSlots, need + 1, n)
<1>1. /\ stage # "idle" /\ need <= n
      /\ freeSlots' = rest
      /\ alloc' = [alloc EXCEPT ![row] = slots]
      /\ pageTable' = [pageTable EXCEPT ![row] = mapped(row, cached, slots)]
      /\ kv' = [s \in Slots |-> IF s \in Range(slots) THEN <<>> ELSE kv[s]]
      /\ stage' = "idle"
      /\ tree' = tree /\ req' = req /\ freeRows' = freeRows /\ unwritten' = unwritten
  BY DEF allocate
<1>2. /\ row \in Rows /\ cached \in 0 .. MaxSeqLen
      /\ need \in Nat /\ MaxSeqLen - cached <= need /\ MaxSeqLen \in Nat
      /\ current \in Requests /\ Live(current)
  BY <1>1, NeedCovers DEF EngineBounds
<1>3. VariablesTyped /\ RowsApart /\ LengthsAgree
  BY DEF Inv
<1>4. freeSlots \in Seq(Slots) /\ n \in Nat /\ DOMAIN freeSlots = 1 .. n
  BY <1>3, LenProperties DEF VariablesTyped
<1>5. /\ DOMAIN slots = 1 .. need /\ \A i \in 1 .. need : slots[i] = freeSlots[i]
      /\ Range(slots) = {freeSlots[i] : i \in 1 .. need}
  <2>1. /\ DOMAIN slots = 1 .. (need - 1 + 1)
        /\ \A i \in 1 .. (need - 1 + 1) : slots[i] = freeSlots[1 + i - 1]
        /\ Range(slots) = {freeSlots[i] : i \in 1 .. need}
    BY <1>1, <1>2, <1>4, Slice
  <2> HIDE DEF slots
  <2> QED
    BY <1>2, <2>1
<1>6. /\ DOMAIN rest = 1 .. (n - need)
      /\ \A i \in 1 .. (n - need) : rest[i] = freeSlots[need + i]
      /\ Range(rest) = {freeSlots[i] : i \in (need + 1) .. n}
  <2> DEFINE a == need + 1
  <2>1. a \in Nat \ {0} /\ n <= Len(freeSlots) /\ n - a + 1 = n - need
    BY <1>2, <1>4
  <2> HIDE DEF n
  <2>2. /\ DOMAIN SubSeq(freeSlots, a, n) = 1 .. (n - a + 1)
        /\ \A i \in 1 .. (n - a + 1) : SubSeq(freeSlots, a, n)[i] = freeSlots[a + i - 1]
        /\ Range(SubSeq(freeSlots, a, n)) = {freeSlots[i] : i \in a .. n}
    <3> HIDE DEF a
    <3> QED
      BY <1>4, <2>1, Slice
  <2>3. \A i \in 1 .. (n - need) : a + i - 1 = need + i
    BY <1>2
  <2> QED
    BY <2>1, <2>2, <2>3
<1>7. \A i, j \in 1 .. n : freeSlots[i] = freeSlots[j] => i = j
  BY <1>4 DEF SlotInv, SlotsApart, IsInjective
<1> HIDE DEF slots, rest, n
<1>8. IsInjective(slots) /\ IsInjective(rest) /\ Range(slots) \cap Range(rest) = {}
  <2>1. \A i, j \in 1 .. need : slots[i] = slots[j] => i = j
    BY <1>1, <1>2, <1>4, <1>5, <1>7
  <2>2. \A i, j \in 1 .. (n - need) : rest[i] = rest[j] => i = j
    BY <1>1, <1>2, <1>4, <1>6, <1>7
  <2>3. \A i \in 1 .. need, j \in (need + 1) .. n : freeSlots[i] # freeSlots[j]
    BY <1>1, <1>2, <1>4, <1>7
  <2> QED
    BY <1>5, <1>6, <2>1, <2>2, <2>3 DEF IsInjective
<1>9. Range(slots) \subseteq Range(freeSlots) /\ Range(rest) \subseteq Range(freeSlots)
  <2>1. Range(freeSlots) = {freeSlots[i] : i \in 1 .. n}
    BY <1>4 DEF Range
  <2>2. 1 .. need \subseteq 1 .. n /\ (need + 1) .. n \subseteq 1 .. n
    BY <1>1, <1>2, <1>4
  <2> QED
    BY <1>5, <1>6, <2>1, <2>2
<1>10. /\ alloc'[row] = slots
       /\ \A other \in Rows : other # row => alloc'[other] = alloc[other]
  BY <1>1, <1>2, <1>3 DEF VariablesTyped
<1>11. SlotsApart'
  BY <1>1, <1>8, <1>9, <1>10 DEF SlotInv, SlotsApart
<1>12. TreeContents'
  <2> SUFFICES ASSUME NEW x \in DOMAIN tree.value, NEW j \in 1 .. PageSize
               PROVE  kv'[tree.value[x][j]] = kv[tree.value[x][j]]
    BY <1>1 DEF SlotInv, TreeContents
  <2>1. tree.value[x][j] \in Range(tree.value[x]) /\ tree.value[x][j] \in Slots
    BY PageSlots
  <2>2. tree.value[x][j] \notin Range(slots)
    BY <1>9, <2>1 DEF SlotInv, SlotsApart
  <2> QED
    BY <1>1, <2>1, <2>2
<1>13. \A h \in Requests : Live(h) /\ h # current =>
         /\ ~ Adding(h) /\ req[h].row # row /\ req[h].row \in Rows
         /\ pageTable'[req[h].row] = pageTable[req[h].row]
  BY <1>1, <1>2, <1>3 DEF Adding, RowsApart, VariablesTyped, RequestRecords
<1>14. \A pos \in Positions :
         pageTable'[row][pos] = IF pos > cached THEN slots[pos - cached] ELSE pageTable[row][pos]
  BY <1>1, <1>2, <1>3 DEF VariablesTyped, mapped
<1>15. SlotsMapped'
  <2>1. ASSUME NEW h \in Requests, Live(h), NEW pos \in (req[h].cachedLen + 1) .. MaxSeqLen
        PROVE  /\ pos - req[h].cachedLen \in DOMAIN alloc'[req[h].row]
               /\ pageTable'[req[h].row][pos] = alloc'[req[h].row][pos - req[h].cachedLen]
    <3>1. CASE h = current
      <4>1. pos \in Positions /\ pos > cached /\ pos - cached \in 1 .. need
        BY <1>2, <2>1, <3>1 DEF Positions
      <4> QED
        BY <1>5, <1>10, <1>14, <3>1, <4>1
    <3>2. CASE h # current
      BY <1>10, <1>13, <2>1, <3>2 DEF SlotInv, SlotsMapped
    <3> QED
      BY <3>1, <3>2
  <2>2. \A free \in freeRows : alloc'[free] = <<>>
    <3>1. row \notin freeRows /\ freeRows \subseteq Rows
      BY <1>2, <1>3 DEF RowsApart, VariablesTyped
    <3> QED
      BY <1>10, <3>1 DEF SlotInv, SlotsMapped
  <2> QED
    BY <1>1, <2>1, <2>2 DEF SlotsMapped, Live
<1>16. OwnContents'
  <2> SUFFICES ASSUME NEW h \in Requests, Live(h), NEW pos \in (req[h].cachedLen + 1) .. req[h].done
               PROVE  kv'[slot_of(h, pos)'] = SubSeq(req[h].ids, 1, pos)
    BY <1>1 DEF OwnContents, Live
  <2>1. CASE h = current
    <3>1. req[h].done = req[h].cachedLen /\ req[h].cachedLen \in Nat
      BY <1>1, <1>2, <2>1 DEF SlotInv, SlotsMapped
    <3> QED
      BY <3>1
  <2>2. CASE h # current
    <3>1. slot_of(h, pos)' = slot_of(h, pos)
      BY <1>1, <1>13, <2>2 DEF slot_of
    <3>2. pos \in (req[h].cachedLen + 1) .. MaxSeqLen
      <4>1. /\ req[h].cachedLen \in Nat /\ req[h].done \in Nat /\ Len(req[h].ids) \in Nat
            /\ req[h].maxLen \in Nat
        BY <1>3, LenProperties DEF VariablesTyped, RequestRecords
      <4>2. req[h].done <= Len(req[h].ids) /\ Len(req[h].ids) < req[h].maxLen /\ req[h].maxLen <= MaxSeqLen
        BY <1>3 DEF LengthsAgree
      <4> QED
        BY <1>2, <4>1, <4>2
    <3>3. slot_of(h, pos) \in Slots /\ slot_of(h, pos) \notin Range(freeSlots)
      BY <1>13, <2>2, <3>2, OwnSlots DEF SlotInv
    <3>4. kv'[slot_of(h, pos)] = kv[slot_of(h, pos)]
      BY <1>1, <1>9, <3>3
    <3> QED
      BY <3>1, <3>4 DEF SlotInv, OwnContents
  <2> QED
    BY <2>1, <2>2
<1> QED
  BY <1>11, <1>12, <1>15, <1>16 DEF SlotInv

\* Sequences that begin alike have the same prefixes.
LEMMA SamePrefix ==
  ASSUME NEW V, NEW s \in Seq(V), NEW t \in Seq(V), Len(s) <= Len(t),
         \A i \in 1 .. Len(s) : s[i] = t[i], NEW n \in 1 .. Len(s)
  PROVE  SubSeq(t, 1, n) = SubSeq(s, 1, n)
<1>1. Len(s) \in Nat /\ Len(t) \in Nat
  BY LenProperties
<1>2. n \in Nat /\ n <= Len(s) /\ n <= Len(t) /\ 1 \in Nat \ {0}
  BY <1>1
<1>3. /\ SubSeq(s, 1, n) \in Seq(V) /\ Len(SubSeq(s, 1, n)) = (IF 1 <= n THEN n - 1 + 1 ELSE 0)
      /\ \A i \in 1 .. (n - 1 + 1) : SubSeq(s, 1, n)[i] = s[1 + i - 1]
  BY <1>2, Slice
<1>4. /\ SubSeq(t, 1, n) \in Seq(V) /\ Len(SubSeq(t, 1, n)) = (IF 1 <= n THEN n - 1 + 1 ELSE 0)
      /\ \A i \in 1 .. (n - 1 + 1) : SubSeq(t, 1, n)[i] = t[1 + i - 1]
  BY <1>2, Slice
<1>5. /\ Len(SubSeq(s, 1, n)) = n /\ Len(SubSeq(t, 1, n)) = n
      /\ \A i \in 1 .. n : SubSeq(t, 1, n)[i] = SubSeq(s, 1, n)[i]
  BY <1>1, <1>2, <1>3, <1>4
<1> QED
  BY <1>3, <1>4, <1>5, SeqEqual

\* The positions of a request that have been forwarded are in its row.
LEMMA DoneInRow ==
  ASSUME EngineBounds, Inv, NEW r \in Requests, Live(r)
  PROVE  /\ req[r].cachedLen \in Nat /\ req[r].done \in Nat /\ MaxSeqLen \in Nat
         /\ req[r].ids \in Seq(Tokens) /\ Len(req[r].ids) \in Nat
         /\ req[r].cachedLen <= req[r].done /\ req[r].done <= Len(req[r].ids)
         /\ Len(req[r].ids) < MaxSeqLen
<1>1. VariablesTyped /\ LengthsAgree
  BY DEF Inv
<1>2. /\ req[r].cachedLen \in Nat /\ req[r].done \in Nat /\ MaxSeqLen \in Nat
      /\ req[r].ids \in Seq(Tokens) /\ Len(req[r].ids) \in Nat /\ req[r].maxLen \in Nat
  BY <1>1, LenProperties DEF VariablesTyped, RequestRecords, EngineBounds
<1>3. /\ req[r].cachedLen <= req[r].done /\ req[r].done <= Len(req[r].ids)
      /\ Len(req[r].ids) < req[r].maxLen /\ req[r].maxLen <= MaxSeqLen
  BY <1>1 DEF LengthsAgree
<1> QED
  BY <1>2, <1>3

\* A forward writes the request's own slots with the K/V of its own tokens, and
\* no slot of the tree or of another request.
LEMMA ForwardWrites ==
  ASSUME EngineBounds, Inv, SlotInv, NEW r \in Requests, Live(r), stage = "idle",
         NEW to \in Nat, req[r].done <= to, to <= Len(req[r].ids),
         kv' = forwarded(r, req[r].done + 1, to)
  PROVE  /\ \A x \in DOMAIN tree.value, j \in 1 .. PageSize :
              /\ kv'[tree.value[x][j]] = kv[tree.value[x][j]]
              /\ tree.value[x][j] \notin written_slots(r, req[r].done + 1, to)
         /\ \A h \in Requests : Live(h) /\ h # r =>
              \A pos \in (req[h].cachedLen + 1) .. req[h].done :
                kv'[slot_of(h, pos)] = kv[slot_of(h, pos)]
         /\ \A pos \in (req[r].cachedLen + 1) .. to :
              kv'[slot_of(r, pos)] = SubSeq(req[r].ids, 1, pos)
<1> DEFINE c == req[r].cachedLen
           from == req[r].done + 1
           W == written_slots(r, from, to)
           own == (c + 1) .. MaxSeqLen
<1>1. /\ c \in Nat /\ req[r].done \in Nat /\ MaxSeqLen \in Nat /\ Len(req[r].ids) \in Nat
      /\ c <= req[r].done /\ Len(req[r].ids) < MaxSeqLen
  BY DoneInRow
<1>2. \A h \in Requests : ~ Adding(h)
  BY DEF Adding
<1>3. /\ req[r].row \in Rows
      /\ \A pos \in own : slot_of(r, pos) \in Range(alloc[req[r].row])
      /\ \A pos \in own : slot_of(r, pos) \in Slots
      /\ \A pos, other \in own : slot_of(r, pos) = slot_of(r, other) => pos = other
      /\ \A pos \in own, x \in DOMAIN tree.value : slot_of(r, pos) \notin Range(tree.value[x])
  BY <1>2, OwnSlots DEF SlotInv
<1>4. \A pos \in from .. to : pos \in own
  BY <1>1
<1>5. \A s \in Slots \ W : kv'[s] = kv[s]
  BY DEF forwarded, written_slots
<1>6. \A x \in DOMAIN tree.value, j \in 1 .. PageSize :
        kv'[tree.value[x][j]] = kv[tree.value[x][j]] /\ tree.value[x][j] \notin W
  <2> SUFFICES ASSUME NEW x \in DOMAIN tree.value, NEW j \in 1 .. PageSize
               PROVE  kv'[tree.value[x][j]] = kv[tree.value[x][j]] /\ tree.value[x][j] \notin W
    OBVIOUS
  <2>1. tree.value[x][j] \in Range(tree.value[x]) /\ tree.value[x][j] \in Slots
    BY PageSlots
  <2>2. tree.value[x][j] \notin W
    BY <1>3, <1>4, <2>1 DEF written_slots
  <2> HIDE DEF W
  <2> QED
    BY <1>5, <2>1, <2>2
<1>7. ASSUME NEW h \in Requests, Live(h), h # r, NEW pos \in (req[h].cachedLen + 1) .. req[h].done
      PROVE  kv'[slot_of(h, pos)] = kv[slot_of(h, pos)]
  <2>1. pos \in (req[h].cachedLen + 1) .. MaxSeqLen
    <3>1. /\ req[h].cachedLen \in Nat /\ req[h].done \in Nat /\ MaxSeqLen \in Nat
          /\ req[h].done <= Len(req[h].ids) /\ Len(req[h].ids) < MaxSeqLen
          /\ Len(req[h].ids) \in Nat
      BY <1>7, DoneInRow
    <3> QED
      BY <3>1
  <2>2. /\ req[h].row \in Rows /\ slot_of(h, pos) \in Slots
        /\ slot_of(h, pos) \in Range(alloc[req[h].row])
        /\ \A row \in Rows : row # req[h].row => slot_of(h, pos) \notin Range(alloc[row])
    BY <1>2, <1>7, <2>1, OwnSlots DEF SlotInv
  <2>3. req[h].row # req[r].row
    BY <1>7 DEF Inv, RowsApart
  <2>4. slot_of(h, pos) \notin Range(alloc[req[r].row])
    BY <1>3, <2>2, <2>3
  <2>5. slot_of(h, pos) \notin W
    BY <1>3, <1>4, <2>4 DEF written_slots
  <2> HIDE DEF W
  <2> QED
    BY <1>5, <2>2, <2>5
<1>8. ASSUME NEW pos \in (c + 1) .. to
      PROVE  kv'[slot_of(r, pos)] = SubSeq(req[r].ids, 1, pos)
  <2>1. pos \in own
    BY <1>1
  <2>2. slot_of(r, pos) \in Slots
    BY <1>3, <2>1
  <2>3. CASE pos \in from .. to
    <3>1. \A other \in from .. to : slot_of(r, other) = slot_of(r, pos) => other = pos
      BY <1>3, <1>4, <2>3
    <3>2. (CHOOSE other \in from .. to : slot_of(r, other) = slot_of(r, pos)) = pos
      BY <2>3, <3>1
    <3>3. kv'[slot_of(r, pos)] =
            SubSeq(req[r].ids, 1, CHOOSE other \in from .. to : slot_of(r, other) = slot_of(r, pos))
      BY <2>2, <2>3 DEF forwarded
    <3> QED
      BY <3>2, <3>3
  <2>4. CASE pos \notin from .. to
    <3>1. pos \in (c + 1) .. req[r].done
      BY <1>1, <2>4
    <3>2. slot_of(r, pos) \notin W
      BY <1>3, <1>4, <2>1, <2>4 DEF written_slots
    <3> HIDE DEF W
    <3>3. kv'[slot_of(r, pos)] = kv[slot_of(r, pos)]
      BY <1>5, <2>2, <3>2
    <3> QED
      BY <3>1, <3>3 DEF SlotInv, OwnContents
  <2> QED
    BY <2>3, <2>4
<1> QED
  BY <1>6, <1>7, <1>8

\* A forward of a request that goes on keeps every slot and its contents.
LEMMA ForwardKeepsSlots ==
  ASSUME EngineBounds, Inv, SlotInv, NEW r \in Requests, Live(r), stage = "idle",
         NEW new \in RequestRecords, req' = [req EXCEPT ![r] = new],
         new.row = req[r].row, new.cachedLen = req[r].cachedLen,
         req[r].done <= new.done, new.done <= Len(req[r].ids),
         Len(req[r].ids) <= Len(new.ids),
         \A i \in 1 .. Len(req[r].ids) : req[r].ids[i] = new.ids[i],
         kv' = forwarded(r, req[r].done + 1, new.done),
         unwritten' = unwritten \ written_slots(r, req[r].done + 1, new.done),
         UNCHANGED <<freeSlots, alloc, pageTable, freeRows, tree, stage, current>>
  PROVE  SlotInv'
<1>1. /\ req'[r] = new
      /\ \A h \in Requests : h # r => req'[h] = req[h]
  BY DEF Inv, VariablesTyped
<1>2. new.done \in Nat
  BY DEF RequestRecords
<1>3. /\ \A x \in DOMAIN tree.value, j \in 1 .. PageSize :
           /\ kv'[tree.value[x][j]] = kv[tree.value[x][j]]
           /\ tree.value[x][j] \notin written_slots(r, req[r].done + 1, new.done)
      /\ \A h \in Requests : Live(h) /\ h # r =>
           \A pos \in (req[h].cachedLen + 1) .. req[h].done :
             kv'[slot_of(h, pos)] = kv[slot_of(h, pos)]
      /\ \A pos \in (req[r].cachedLen + 1) .. new.done :
           kv'[slot_of(r, pos)] = SubSeq(req[r].ids, 1, pos)
  BY <1>2, ForwardWrites
<1>4. SlotsApart'
  BY DEF SlotInv, SlotsApart
<1>5. TreeContents'
  BY <1>3 DEF SlotInv, TreeContents
<1>6. \A h \in Requests : Live(h)' => Live(h)
  BY <1>1 DEF Live
<1>7. SlotsMapped'
  BY <1>1, <1>6 DEF SlotInv, SlotsMapped, Adding
<1>8. \A pos \in 1 .. new.done : SubSeq(new.ids, 1, pos) = SubSeq(req[r].ids, 1, pos)
  <2> TAKE pos \in 1 .. new.done
  <2>1. req[r].ids \in Seq(Tokens) /\ new.ids \in Seq(Tokens) /\ Len(req[r].ids) \in Nat
    BY DoneInRow DEF RequestRecords
  <2>2. pos \in 1 .. Len(req[r].ids)
    BY <1>2, <2>1
  <2> QED
    BY <2>1, <2>2, SamePrefix
<1>9. OwnContents'
  <2> SUFFICES ASSUME NEW h \in Requests, Live(h),
                      NEW pos \in (req'[h].cachedLen + 1) .. req'[h].done
               PROVE  kv'[slot_of(h, pos)'] = SubSeq(req'[h].ids, 1, pos)
    BY <1>6 DEF OwnContents
  <2>1. slot_of(h, pos)' = slot_of(h, pos)
    BY <1>1 DEF slot_of
  <2>2. CASE h = r
    <3>1. pos \in 1 .. new.done
      BY <1>1, <1>2, <2>2, DoneInRow
    <3>2. pos \in (req[r].cachedLen + 1) .. new.done
      BY <1>1, <2>2
    <3> QED
      BY <1>1, <1>3, <1>8, <2>1, <2>2, <3>1, <3>2
  <2>3. CASE h # r
    BY <1>1, <1>3, <2>1, <2>3 DEF SlotInv, OwnContents
  <2> QED
    BY <2>2, <2>3
<1> QED
  BY <1>4, <1>5, <1>7, <1>9 DEF SlotInv

\* A chunk of the prompt.
LEMMA PrefillChunkKeepsSlots ==
  ASSUME EngineBounds, Inv, SlotInv, NEW r \in Requests, NEW n \in 1 .. MaxSeqLen,
         prefill_chunk(r, n)
  PROVE  SlotInv'
<1> DEFINE to == req[r].done + n
           new == [req[r] EXCEPT !.done = to]
<1>1. VariablesTyped /\ LengthsAgree
  BY DEF Inv
<1>2. /\ stage = "idle" /\ req[r].phase = "prefill" /\ to < req[r].promptLen
      /\ kv' = forwarded(r, req[r].done + 1, to)
      /\ unwritten' = unwritten \ written_slots(r, req[r].done + 1, to)
      /\ req' = [req EXCEPT ![r].done = to]
      /\ UNCHANGED <<freeSlots, alloc, pageTable, freeRows, tree, stage, current>>
  BY DEF prefill_chunk
<1>3. Live(r) /\ req[r] \in RequestRecords /\ MaxSeqLen \in Nat
  BY <1>1, <1>2 DEF Live, VariablesTyped, EngineBounds
<1>4. req[r].done \in Nat /\ req[r].promptLen \in Nat /\ Len(req[r].ids) \in Nat
  BY <1>3, LenProperties DEF RequestRecords
<1>5. req[r].promptLen <= Len(req[r].ids)
  BY <1>1, <1>3 DEF LengthsAgree
<1>6. to \in Nat /\ req[r].done <= to /\ to <= Len(req[r].ids)
  BY <1>2, <1>3, <1>4, <1>5, SMTT(60)
<1>7. req' = [req EXCEPT ![r] = new]
  BY <1>2
<1> HIDE DEF to
<1>8. /\ new \in RequestRecords /\ new.row = req[r].row
      /\ new.cachedLen = req[r].cachedLen /\ new.ids = req[r].ids /\ new.done = to
  BY <1>2, <1>3, <1>6 DEF RequestRecords
<1> HIDE DEF new
<1>9. /\ req[r].done <= new.done /\ new.done <= Len(req[r].ids)
      /\ Len(req[r].ids) <= Len(new.ids)
      /\ \A i \in 1 .. Len(req[r].ids) : req[r].ids[i] = new.ids[i]
      /\ kv' = forwarded(r, req[r].done + 1, new.done)
      /\ unwritten' = unwritten \ written_slots(r, req[r].done + 1, new.done)
  BY <1>2, <1>4, <1>6, <1>8
<1> QED
  BY <1>2, <1>3, <1>7, <1>8, <1>9, ForwardKeepsSlots

\* A token is sampled and the request goes on.
LEMMA SampleKeepsSlots ==
  ASSUME EngineBounds, Inv, SlotInv, NEW r \in Requests, NEW tok \in Tokens, sample(r, tok)
  PROVE  SlotInv'
<1> DEFINE to == Len(req[r].ids)
           ids == stopped(r, tok)
           new == [req[r] EXCEPT !.ids = ids, !.done = to, !.phase = "decode"]
<1>1. VariablesTyped
  BY DEF Inv
<1>2. /\ stage = "idle" /\ Live(r)
      /\ kv' = forwarded(r, req[r].done + 1, to)
      /\ unwritten' = unwritten \ written_slots(r, req[r].done + 1, to)
      /\ req' = [req EXCEPT ![r].ids = ids, ![r].done = to, ![r].phase = "decode"]
      /\ UNCHANGED <<freeSlots, alloc, pageTable, freeRows, tree, stage, current>>
  BY DEF sample, stopped
<1>3. /\ req[r] \in RequestRecords /\ to \in Nat
      /\ ids \in Seq(Tokens) /\ Len(ids) = to + 1
      /\ \A i \in 1 .. to : ids[i] = req[r].ids[i]
  BY <1>2, StoppedLengths
<1>4. req[r].done <= to
  BY <1>2, DoneInRow
<1>5. req' = [req EXCEPT ![r] = new]
  BY <1>1, <1>2 DEF VariablesTyped
<1> HIDE DEF to, ids
<1>6. /\ new \in RequestRecords /\ new.row = req[r].row
      /\ new.cachedLen = req[r].cachedLen /\ new.ids = ids /\ new.done = to
  BY <1>3 DEF RequestRecords, Phases
<1> HIDE DEF new
<1>7. /\ req[r].done <= new.done /\ new.done <= Len(req[r].ids)
      /\ Len(req[r].ids) <= Len(new.ids)
      /\ \A i \in 1 .. Len(req[r].ids) : req[r].ids[i] = new.ids[i]
      /\ kv' = forwarded(r, req[r].done + 1, new.done)
      /\ unwritten' = unwritten \ written_slots(r, req[r].done + 1, new.done)
  BY <1>2, <1>3, <1>4, <1>6 DEF to
<1> QED
  BY <1>2, <1>5, <1>6, <1>7, ForwardKeepsSlots

\* The allocation turns to evict().
LEMMA BeginEvictKeepsSlots ==
  ASSUME EngineBounds, Inv, SlotInv, begin_evict
  PROVE  SlotInv'
<1>1. /\ stage = "alloc" /\ stage' = "evict"
      /\ UNCHANGED <<freeSlots, alloc, pageTable, freeRows, tree, req, current, kv, unwritten>>
  BY DEF begin_evict
<1>2. SlotsMapped'
  BY <1>1 DEF SlotInv, SlotsMapped, Adding, Live
<1>3. OwnContents'
  BY <1>1 DEF SlotInv, OwnContents, Live, slot_of
<1> QED
  BY <1>1, <1>2, <1>3, SlotsRest DEF SlotInv

\* One pop of evict(): a leaf's slots go from the tree to the free list.
LEMMA EvictPopKeepsSlots ==
  ASSUME EngineBounds, Inv, SlotInv, evict_pop
  PROVE  SlotInv'
<1>1. PICK n \in nodes(tree) :
        /\ tree' = drop_leaf(tree, n)
        /\ freeSlots' = sorted(freeSlots \o SetToSeq(leaf_slots(tree, n)))
        /\ stage' = IF toEvict' = 0 THEN "retry" ELSE "evict"
  BY DEF evict_pop
<1>2. /\ stage = "evict"
      /\ UNCHANGED <<alloc, pageTable, freeRows, req, current, kv, unwritten>>
  BY DEF evict_pop
<1>3. VariablesTyped /\ TreeSound /\ TreeInv(tree, PageSet)
  BY DEF Inv, TreeSound
<1> DEFINE E == edge(tree, n)
           L == leaf_slots(tree, n)
           l == SetToSeq(L)
<1>4. /\ DOMAIN tree'.value = DOMAIN tree.value \ E
      /\ \A x \in DOMAIN tree'.value : tree'.value[x] = tree.value[x]
  BY <1>1, <1>3, DropFields DEF TreeInv
<1>5. E \subseteq DOMAIN tree.value
  BY DEF edge
<1>6. L \in SUBSET Slots /\ l \in Seq(Slots) /\ Range(l) = L /\ IsInjective(l)
  BY <1>3, LeafSlots, SetAsList
<1>7. \A s : s \in L <=> \E x \in E : s \in Range(tree.value[x])
  BY DEF leaf_slots
<1> HIDE DEF E, L, l
<1>8. /\ \A row \in Rows : Range(alloc[row]) \cap L = {}
      /\ Range(freeSlots) \cap L = {}
      /\ \A x \in DOMAIN tree'.value : Range(tree.value[x]) \cap L = {}
  BY <1>4, <1>5, <1>7 DEF SlotInv, SlotsApart
<1>9. IsInjective(freeSlots') /\ Range(freeSlots') = Range(freeSlots) \union L
  <2>1. Slots \in SUBSET Int /\ freeSlots \in Seq(Slots) /\ IsInjective(freeSlots)
    BY <1>3 DEF Slots, VariablesTyped, SlotInv, SlotsApart
  <2>2. freeSlots' = sorted(freeSlots \o l)
    BY <1>1 DEF l, L
  <2> QED
    BY <1>6, <1>8, <2>1, <2>2, SortedUnion
<1>10. SlotsApart'
  <2>1. \A row \in Rows : Range(alloc[row]) \cap Range(freeSlots') = {}
    BY <1>8, <1>9 DEF SlotInv, SlotsApart
  <2>2. \A x \in DOMAIN tree'.value : Range(tree.value[x]) \cap Range(freeSlots') = {}
    BY <1>4, <1>8, <1>9 DEF SlotInv, SlotsApart
  <2> QED
    BY <1>2, <1>4, <1>9, <2>1, <2>2 DEF SlotInv, SlotsApart
<1>11. TreeContents'
  BY <1>2, <1>4 DEF SlotInv, TreeContents
<1>12. SlotsMapped'
  <2>1. stage' # "idle"
    BY <1>1
  <2> QED
    BY <1>2, <2>1 DEF SlotInv, SlotsMapped, Adding, Live
<1>13. OwnContents'
  BY <1>2 DEF SlotInv, OwnContents, Live, slot_of
<1> QED
  BY <1>10, <1>11, <1>12, <1>13 DEF SlotInv

\* abort_request: the row's slots go back to the pool.
LEMMA AbortRequestKeepsSlots ==
  ASSUME EngineBounds, Inv, SlotInv, NEW r \in Requests, abort_request(r)
  PROVE  SlotInv'
<1> DEFINE row == req[r].row
<1>1. /\ stage = "idle" /\ Live(r)
      /\ tree' = unlock_handle(tree, req[r].handle)
      /\ freeSlots' = sorted(freeSlots \o alloc[row])
      /\ alloc' = [alloc EXCEPT ![row] = <<>>]
      /\ freeRows' = freeRows \union {row}
      /\ req' = [req EXCEPT ![r].phase = "aborted"]
      /\ UNCHANGED <<pageTable, stage, current, kv, unwritten>>
  BY DEF abort_request, abort_unlocks
<1>2. VariablesTyped /\ RowsApart /\ TreeSound
  BY DEF Inv
<1>3. row \in Rows /\ r \in Holders
  BY <1>1, <1>2 DEF VariablesTyped, RequestRecords, Holders
<1>4. tree'.value = tree.value
  BY <1>1, <1>2, <1>3, ReleaseKeeps
<1>5. /\ alloc'[row] = <<>>
      /\ \A other \in Rows : other # row => alloc'[other] = alloc[other]
  BY <1>1, <1>2, <1>3 DEF VariablesTyped
<1>6. IsInjective(freeSlots') /\ Range(freeSlots') = Range(freeSlots) \union Range(alloc[row])
  <2>1. /\ Slots \in SUBSET Int /\ freeSlots \in Seq(Slots) /\ alloc[row] \in Seq(Slots)
        /\ IsInjective(freeSlots) /\ IsInjective(alloc[row])
        /\ Range(freeSlots) \cap Range(alloc[row]) = {}
    BY <1>2, <1>3 DEF Slots, VariablesTyped, SlotInv, SlotsApart
  <2> QED
    BY <1>1, <2>1, SortedUnion, ZenonT(60)
<1>7. Range(<<>>) = {} /\ IsInjective(<<>>)
  BY EmptySeq DEF Range, IsInjective
<1>8. SlotsApart'
  <2>1. \A other \in Rows :
          /\ Range(alloc'[other]) \cap Range(freeSlots') = {} /\ IsInjective(alloc'[other])
          /\ Range(alloc'[other]) \subseteq Range(alloc[other])
    BY <1>3, <1>5, <1>6, <1>7 DEF SlotInv, SlotsApart
  <2>2. \A x \in DOMAIN tree.value : Range(tree.value[x]) \cap Range(freeSlots') = {}
    BY <1>3, <1>6 DEF SlotInv, SlotsApart
  <2> QED
    BY <1>4, <1>6, <2>1, <2>2 DEF SlotInv, SlotsApart
<1>9. /\ ~ Live(r)'
      /\ \A h \in Requests : h # r => req'[h] = req[h]
  BY <1>1, <1>2 DEF VariablesTyped, Live
<1>10. \A h \in Requests : Live(h)' =>
         h # r /\ Live(h) /\ req'[h] = req[h] /\ req[h].row # row /\ req[h].row \in Rows
  BY <1>1, <1>2, <1>9 DEF Live, RowsApart, VariablesTyped, RequestRecords
<1>11. SlotsMapped'
  <2>1. \A free \in freeRows \union {row} : alloc'[free] = <<>>
    BY <1>2, <1>3, <1>5 DEF SlotInv, SlotsMapped, VariablesTyped
  <2> QED
    BY <1>1, <1>5, <1>10, <2>1 DEF SlotInv, SlotsMapped, Adding
<1>12. TreeContents'
  BY <1>1, <1>4 DEF SlotInv, TreeContents
<1>13. OwnContents'
  BY <1>1, <1>10 DEF SlotInv, OwnContents, slot_of
<1> QED
  BY <1>8, <1>11, <1>12, <1>13 DEF SlotInv

\* Where the slots of a request that stops go: those of the pages the tree takes
\* to the tree, the others behind the head and past the end back to the pool.
freed_positions(r, tok) ==
  ((req[r].cachedLen + 1) .. (PageSize * held(r, tok)))
    \union ((Len(stopped(r, tok)) + 1) .. MaxSeqLen)
given_positions(r, tok) ==
  (PageSize * held(r, tok) + 1) .. align_down(Len(stopped(r, tok)))

\* Both are positions behind the request's head, and none is in both.
LEMMA StoppedPositions ==
  ASSUME EngineBounds, Inv, NEW r \in Requests, Live(r), NEW tok \in Tokens
  PROVE  LET own == (req[r].cachedLen + 1) .. MaxSeqLen
         IN  /\ freed_positions(r, tok) \subseteq own
             /\ given_positions(r, tok) \subseteq own
             /\ freed_positions(r, tok) \cap given_positions(r, tok) = {}
<1> DEFINE c == req[r].cachedLen
           n == PageSize * held(r, tok)
           len == Len(stopped(r, tok))
           a == align_down(len)
<1>1. /\ MaxSeqLen \in Nat /\ c \in Nat /\ n \in Nat /\ c <= n /\ n <= a
      /\ a \in 0 .. len /\ len <= MaxSeqLen
      /\ Len(req[r].ids) \in Nat /\ len = Len(req[r].ids) + 1
  BY StoppedLengths
<1> HIDE DEF c, n, len, a
<1>2. /\ (c + 1) .. n \subseteq (c + 1) .. MaxSeqLen
      /\ (len + 1) .. MaxSeqLen \subseteq (c + 1) .. MaxSeqLen
      /\ (n + 1) .. a \subseteq (c + 1) .. MaxSeqLen
      /\ \A i \in (n + 1) .. a : i \notin (c + 1) .. n /\ i \notin (len + 1) .. MaxSeqLen
  BY <1>1
<1> QED
  BY <1>2 DEF freed_positions, given_positions, c, n, len, a

\* The free list after a request has stopped.
LEMMA FinishFrees ==
  ASSUME EngineBounds, Inv, SlotInv, NEW r \in Requests, NEW tok \in Tokens, finish(r, tok)
  PROVE  /\ IsInjective(freeSlots')
         /\ Range(freeSlots') =
              Range(freeSlots) \union {slot_of(r, i) : i \in freed_positions(r, tok)}
<1> DEFINE row == req[r].row
           f == pageTable[row]
           c == req[r].cachedLen
           n == PageSize * held(r, tok)
           len == Len(stopped(r, tok))
           part == SubSeq(f, c + 1, n)
           tail == SubSeq(f, len + 1, MaxSeqLen)
           P == (c + 1) .. n
           T == (len + 1) .. MaxSeqLen
           own == (c + 1) .. MaxSeqLen
<1>1. /\ Live(r) /\ stage = "idle"
      /\ freeSlots' = sorted(freeSlots \o freeable(row, c, n, len))
  BY DEF finish, stopped, held
<1>2. VariablesTyped
  BY DEF Inv
<1>3. /\ row \in Rows /\ MaxSeqLen \in Nat /\ c \in Nat /\ n \in Nat /\ n <= MaxSeqLen
      /\ len \in Nat /\ len <= MaxSeqLen /\ n <= len
  <2>1. /\ row \in Rows /\ MaxSeqLen \in Nat /\ c \in Nat /\ n \in Nat
        /\ n <= align_down(len) /\ align_down(len) \in 0 .. len /\ len <= MaxSeqLen
        /\ Len(req[r].ids) \in Nat /\ len = Len(req[r].ids) + 1
    BY <1>1, StoppedLengths
  <2> HIDE DEF len, n, c, row
  <2> QED
    BY <2>1
<1>4. f \in Seq(Slots) /\ Len(f) = MaxSeqLen
  <2>1. f \in [1 .. MaxSeqLen -> Slots]
    BY <1>2, <1>3 DEF VariablesTyped, Positions
  <2> HIDE DEF f
  <2> QED
    BY <1>3, <2>1, FunctionIsSeq
<1>5. freeable(row, c, n, len) = part \o tail
  BY DEF freeable
<1>6. \A i : f[i] = slot_of(r, i)
  BY DEF slot_of
<1>7. /\ \A i \in own : slot_of(r, i) \notin Range(freeSlots)
      /\ \A i, j \in own : slot_of(r, i) = slot_of(r, j) => i = j
  BY <1>1, OwnSlots DEF SlotInv, Adding
<1> HIDE DEF row, f, c, n, len
<1>8. P \subseteq own /\ T \subseteq own /\ P \cap T = {}
  <2>1. freed_positions(r, tok) \subseteq own
    BY <1>1, StoppedPositions DEF c
  <2>2. P \subseteq own
    BY <1>3
  <2>3. T \subseteq own
    BY <2>1 DEF freed_positions, len
  <2>4. P \cap T = {}
    BY <1>3
  <2> QED
    BY <2>2, <2>3, <2>4
<1>9. /\ part \in Seq(Slots) /\ Range(part) = {f[i] : i \in P}
      /\ DOMAIN part = 1 .. (n - c) /\ \A i \in 1 .. (n - c) : part[i] = f[c + i]
  <2> DEFINE b == c + 1
  <2>1. b \in Nat \ {0} /\ n \in Nat /\ n <= Len(f) /\ f \in Seq(Slots)
    BY <1>3, <1>4
  <2>2. n - b + 1 = n - c /\ \A i \in 1 .. (n - c) : b + i - 1 = c + i
    BY <1>3
  <2> HIDE DEF b
  <2>3. /\ SubSeq(f, b, n) \in Seq(Slots) /\ Range(SubSeq(f, b, n)) = {f[i] : i \in b .. n}
        /\ DOMAIN SubSeq(f, b, n) = 1 .. (n - b + 1)
        /\ \A i \in 1 .. (n - b + 1) : SubSeq(f, b, n)[i] = f[b + i - 1]
    BY <2>1, Slice
  <2> QED
    BY <2>2, <2>3 DEF b
<1>10. /\ tail \in Seq(Slots) /\ Range(tail) = {f[i] : i \in T}
       /\ DOMAIN tail = 1 .. (MaxSeqLen - len)
       /\ \A i \in 1 .. (MaxSeqLen - len) : tail[i] = f[len + i]
  <2> DEFINE b == len + 1
  <2>1. b \in Nat \ {0} /\ MaxSeqLen <= Len(f) /\ MaxSeqLen \in Nat /\ f \in Seq(Slots)
    BY <1>3, <1>4
  <2>2. /\ MaxSeqLen - b + 1 = MaxSeqLen - len
        /\ \A i \in 1 .. (MaxSeqLen - len) : b + i - 1 = len + i
    BY <1>3
  <2> HIDE DEF b
  <2>3. /\ SubSeq(f, b, MaxSeqLen) \in Seq(Slots)
        /\ Range(SubSeq(f, b, MaxSeqLen)) = {f[i] : i \in b .. MaxSeqLen}
        /\ DOMAIN SubSeq(f, b, MaxSeqLen) = 1 .. (MaxSeqLen - b + 1)
        /\ \A i \in 1 .. (MaxSeqLen - b + 1) : SubSeq(f, b, MaxSeqLen)[i] = f[b + i - 1]
    BY <2>1, Slice
  <2> QED
    BY <2>2, <2>3 DEF b
<1>11. IsInjective(part)
  <2>1. \A i \in 1 .. (n - c) : (c + i) \in own
    BY <1>3
  <2>2. \A i, j \in 1 .. (n - c) : part[i] = part[j] => c + i = c + j
    <3> HIDE DEF own, part
    <3> QED
      BY <1>6, <1>7, <1>9, <2>1
  <2> HIDE DEF part
  <2> QED
    BY <1>3, <1>9, <2>2 DEF IsInjective
<1>12. IsInjective(tail)
  <2>1. \A i \in 1 .. (MaxSeqLen - len) : (len + i) \in T
    BY <1>3
  <2>2. \A i, j \in 1 .. (MaxSeqLen - len) : tail[i] = tail[j] => len + i = len + j
    <3> HIDE DEF T, own, tail
    <3> QED
      BY <1>6, <1>7, <1>8, <1>10, <2>1
  <2> HIDE DEF tail
  <2> QED
    BY <1>3, <1>10, <2>2 DEF IsInjective
<1> HIDE DEF part, tail, P, T, own
<1>13. /\ Range(part) \cap Range(tail) = {}
       /\ Range(part) \cap Range(freeSlots) = {} /\ Range(tail) \cap Range(freeSlots) = {}
  BY <1>6, <1>7, <1>8, <1>9, <1>10
<1> DEFINE u == part \o tail
<1>14. u \in Seq(Slots) /\ Range(u) = Range(part) \union Range(tail) /\ IsInjective(u)
  <2>1. part \in Seq(Slots) /\ tail \in Seq(Slots)
    BY <1>9, <1>10
  <2>2. IsInjective(part) /\ IsInjective(tail) /\ Range(part) \cap Range(tail) = {}
    BY <1>11, <1>12, <1>13
  <2> QED
    BY <2>1, <2>2, ConcatIsUnion
<1> HIDE DEF u
<1>15. /\ Range(freeSlots') = Range(freeSlots) \union Range(u) /\ IsInjective(freeSlots')
  <2>1. /\ Slots \in SUBSET Int /\ freeSlots \in Seq(Slots) /\ IsInjective(freeSlots)
        /\ Range(freeSlots) \cap Range(u) = {}
    BY <1>2, <1>13, <1>14 DEF Slots, VariablesTyped, SlotInv, SlotsApart
  <2>2. freeSlots' = sorted(freeSlots \o u)
    BY <1>1, <1>5 DEF u
  <2> QED
    BY <1>14, <2>1, <2>2, SortedUnion
<1>16. freed_positions(r, tok) = P \union T
  BY DEF freed_positions, P, T, c, n, len
<1> QED
  BY <1>6, <1>9, <1>10, <1>14, <1>15, <1>16

\* The pages the tree takes from a request that stops: each position behind the
\* part it held is in one of them, once.
LEMMA FinishGives ==
  ASSUME EngineBounds, Inv, SlotInv, NEW r \in Requests, NEW tok \in Tokens, finish(r, tok)
  PROVE  /\ \A x \in given(r, tok), j \in 1 .. PageSize :
              /\ position(Len(x), j) \in given_positions(r, tok)
              /\ tree'.value[x][j] = slot_of(r, position(Len(x), j))
         /\ \A x \in given(r, tok) :
              /\ IsInjective(tree'.value[x])
              /\ \A s \in Range(tree'.value[x]) :
                   \E j \in 1 .. PageSize : s = slot_of(r, position(Len(x), j))
         /\ \A x, y \in given(r, tok) :
              x # y => Range(tree'.value[x]) \cap Range(tree'.value[y]) = {}
<1> DEFINE own == (req[r].cachedLen + 1) .. MaxSeqLen
           G == given_positions(r, tok)
           p == pages(stopped(r, tok))
<1>1. Live(r) /\ ~ Adding(r)
  BY DEF finish, Adding
<1>2. /\ PageSize * held(r, tok) \in Nat
      /\ align_down(Len(stopped(r, tok))) \in Nat
      /\ p \in Seq(PageSet) /\ Len(p) \in Nat /\ held(r, tok) \in Nat
  <2>1. /\ PageSize * held(r, tok) \in Nat
        /\ align_down(Len(stopped(r, tok))) \in 0 .. Len(stopped(r, tok))
        /\ p \in Seq(PageSet) /\ Len(p) \in Nat /\ held(r, tok) \in 0 .. Len(p)
    BY <1>1, StoppedLengths
  <2> HIDE DEF p
  <2> QED
    BY <2>1
<1>3. /\ G \subseteq own
      /\ \A i, j \in own : slot_of(r, i) = slot_of(r, j) => i = j
  BY <1>1, StoppedPositions, OwnSlots DEF SlotInv
<1>4. \A x \in given(r, tok) :
        /\ x \in Seq(PageSet) /\ IsPrefix(x, p)
        /\ Len(x) \in (held(r, tok) + 1) .. Len(p)
        /\ tree'.value[x] \in Seq(Slots) /\ Len(tree'.value[x]) = PageSize
        /\ \A j \in 1 .. PageSize :
             /\ position(Len(x), j) \in Positions
             /\ position(Len(x), j) > PageSize * held(r, tok)
             /\ position(Len(x), j) <= align_down(Len(stopped(r, tok)))
             /\ tree'.value[x][j] = pageTable[req[r].row][position(Len(x), j)]
  BY GivenPages
<1> HIDE DEF p
<1>5. \A x \in given(r, tok) : Len(x) \in Nat \ {0} /\ DOMAIN tree'.value[x] = 1 .. PageSize
  <2> SUFFICES ASSUME NEW x \in given(r, tok)
               PROVE  Len(x) \in Nat \ {0} /\ DOMAIN tree'.value[x] = 1 .. PageSize
    OBVIOUS
  <2> DEFINE v == tree'.value[x]
  <2>1. Len(x) \in Nat \ {0}
    BY <1>2, <1>4
  <2>2. v \in Seq(Slots) /\ Len(v) = PageSize
    BY <1>4
  <2> HIDE DEF v
  <2>3. DOMAIN v = 1 .. PageSize
    BY <2>2, LenProperties
  <2> QED
    BY <2>1, <2>3 DEF v
<1>6. \A x \in given(r, tok), j \in 1 .. PageSize :
        /\ position(Len(x), j) \in G
        /\ tree'.value[x][j] = slot_of(r, position(Len(x), j))
  <2> SUFFICES ASSUME NEW x \in given(r, tok), NEW j \in 1 .. PageSize
               PROVE  /\ position(Len(x), j) \in G
                      /\ tree'.value[x][j] = slot_of(r, position(Len(x), j))
    OBVIOUS
  <2> DEFINE i == position(Len(x), j)
             a == PageSize * held(r, tok)
             b == align_down(Len(stopped(r, tok)))
  <2>1. i > a /\ i <= b /\ tree'.value[x][j] = pageTable[req[r].row][i]
    BY <1>4
  <2>2. i \in Nat /\ a \in Nat /\ b \in Nat
    BY <1>2, <1>5, Paging
  <2> HIDE DEF i, a, b
  <2>3. i \in (a + 1) .. b
    BY <2>1, <2>2
  <2> QED
    BY <2>1, <2>3 DEF slot_of, given_positions, i, a, b
<1>7. \A x, y \in given(r, tok), i, j \in 1 .. PageSize :
        tree'.value[x][i] = tree'.value[y][j] => Len(x) = Len(y) /\ i = j
  <2> SUFFICES ASSUME NEW x \in given(r, tok), NEW y \in given(r, tok),
                      NEW i \in 1 .. PageSize, NEW j \in 1 .. PageSize,
                      tree'.value[x][i] = tree'.value[y][j]
               PROVE  Len(x) = Len(y) /\ i = j
    OBVIOUS
  <2>1. position(Len(x), i) = position(Len(y), j)
    BY <1>3, <1>6
  <2>2. /\ page_of(position(Len(x), i)) = Len(x) /\ offset_of(position(Len(x), i)) = i
        /\ page_of(position(Len(y), j)) = Len(y) /\ offset_of(position(Len(y), j)) = j
    BY <1>5, Paging
  <2> QED
    BY <2>1, <2>2
<1>8. \A x \in given(r, tok) : Range(tree'.value[x]) = {tree'.value[x][j] : j \in 1 .. PageSize}
  BY <1>5 DEF Range
<1>9. \A x \in given(r, tok) :
        /\ IsInjective(tree'.value[x])
        /\ \A s \in Range(tree'.value[x]) :
             \E j \in 1 .. PageSize : s = slot_of(r, position(Len(x), j))
  <2> SUFFICES ASSUME NEW x \in given(r, tok)
               PROVE  /\ IsInjective(tree'.value[x])
                      /\ \A s \in Range(tree'.value[x]) :
                           \E j \in 1 .. PageSize : s = slot_of(r, position(Len(x), j))
    OBVIOUS
  <2>1. IsInjective(tree'.value[x])
    <3>1. \A i, j \in 1 .. PageSize : tree'.value[x][i] = tree'.value[x][j] => i = j
      BY <1>7
    <3> QED
      BY <1>5, <3>1 DEF IsInjective
  <2>2. \A s \in Range(tree'.value[x]) : \E j \in 1 .. PageSize : s = tree'.value[x][j]
    BY <1>8
  <2> QED
    BY <1>6, <2>1, <2>2
<1>10. \A x, y \in given(r, tok) : Len(x) = Len(y) => x = y
  <2> SUFFICES ASSUME NEW x \in given(r, tok), NEW y \in given(r, tok), Len(x) = Len(y)
               PROVE  x = y
    OBVIOUS
  <2>1. IsPrefix(x, p) /\ IsPrefix(y, p) /\ x \in Seq(PageSet) /\ y \in Seq(PageSet)
    BY <1>4
  <2> QED
    BY <1>2, <2>1, PrefixCut
<1>11. \A x, y \in given(r, tok) :
         x # y => Range(tree'.value[x]) \cap Range(tree'.value[y]) = {}
  <2> SUFFICES ASSUME NEW x \in given(r, tok), NEW y \in given(r, tok), x # y
               PROVE  Range(tree'.value[x]) \cap Range(tree'.value[y]) = {}
    OBVIOUS
  <2>1. \A i, j \in 1 .. PageSize : tree'.value[x][i] # tree'.value[y][j]
    BY <1>7, <1>10
  <2>2. /\ \A s \in Range(tree'.value[x]) : \E i \in 1 .. PageSize : s = tree'.value[x][i]
        /\ \A s \in Range(tree'.value[y]) : \E j \in 1 .. PageSize : s = tree'.value[y][j]
    BY <1>8
  <2> QED
    BY <2>1, <2>2
<1> QED
  BY <1>6, <1>9, <1>11

\* What the tree holds after a request has stopped.
LEMMA FinishContents ==
  ASSUME EngineBounds, Inv, SlotInv, NEW r \in Requests, NEW tok \in Tokens, finish(r, tok)
  PROVE  /\ TreeContents'
         /\ \A h \in Requests : Live(h) /\ h # r =>
              \A pos \in (req[h].cachedLen + 1) .. req[h].done :
                kv'[slot_of(h, pos)] = kv[slot_of(h, pos)]
<1> DEFINE to == Len(req[r].ids)
           ids == stopped(r, tok)
           p == pages(ids)
           W == written_slots(r, req[r].done + 1, to)
           inserted == PageSize * held(r, tok)
           adopted == {pageTable[req[r].row][pos] : pos \in (inserted + 1) .. align_down(Len(ids))}
<1>1. /\ Live(r) /\ stage = "idle"
      /\ kv' = forwarded(r, req[r].done + 1, to)
      /\ unwritten' = (unwritten \ W) \union ({slot_of(r, Len(ids))} \cap adopted)
  BY DEF finish, stopped, held
<1>2. /\ req[r].ids \in Seq(Tokens) /\ ids \in Seq(Tokens)
      /\ to \in Nat /\ Len(ids) = to + 1 /\ \A i \in 1 .. to : ids[i] = req[r].ids[i]
      /\ req[r].cachedLen \in Nat /\ inserted \in Nat /\ req[r].cachedLen <= inserted
      /\ align_down(Len(ids)) \in 0 .. Len(ids)
      /\ p \in Seq(PageSet) /\ Len(p) \in Nat
  BY <1>1, StoppedLengths
<1>3. req[r].done <= to
  BY <1>1, DoneInRow
<1>4. /\ \A x \in DOMAIN tree.value, j \in 1 .. PageSize :
           /\ kv'[tree.value[x][j]] = kv[tree.value[x][j]]
           /\ tree.value[x][j] \notin W
      /\ \A h \in Requests : Live(h) /\ h # r =>
           \A pos \in (req[h].cachedLen + 1) .. req[h].done :
             kv'[slot_of(h, pos)] = kv[slot_of(h, pos)]
      /\ \A pos \in (req[r].cachedLen + 1) .. to :
           kv'[slot_of(r, pos)] = SubSeq(req[r].ids, 1, pos)
  <2>1. to \in Nat /\ req[r].done <= to /\ to <= Len(req[r].ids)
    BY <1>2, <1>3
  <2> HIDE DEF to
  <2>2. kv' = forwarded(r, req[r].done + 1, to) /\ Live(r) /\ stage = "idle"
    BY <1>1
  <2> QED
    BY <2>1, <2>2, ForwardWrites
<1>5. /\ DOMAIN tree'.value = DOMAIN tree.value \union given(r, tok)
      /\ \A x \in DOMAIN tree.value : tree'.value[x] = tree.value[x]
      /\ \A x \in given(r, tok) :
           /\ x \in Seq(PageSet) /\ IsPrefix(x, p)
           /\ Len(x) \in (held(r, tok) + 1) .. Len(p)
  BY GivenPages
<1>6. \A x \in given(r, tok), j \in 1 .. PageSize :
        /\ position(Len(x), j) \in (inserted + 1) .. align_down(Len(ids))
        /\ tree'.value[x][j] = slot_of(r, position(Len(x), j))
  BY FinishGives DEF given_positions
<1>7. held(r, tok) \in Nat
  BY <1>1, <1>2, StoppedLengths
<1> HIDE DEF to, W, ids, p, inserted
<1>8. ASSUME NEW x \in given(r, tok), NEW j \in 1 .. PageSize
      PROVE  \/ kv'[tree'.value[x][j]] = text(x, position(Len(x), j))
             \/ tree'.value[x][j] \in unwritten'
  <2> DEFINE pos == position(Len(x), j)
  <2>1. /\ pos \in (inserted + 1) .. align_down(Len(ids))
        /\ tree'.value[x][j] = slot_of(r, pos)
    BY <1>6, <1>8
  <2>2. Len(x) \in Nat \ {0}
    BY <1>2, <1>5, <1>7, <1>8
  <2>3. pos \in 0 .. (PageSize * Len(x))
    <3>1. pos <= PageSize * Len(x) /\ pos \in Nat
      BY <2>2, Paging
    <3>2. PageSize * Len(x) \in Nat
      BY <2>2, PageAssumption
    <3> HIDE DEF pos
    <3> QED
      BY <3>1, <3>2
  <2>4. text(x, pos) = SubSeq(ids, 1, pos)
    BY <1>2, <1>5, <1>8, <2>3, TextOfPages DEF p
  <2> HIDE DEF pos
  <2>5. pos \in Nat /\ (pos = Len(ids) \/ pos \in (req[r].cachedLen + 1) .. to)
    BY <1>2, <2>1, SMTT(60)
  <2>6. CASE pos = Len(ids)
    <3>1. slot_of(r, Len(ids)) \in adopted
      BY <2>1, <2>6 DEF slot_of
    <3> HIDE DEF adopted
    <3>2. slot_of(r, Len(ids)) \in unwritten'
      BY <1>1, <3>1
    <3> QED
      BY <2>1, <2>6, <3>2
  <2>7. CASE pos \in (req[r].cachedLen + 1) .. to
    <3>1. kv'[slot_of(r, pos)] = SubSeq(req[r].ids, 1, pos)
      BY <1>4, <2>7
    <3>2. SubSeq(ids, 1, pos) = SubSeq(req[r].ids, 1, pos)
      <4>1. pos \in 1 .. to /\ to = Len(req[r].ids) /\ to <= Len(ids)
        BY <1>2, <2>7, SMTT(60) DEF to
      <4> QED
        BY <1>2, <4>1, SamePrefix
    <3> QED
      BY <2>1, <2>4, <3>1, <3>2 DEF pos
  <2> QED
    BY <2>5, <2>6, <2>7
<1>9. TreeContents'
  <2> SUFFICES ASSUME NEW x \in DOMAIN tree'.value, NEW j \in 1 .. PageSize
               PROVE  \/ kv'[tree'.value[x][j]] = text(x, position(Len(x), j))
                      \/ tree'.value[x][j] \in unwritten'
    BY DEF TreeContents
  <2>1. CASE x \in given(r, tok)
    BY <1>8, <2>1
  <2>2. CASE x \in DOMAIN tree.value
    <3>1. /\ tree'.value[x] = tree.value[x]
          /\ kv'[tree.value[x][j]] = kv[tree.value[x][j]]
          /\ tree.value[x][j] \notin W
      BY <1>4, <1>5, <2>2
    <3>2. \/ kv[tree.value[x][j]] = text(x, position(Len(x), j))
          \/ tree.value[x][j] \in unwritten
      BY <2>2 DEF SlotInv, TreeContents
    <3> QED
      BY <1>1, <3>1, <3>2
  <2> QED
    BY <1>5, <2>1, <2>2
<1> QED
  BY <1>4, <1>9

\* finish keeps the slots apart and mapped.
LEMMA FinishKeepsSlots ==
  ASSUME EngineBounds, Inv, SlotInv, NEW r \in Requests, NEW tok \in Tokens, finish(r, tok)
  PROVE  SlotInv'
<1> DEFINE row == req[r].row
           own == (req[r].cachedLen + 1) .. MaxSeqLen
           F == freed_positions(r, tok)
           G == given_positions(r, tok)
           new == given(r, tok)
<1>1. /\ stage = "idle" /\ Live(r)
      /\ alloc' = [alloc EXCEPT ![row] = <<>>]
      /\ freeRows' = freeRows \union {row}
      /\ req' = [req EXCEPT ![r].ids = stopped(r, tok), ![r].done = Len(req[r].ids),
                            ![r].phase = "done"]
      /\ UNCHANGED <<pageTable, stage, current>>
  BY DEF finish, stopped
<1>2. VariablesTyped /\ RowsApart
  BY DEF Inv
<1>3. /\ row \in Rows
      /\ \A i \in own : slot_of(r, i) \notin Range(freeSlots)
      /\ \A i, j \in own : slot_of(r, i) = slot_of(r, j) => i = j
      /\ \A i \in own, x \in DOMAIN tree.value : slot_of(r, i) \notin Range(tree.value[x])
      /\ \A i \in own, other \in Rows : other # row => slot_of(r, i) \notin Range(alloc[other])
  BY <1>1, OwnSlots DEF SlotInv, Adding
<1>4. F \subseteq own /\ G \subseteq own /\ F \cap G = {}
  BY <1>1, StoppedPositions
<1>5. IsInjective(freeSlots') /\ Range(freeSlots') = Range(freeSlots) \union {slot_of(r, i) : i \in F}
  BY FinishFrees
<1>6. /\ DOMAIN tree'.value = DOMAIN tree.value \union new
      /\ \A x \in DOMAIN tree.value : tree'.value[x] = tree.value[x]
  BY GivenPages
<1>7. \A x \in new : \A s \in Range(tree'.value[x]) : \E i \in G : s = slot_of(r, i)
  BY FinishGives
<1>8. /\ \A x \in new : IsInjective(tree'.value[x])
      /\ \A x, y \in new : x # y => Range(tree'.value[x]) \cap Range(tree'.value[y]) = {}
  BY FinishGives
<1>9. /\ alloc'[row] = <<>>
      /\ \A other \in Rows : other # row => alloc'[other] = alloc[other]
  BY <1>1, <1>2, <1>3 DEF VariablesTyped
<1>10. Range(<<>>) = {} /\ IsInjective(<<>>)
  BY EmptySeq DEF Range, IsInjective
<1> HIDE DEF row, own, F, G, new
<1>11. \A x \in new :
         /\ Range(tree'.value[x]) \cap Range(freeSlots') = {}
         /\ \A y \in DOMAIN tree.value : Range(tree'.value[x]) \cap Range(tree.value[y]) = {}
         /\ \A other \in Rows : other # row => Range(tree'.value[x]) \cap Range(alloc[other]) = {}
  <2> SUFFICES ASSUME NEW x \in new, NEW s \in Range(tree'.value[x])
               PROVE  /\ s \notin Range(freeSlots')
                      /\ \A y \in DOMAIN tree.value : s \notin Range(tree.value[y])
                      /\ \A other \in Rows : other # row => s \notin Range(alloc[other])
    OBVIOUS
  <2>1. PICK i \in G : s = slot_of(r, i)
    BY <1>7
  <2>2. i \in own /\ i \notin F
    BY <1>4
  <2>3. s \notin {slot_of(r, j) : j \in F}
    BY <1>3, <1>4, <2>1, <2>2
  <2> QED
    BY <1>3, <1>5, <2>1, <2>2, <2>3
<1>12. SlotsApart'
  <2>1. \A other \in Rows :
          /\ IsInjective(alloc'[other])
          /\ Range(alloc'[other]) \cap Range(freeSlots') = {}
    <3> SUFFICES ASSUME NEW other \in Rows
                 PROVE  /\ IsInjective(alloc'[other])
                        /\ Range(alloc'[other]) \cap Range(freeSlots') = {}
      OBVIOUS
    <3>1. CASE other = row
      BY <1>9, <1>10, <3>1
    <3>2. CASE other # row
      <4>1. Range(alloc[other]) \cap {slot_of(r, i) : i \in F} = {}
        BY <1>3, <1>4, <3>2
      <4> QED
        BY <1>5, <1>9, <3>2, <4>1 DEF SlotInv, SlotsApart
    <3> QED
      BY <3>1, <3>2
  <2>2. \A x \in DOMAIN tree.value : Range(tree.value[x]) \cap Range(freeSlots') = {}
    <3> SUFFICES ASSUME NEW x \in DOMAIN tree.value
                 PROVE  Range(tree.value[x]) \cap Range(freeSlots') = {}
      OBVIOUS
    <3>1. Range(tree.value[x]) \cap {slot_of(r, i) : i \in F} = {}
      BY <1>3, <1>4
    <3> QED
      BY <1>5, <3>1 DEF SlotInv, SlotsApart
  <2>3. \A other \in Rows : other = row \/ (other # row /\ alloc'[other] = alloc[other])
    BY <1>9
  <2>4. \A x \in DOMAIN tree'.value, other \in Rows :
          Range(tree'.value[x]) \cap Range(alloc'[other]) = {}
    BY <1>6, <1>9, <1>10, <1>11, <2>3 DEF SlotInv, SlotsApart
  <2>5. \A x, y \in DOMAIN tree'.value :
          x # y => Range(tree'.value[x]) \cap Range(tree'.value[y]) = {}
    BY <1>6, <1>8, <1>11 DEF SlotInv, SlotsApart
  <2>6. \A one, other \in Rows : one # other => Range(alloc'[one]) \cap Range(alloc'[other]) = {}
    BY <1>9, <1>10, <2>3 DEF SlotInv, SlotsApart
  <2>7. \A x \in DOMAIN tree'.value :
          IsInjective(tree'.value[x]) /\ Range(tree'.value[x]) \cap Range(freeSlots') = {}
    BY <1>6, <1>8, <1>11, <2>2 DEF SlotInv, SlotsApart
  <2> QED
    BY <1>5, <2>1, <2>4, <2>5, <2>6, <2>7 DEF SlotsApart
<1>13. /\ ~ Live(r)'
       /\ \A h \in Requests : h # r => req'[h] = req[h]
  BY <1>1, <1>2 DEF VariablesTyped, Live
<1>14. \A h \in Requests : Live(h)' =>
         h # r /\ Live(h) /\ req'[h] = req[h] /\ req[h].row # row /\ req[h].row \in Rows
  BY <1>1, <1>2, <1>13 DEF Live, RowsApart, VariablesTyped, RequestRecords, row
<1>15. /\ stage = "idle" /\ UNCHANGED <<stage, pageTable, current>>
       /\ freeRows' = freeRows \union {row}
  BY <1>1 DEF row
<1>16. SlotsMapped'
  <2>1. \A free \in freeRows \union {row} : alloc'[free] = <<>>
    BY <1>2, <1>3, <1>9 DEF SlotInv, SlotsMapped, VariablesTyped
  <2>2. ASSUME NEW h \in Requests, Live(h)', NEW pos \in (req'[h].cachedLen + 1) .. MaxSeqLen
        PROVE  /\ pos - req'[h].cachedLen \in DOMAIN alloc'[req'[h].row]
               /\ pageTable'[req'[h].row][pos] = alloc'[req'[h].row][pos - req'[h].cachedLen]
    <3>1. /\ Live(h) /\ req'[h] = req[h] /\ alloc'[req[h].row] = alloc[req[h].row]
          /\ ~ Adding(h) /\ pageTable' = pageTable
      BY <1>9, <1>14, <1>15, <2>2 DEF Adding
    <3> QED
      BY <2>2, <3>1 DEF SlotInv, SlotsMapped
  <2>3. stage' = "idle"
    BY <1>15
  <2> QED
    BY <1>15, <2>1, <2>2, <2>3 DEF SlotsMapped
<1>17. TreeContents' /\ OwnContents'
  <2>1. \A h \in Requests : Live(h) /\ h # r =>
          \A pos \in (req[h].cachedLen + 1) .. req[h].done :
            kv'[slot_of(h, pos)] = kv[slot_of(h, pos)]
    BY FinishContents
  <2>2. ASSUME NEW h \in Requests, Live(h)', NEW pos \in (req'[h].cachedLen + 1) .. req'[h].done
        PROVE  kv'[pageTable'[req'[h].row][pos]] = SubSeq(req'[h].ids, 1, pos)
    <3>1. Live(h) /\ h # r /\ req'[h] = req[h] /\ pageTable' = pageTable
      BY <1>14, <1>15, <2>2
    <3>2. kv'[slot_of(h, pos)] = kv[slot_of(h, pos)]
      BY <2>1, <2>2, <3>1
    <3> QED
      BY <2>2, <3>1, <3>2 DEF SlotInv, OwnContents, slot_of
  <2>3. OwnContents'
    BY <2>2 DEF OwnContents, slot_of
  <2> QED
    BY <2>3, FinishContents
<1> QED
  BY <1>12, <1>16, <1>17 DEF SlotInv

\* Every step but a failed allocation keeps the slots apart and their contents.
LEMMA StepSlotInv ==
  ASSUME EngineBounds, Inv, SlotInv, [Next]_vars, ~ allocate_fails
  PROVE  SlotInv'
<1>1. ASSUME NEW r \in Requests, NEW ids \in Prompts, NEW m \in OutputLens, add_request(r, ids, m)
      PROVE  SlotInv'
  BY <1>1, AddRequestKeepsSlots
<1>2. ASSUME NEW r \in Requests, NEW ids \in Prompts, reject_request(r, ids)
      PROVE  SlotInv'
  BY <1>2, RejectRequestKeepsSlots
<1>3. ASSUME NEW r \in Requests, NEW n \in 1 .. MaxSeqLen, prefill_chunk(r, n)
      PROVE  SlotInv'
  BY <1>3, PrefillChunkKeepsSlots
<1>4. ASSUME NEW r \in Requests, NEW tok \in Tokens, sample(r, tok)
      PROVE  SlotInv'
  BY <1>4, SampleKeepsSlots
<1>5. ASSUME NEW r \in Requests, NEW tok \in Tokens, finish(r, tok)
      PROVE  SlotInv'
  BY <1>5, FinishKeepsSlots
<1>6. ASSUME NEW r \in Requests, abort_request(r)
      PROVE  SlotInv'
  BY <1>6, AbortRequestKeepsSlots
<1>7. CASE Allocation
  BY <1>7, AllocateKeepsSlots, BeginEvictKeepsSlots, EvictPopKeepsSlots DEF Allocation
<1>8. CASE UNCHANGED vars
  <2>1. /\ UNCHANGED <<freeSlots, alloc, pageTable, freeRows, tree, req, stage, current,
                       kv, unwritten>>
    BY <1>8 DEF vars
  <2>2. SlotsMapped'
    BY <2>1 DEF SlotInv, SlotsMapped, Adding, Live
  <2>3. OwnContents'
    BY <2>1 DEF SlotInv, OwnContents, Live, slot_of
  <2> QED
    BY <2>1, <2>2, <2>3, SlotsRest DEF SlotInv
<1> QED
  BY <1>1, <1>2, <1>3, <1>4, <1>5, <1>6, <1>7, <1>8 DEF Next, Operation

\* A request in the queue has its slots.
LEMMA SlotInvGivesQueued ==
  ASSUME EngineBounds, Inv, SlotInv
  PROVE  QueuedHasSlots
<1> SUFFICES ASSUME stage = "idle", NEW r \in Requests, Live(r),
                    NEW pos \in (req[r].cachedLen + 1) .. MaxSeqLen
             PROVE  slot_of(r, pos) \in Range(alloc[req[r].row])
  BY DEF QueuedHasSlots
<1>1. ~ Adding(r)
  BY DEF Adding
<1> QED
  BY <1>1, OwnSlots DEF SlotInv

\* As long as no add_request fails for want of slots, whatever the page size: a
\* request in the queue has slots of its own for every position behind its reused
\* prefix, no slot is in two places, and each request reads back what was
\* computed for its own tokens.
THEOREM HistoriesAreIntact ==
  ASSUME EngineBounds
  PROVE  Spec /\ [][~ allocate_fails]_vars => [](QueuedHasSlots /\ SlotsApart /\ HistoryIntact)
<1>1. Init => Inv /\ SlotInv
  BY InitInv, InitSlotInv
<1>2. Inv /\ SlotInv /\ [Next]_vars /\ [~ allocate_fails]_vars => Inv' /\ SlotInv'
  <2> SUFFICES ASSUME Inv, SlotInv, [Next]_vars, [~ allocate_fails]_vars
               PROVE  Inv' /\ SlotInv'
    OBVIOUS
  <2>1. Inv'
    BY StepInv
  <2>2. CASE ~ allocate_fails
    BY <2>1, <2>2, StepSlotInv
  <2>3. CASE UNCHANGED vars
    <3>1. ~ allocate_fails
      BY <2>3 DEF allocate_fails, vars
    <3> QED
      BY <2>1, <3>1, StepSlotInv
  <2> QED
    BY <2>1, <2>2, <2>3
<1>3. Inv /\ SlotInv => QueuedHasSlots /\ SlotsApart /\ HistoryIntact
  BY SlotInvGivesQueued, SlotInvGivesHistory DEF SlotInv
<1> QED
  BY <1>1, <1>2, <1>3, PTL DEF Spec

-----------------------------------------------------------------------------
(***************************************************************************)
(* No slot is lost, with pages of one token.  (With larger pages a request *)
(* that stops in the middle of a page gives that page neither to the tree  *)
(* nor back to the pool.)                                                  *)
(***************************************************************************)
\* The allocation of a request the scheduler can run ends where its row ends.
AllocationsFit ==
  \A r \in Requests : Live(r) /\ ~ Adding(r) =>
    Len(alloc[req[r].row]) = MaxSeqLen - req[r].cachedLen

\* Every slot but slot 0 is somewhere.
NoSlotLost ==
  \A s \in Slots \ {0} :
    \/ s \in Range(freeSlots)
    \/ \E row \in Rows : s \in Range(alloc[row])
    \/ \E x \in DOMAIN tree.value : s \in Range(tree.value[x])

OwnedInv == AllocationsFit /\ NoSlotLost

\* The empty engine.
LEMMA InitOwnedInv ==
  ASSUME EngineBounds, Init
  PROVE  OwnedInv
<1>1. \A r \in Requests : ~ Live(r)
  BY DEF Init, Live, NoRequest
<1>2. freeSlots = [i \in 1 .. (NumSlots - 1) |-> i] /\ NumSlots \in Nat
  BY DEF Init, EngineBounds
<1>3. \A s \in Slots \ {0} : s \in Range(freeSlots)
  BY <1>2 DEF Range, Slots
<1> QED
  BY <1>1, <1>3 DEF OwnedInv, AllocationsFit, NoSlotLost

\* A request's allocation is the slots behind its head, and no more.
LEMMA AllocationIsOwn ==
  ASSUME EngineBounds, Inv, SlotInv, OwnedInv, NEW r \in Requests, Live(r), ~ Adding(r),
         NEW s \in Range(alloc[req[r].row])
  PROVE  \E pos \in (req[r].cachedLen + 1) .. MaxSeqLen : s = slot_of(r, pos)
<1> DEFINE a == alloc[req[r].row]
           c == req[r].cachedLen
<1>1. VariablesTyped
  BY DEF Inv
<1>2. req[r].row \in Rows /\ c \in Nat /\ MaxSeqLen \in Nat
  BY <1>1 DEF VariablesTyped, RequestRecords, EngineBounds
<1>3. a \in Seq(Slots) /\ Len(a) = MaxSeqLen - c
  BY <1>1, <1>2 DEF VariablesTyped, OwnedInv, AllocationsFit
<1> HIDE DEF a
<1>4. DOMAIN a = 1 .. Len(a)
  BY <1>3, LenProperties
<1>5. PICK i \in DOMAIN a : s = a[i]
  BY DEF Range, a
<1>6. c + i \in (c + 1) .. MaxSeqLen /\ (c + i) - c = i
  BY <1>2, <1>3, <1>4, <1>5
<1> HIDE DEF c
<1>7. slot_of(r, c + i) = a[(c + i) - c]
  BY <1>6 DEF SlotInv, SlotsMapped, slot_of, a, c
<1> QED
  BY <1>5, <1>6, <1>7 DEF c

\* A step that moves no slot loses none, and keeps the allocations of the
\* requests that were there.
LEMMA NothingMoves ==
  ASSUME OwnedInv, tree'.value = tree.value, freeSlots' = freeSlots, alloc' = alloc,
         \A h \in Requests : Live(h)' /\ ~ Adding(h)' =>
           /\ Live(h) /\ ~ Adding(h)
           /\ req'[h].row = req[h].row /\ req'[h].cachedLen = req[h].cachedLen
  PROVE  OwnedInv'
<1>1. AllocationsFit'
  BY DEF OwnedInv, AllocationsFit
<1>2. NoSlotLost'
  BY DEF OwnedInv, NoSlotLost
<1> QED
  BY <1>1, <1>2 DEF OwnedInv

\* add_request and its rejection move no slot.
LEMMA AdmissionKeepsOwned ==
  ASSUME EngineBounds, Inv, SlotInv, OwnedInv, NEW r \in Requests, NEW ids \in Prompts,
         (\E m \in OutputLens : add_request(r, ids, m)) \/ reject_request(r, ids)
  PROVE  OwnedInv'
<1>1. /\ stage = "idle"
      /\ tree' = locked_match(ids) /\ freeSlots' = freeSlots /\ alloc' = alloc
  BY DEF add_request, reject_request
<1>2. tree'.value = tree.value
  BY <1>1, MatchMovesNothing
<1>3. VariablesTyped
  BY DEF Inv
<1>4. \A h \in Requests : h # r => req'[h] = req[h]
  BY <1>3 DEF add_request, reject_request, VariablesTyped
<1>5. Adding(r)' \/ ~ Live(r)'
  <2>1. CASE \E m \in OutputLens : add_request(r, ids, m)
    BY <2>1 DEF add_request, Adding
  <2>2. CASE reject_request(r, ids)
    BY <1>3, <2>2 DEF reject_request, Live, VariablesTyped, NoRequest
  <2> QED
    BY <2>1, <2>2
<1>6. \A h \in Requests : Live(h)' /\ ~ Adding(h)' =>
        /\ Live(h) /\ ~ Adding(h)
        /\ req'[h].row = req[h].row /\ req'[h].cachedLen = req[h].cachedLen
  BY <1>1, <1>4, <1>5 DEF Live, Adding
<1> QED
  BY <1>1, <1>2, <1>6, NothingMoves

\* A forward that goes on moves no slot.
LEMMA ForwardKeepsOwned ==
  ASSUME EngineBounds, Inv, SlotInv, OwnedInv, NEW r \in Requests,
         \/ \E n \in 1 .. MaxSeqLen : prefill_chunk(r, n)
         \/ \E tok \in Tokens : sample(r, tok)
  PROVE  OwnedInv'
<1>1. VariablesTyped
  BY ZenonT(60) DEF Inv
<1>2. /\ stage = "idle" /\ Live(r)
      /\ UNCHANGED <<freeSlots, alloc, tree, stage, current>>
  BY ZenonT(60) DEF prefill_chunk, sample, Live
<1>3. /\ req'[r].row = req[r].row /\ req'[r].cachedLen = req[r].cachedLen
      /\ \A h \in Requests : h # r => req'[h] = req[h]
  <2>1. ASSUME NEW n \in 1 .. MaxSeqLen, prefill_chunk(r, n)
        PROVE  /\ req'[r].row = req[r].row /\ req'[r].cachedLen = req[r].cachedLen
               /\ \A h \in Requests : h # r => req'[h] = req[h]
    <3>1. req' = [req EXCEPT ![r].done = req[r].done + n]
      BY <2>1 DEF prefill_chunk
    <3> QED
      BY <1>1, <3>1 DEF VariablesTyped, RequestRecords
  <2>2. ASSUME NEW tok \in Tokens, sample(r, tok)
        PROVE  /\ req'[r].row = req[r].row /\ req'[r].cachedLen = req[r].cachedLen
               /\ \A h \in Requests : h # r => req'[h] = req[h]
    <3>1. req' = [req EXCEPT ![r].ids = Append(req[r].ids, tok), ![r].done = Len(req[r].ids),
                             ![r].phase = "decode"]
      BY <2>2 DEF sample
    <3> QED
      BY <1>1, <3>1, SMTT(60) DEF VariablesTyped, RequestRecords
  <2> QED
    BY <2>1, <2>2
<1>4. \A h \in Requests : Adding(h)' <=> Adding(h)
  BY <1>2 DEF Adding
<1>5. tree'.value = tree.value /\ freeSlots' = freeSlots /\ alloc' = alloc
  BY <1>2
<1>6. \A h \in Requests : Live(h)' /\ ~ Adding(h)' =>
        /\ Live(h) /\ ~ Adding(h)
        /\ req'[h].row = req[h].row /\ req'[h].cachedLen = req[h].cachedLen
  BY <1>2, <1>3, <1>4 DEF Live
<1> QED
  BY <1>5, <1>6, NothingMoves

\* The allocation: the head of the free list goes to the row, all of it needed.
LEMMA AllocateKeepsOwned ==
  ASSUME EngineBounds, Inv, SlotInv, OwnedInv, PageSize = 1, allocate
  PROVE  OwnedInv'
<1> DEFINE row == req[current].row
           n == Len(freeSlots)
           slots == SubSeq(freeSlots, 1, need)
           rest == SubSeq(freeSlots, need + 1, n)
<1>1. /\ stage # "idle" /\ need <= n
      /\ freeSlots' = rest
      /\ alloc' = [alloc EXCEPT ![row] = slots]
      /\ tree' = tree /\ req' = req /\ stage' = "idle"
  BY DEF allocate
<1>2. /\ row \in Rows /\ need \in Nat /\ need = MaxSeqLen - req[current].cachedLen
      /\ current \in Requests /\ Live(current)
  BY <1>1, NeedCovers
<1>3. VariablesTyped /\ RowsApart
  BY DEF Inv
<1>4. freeSlots \in Seq(Slots) /\ n \in Nat /\ DOMAIN freeSlots = 1 .. n
  BY <1>3, LenProperties DEF VariablesTyped
<1>5. Len(slots) = need /\ Range(slots) = {freeSlots[i] : i \in 1 .. need}
  <2>1. need \in Nat /\ need <= Len(freeSlots) /\ freeSlots \in Seq(Slots)
    BY <1>1, <1>2, <1>4
  <2>2. /\ DOMAIN slots = 1 .. (need - 1 + 1)
        /\ \A i \in 1 .. (need - 1 + 1) : slots[i] = freeSlots[1 + i - 1]
        /\ Range(slots) = {freeSlots[i] : i \in 1 .. need}
    BY <2>1, Slice
  <2>3. slots \in Seq(Slots)
    BY <2>1, Slice
  <2> HIDE DEF slots
  <2>4. DOMAIN slots = 1 .. Len(slots) /\ Len(slots) \in Nat
    BY <2>3, LenProperties
  <2>5. Len(slots) = need
    BY <1>2, <2>2, <2>4
  <2> QED
    BY <2>2, <2>5
<1>6. Range(rest) = {freeSlots[i] : i \in (need + 1) .. n}
  <2> DEFINE a == need + 1
  <2>1. a \in Nat \ {0} /\ n <= Len(freeSlots)
    BY <1>2, <1>4
  <2> HIDE DEF n
  <2>2. /\ DOMAIN SubSeq(freeSlots, a, n) = 1 .. (n - a + 1)
        /\ \A i \in 1 .. (n - a + 1) : SubSeq(freeSlots, a, n)[i] = freeSlots[a + i - 1]
        /\ Range(SubSeq(freeSlots, a, n)) = {freeSlots[i] : i \in a .. n}
    <3> HIDE DEF a
    <3> QED
      BY <1>4, <2>1, Slice
  <2> QED
    BY <2>2
<1> HIDE DEF slots, rest, n
<1>7. Range(freeSlots) = Range(slots) \union Range(rest)
  <2>1. Range(freeSlots) = {freeSlots[i] : i \in 1 .. n}
    BY <1>4 DEF Range
  <2>2. 1 .. n = (1 .. need) \union ((need + 1) .. n)
    BY <1>1, <1>2, <1>4
  <2> QED
    BY <1>5, <1>6, <2>1, <2>2
<1>8. /\ alloc'[row] = slots
      /\ \A other \in Rows : other # row => alloc'[other] = alloc[other]
  BY <1>1, <1>2, <1>3 DEF VariablesTyped
<1>9. alloc[row] = <<>>
  BY <1>1 DEF SlotInv, SlotsMapped
<1>10. NoSlotLost'
  <2> SUFFICES ASSUME NEW s \in Slots \ {0}
               PROVE  \/ s \in Range(rest)
                      \/ \E other \in Rows : s \in Range(alloc'[other])
                      \/ \E x \in DOMAIN tree.value : s \in Range(tree.value[x])
    BY <1>1 DEF NoSlotLost
  <2>1. CASE s \in Range(freeSlots)
    BY <1>2, <1>7, <1>8, <2>1
  <2>2. CASE \E other \in Rows : s \in Range(alloc[other])
    <3>1. PICK other \in Rows : s \in Range(alloc[other])
      BY <2>2
    <3>2. other # row
      BY <1>9, <3>1, EmptySeq DEF Range
    <3> QED
      BY <1>8, <3>1, <3>2
  <2> QED
    BY <2>1, <2>2 DEF OwnedInv, NoSlotLost
<1>11. AllocationsFit'
  <2> SUFFICES ASSUME NEW h \in Requests, Live(h)
               PROVE  Len(alloc'[req[h].row]) = MaxSeqLen - req[h].cachedLen
    BY <1>1 DEF AllocationsFit, Live
  <2>1. CASE h = current
    BY <1>2, <1>5, <1>8, <2>1
  <2>2. CASE h # current
    <3>1. req[h].row # row /\ req[h].row \in Rows /\ ~ Adding(h)
      BY <1>2, <1>3, <2>2 DEF RowsApart, VariablesTyped, RequestRecords, Adding
    <3> QED
      BY <1>8, <3>1 DEF OwnedInv, AllocationsFit
  <2> QED
    BY <2>1, <2>2
<1> QED
  BY <1>10, <1>11 DEF OwnedInv

\* One pop of evict(): the leaf's slots go to the free list.
LEMMA EvictPopKeepsOwned ==
  ASSUME EngineBounds, Inv, SlotInv, OwnedInv, evict_pop
  PROVE  OwnedInv'
<1>1. PICK n \in nodes(tree) :
        /\ tree' = drop_leaf(tree, n)
        /\ freeSlots' = sorted(freeSlots \o SetToSeq(leaf_slots(tree, n)))
        /\ stage' = IF toEvict' = 0 THEN "retry" ELSE "evict"
  BY DEF evict_pop
<1>2. stage = "evict" /\ UNCHANGED <<alloc, req, current>>
  BY DEF evict_pop
<1>3. VariablesTyped /\ TreeSound /\ TreeInv(tree, PageSet)
  BY DEF Inv, TreeSound
<1> DEFINE E == edge(tree, n)
           L == leaf_slots(tree, n)
           l == SetToSeq(L)
<1>4. /\ DOMAIN tree'.value = DOMAIN tree.value \ E
      /\ \A x \in DOMAIN tree'.value : tree'.value[x] = tree.value[x]
  BY <1>1, <1>3, DropFields DEF TreeInv
<1>5. L \in SUBSET Slots /\ l \in Seq(Slots) /\ Range(l) = L
  BY <1>3, LeafSlots, SetAsList
<1>6. \A x \in E : Range(tree.value[x]) \subseteq L
  BY DEF leaf_slots
<1> HIDE DEF E, L, l
<1>7. Range(freeSlots') = Range(freeSlots) \union L
  <2>1. Slots \in SUBSET Int /\ freeSlots \in Seq(Slots)
    BY <1>3 DEF Slots, VariablesTyped
  <2>2. freeSlots' = sorted(freeSlots \o l)
    BY <1>1 DEF l, L
  <2> QED
    BY <1>5, <2>1, <2>2, SortedUnion
<1>8. NoSlotLost'
  BY <1>2, <1>4, <1>6, <1>7 DEF OwnedInv, NoSlotLost
<1>9. AllocationsFit'
  <2>1. \A h \in Requests : (Live(h)' <=> Live(h)) /\ (Adding(h)' <=> Adding(h))
    BY <1>1, <1>2 DEF Live, Adding
  <2> QED
    BY <1>2, <2>1 DEF OwnedInv, AllocationsFit
<1> QED
  BY <1>8, <1>9 DEF OwnedInv

\* A request leaves its row, its slots having found a place.
LEMMA LeavingKeepsOwned ==
  ASSUME EngineBounds, Inv, SlotInv, OwnedInv, NEW r \in Requests, Live(r), stage = "idle",
         UNCHANGED <<stage, current>>,
         alloc' = [alloc EXCEPT ![req[r].row] = <<>>],
         \A h \in Requests : h # r => req'[h] = req[h],
         ~ Live(r)',
         Range(freeSlots) \subseteq Range(freeSlots'),
         \A x \in DOMAIN tree.value :
           x \in DOMAIN tree'.value /\ tree'.value[x] = tree.value[x],
         \A s \in Range(alloc[req[r].row]) :
           \/ s \in Range(freeSlots')
           \/ \E x \in DOMAIN tree'.value : s \in Range(tree'.value[x])
  PROVE  OwnedInv'
<1>1. VariablesTyped /\ RowsApart
  BY DEF Inv
<1>2. req[r].row \in Rows
  BY <1>1 DEF VariablesTyped, RequestRecords
<1>3. \A other \in Rows : other # req[r].row => alloc'[other] = alloc[other]
  BY <1>1, <1>2 DEF VariablesTyped
<1>4. NoSlotLost'
  <2> SUFFICES ASSUME NEW s \in Slots \ {0}
               PROVE  \/ s \in Range(freeSlots')
                      \/ \E row \in Rows : s \in Range(alloc'[row])
                      \/ \E x \in DOMAIN tree'.value : s \in Range(tree'.value[x])
    BY DEF NoSlotLost
  <2>1. CASE s \in Range(alloc[req[r].row])
    BY <2>1
  <2>2. CASE s \notin Range(alloc[req[r].row])
    BY <1>3, <2>2 DEF OwnedInv, NoSlotLost
  <2> QED
    BY <2>1, <2>2
<1>5. AllocationsFit'
  <2> SUFFICES ASSUME NEW h \in Requests, Live(h)'
               PROVE  Len(alloc'[req'[h].row]) = MaxSeqLen - req'[h].cachedLen
    BY DEF AllocationsFit
  <2>1. h # r /\ req'[h] = req[h] /\ Live(h) /\ ~ Adding(h)
    BY DEF Live, Adding
  <2>2. req[h].row # req[r].row /\ req[h].row \in Rows
    BY <1>1, <2>1 DEF RowsApart, VariablesTyped, RequestRecords
  <2> QED
    BY <1>3, <2>1, <2>2 DEF OwnedInv, AllocationsFit
<1> QED
  BY <1>4, <1>5 DEF OwnedInv

\* abort_request: the row's slots go back to the pool.
LEMMA AbortRequestKeepsOwned ==
  ASSUME EngineBounds, Inv, SlotInv, OwnedInv, NEW r \in Requests, abort_request(r)
  PROVE  OwnedInv'
<1> DEFINE row == req[r].row
<1>1. /\ stage = "idle" /\ Live(r)
      /\ tree' = unlock_handle(tree, req[r].handle)
      /\ freeSlots' = sorted(freeSlots \o alloc[row])
      /\ alloc' = [alloc EXCEPT ![row] = <<>>]
      /\ req' = [req EXCEPT ![r].phase = "aborted"]
      /\ UNCHANGED <<stage, current>>
  BY DEF abort_request, abort_unlocks
<1>2. VariablesTyped /\ TreeSound
  BY DEF Inv
<1>3. row \in Rows /\ r \in Holders
  BY <1>1, <1>2 DEF VariablesTyped, RequestRecords, Holders
<1>4. tree'.value = tree.value
  BY <1>1, <1>2, <1>3, ReleaseKeeps
<1>5. Range(freeSlots') = Range(freeSlots) \union Range(alloc[row])
  <2>1. Slots \in SUBSET Int /\ freeSlots \in Seq(Slots) /\ alloc[row] \in Seq(Slots)
    BY <1>2, <1>3 DEF Slots, VariablesTyped
  <2> QED
    BY <1>1, <2>1, SortedUnion, ZenonT(60)
<1>6. ~ Live(r)' /\ \A h \in Requests : h # r => req'[h] = req[h]
  BY <1>1, <1>2 DEF VariablesTyped, Live
<1>7. stage = "idle" /\ Live(r) /\ UNCHANGED <<stage, current>>
      /\ alloc' = [alloc EXCEPT ![req[r].row] = <<>>]
  BY <1>1
<1> QED
  BY <1>4, <1>5, <1>6, <1>7, LeavingKeepsOwned

\* With pages of one token, a stopping request's slots all find a place.
LEMMA AllPositionsGo ==
  ASSUME EngineBounds, Inv, PageSize = 1, NEW r \in Requests, Live(r), NEW tok \in Tokens,
         NEW pos \in (req[r].cachedLen + 1) .. MaxSeqLen
  PROVE  pos \in freed_positions(r, tok) \/ pos \in given_positions(r, tok)
<1> DEFINE c == req[r].cachedLen
           n == PageSize * held(r, tok)
           len == Len(stopped(r, tok))
           a == align_down(len)
<1>1. /\ MaxSeqLen \in Nat /\ c \in Nat /\ n \in Nat /\ a \in 0 .. len /\ len \in Nat
  BY StoppedLengths
<1>2. a = len
  <2>1. \A i \in Nat : align_down(i) \in 0 .. i /\ i < align_down(i) + PageSize
    BY Paging
  <2>2. len < a + 1 /\ a \in Int
    BY <1>1, <2>1
  <2> HIDE DEF a, len
  <2> QED
    BY <1>1, <2>2
<1> HIDE DEF c, n, len, a
<1>3. pos \in (c + 1) .. MaxSeqLen
  BY DEF c
<1>4. pos \in (c + 1) .. n \/ pos \in (len + 1) .. MaxSeqLen \/ pos \in (n + 1) .. a
  BY <1>1, <1>2, <1>3
<1> QED
  BY <1>4 DEF freed_positions, given_positions, c, n, len, a

\* With pages of one token, the tree takes the slot of every position it did not
\* hold, up to the end of the sequence.
LEMMA GivenPositionsStay ==
  ASSUME EngineBounds, Inv, SlotInv, PageSize = 1, NEW r \in Requests, NEW tok \in Tokens,
         finish(r, tok), NEW pos \in given_positions(r, tok)
  PROVE  \E x \in DOMAIN tree'.value : slot_of(r, pos) \in Range(tree'.value[x])
<1> DEFINE u == unlock_handle(tree, req[r].handle)
           p == pages(stopped(r, tok))
           k == held(r, tok)
           x == SubSeq(p, 1, pos)
<1>1. Live(r)
  BY DEF finish
<1>2. /\ r \in Holders /\ p \in Seq(PageSet) /\ Len(p) \in Nat
      /\ PageSize * Len(p) = align_down(Len(stopped(r, tok)))
      /\ k \in 0 .. Len(p)
  BY <1>1, StoppedLengths
<1>3. TreeInv(u, PageSet) /\ u.value = tree.value
  BY <1>2, ReleaseKeeps DEF Inv
<1>4. pos \in (k + 1) .. Len(p)
  <2>1. pos \in (PageSize * k + 1) .. (PageSize * Len(p))
    BY <1>2 DEF given_positions
  <2> HIDE DEF k, p
  <2> QED
    BY <1>2, <2>1
<1>5. /\ \A y \in DOMAIN u.value : IsPrefix(y, p) => IsPrefix(y, matched_path(u, p))
      /\ matched_path(u, p) \in Seq(PageSet) /\ Len(matched_path(u, p)) = k
  BY <1>2, <1>3, MatchedPath DEF held
<1> HIDE DEF u, p, k
<1>6. x \in Seq(PageSet) /\ Len(x) = pos /\ IsPrefix(x, p)
  <2>1. pos \in 0 .. Len(p)
    BY <1>2, <1>4
  <2> QED
    BY <1>2, <2>1, PrefixCut
<1> HIDE DEF x
<1>7. x # Root
  BY <1>2, <1>4, <1>6, RootPrefix
<1>8. x \notin DOMAIN u.value
  <2> SUFFICES ASSUME x \in DOMAIN u.value
               PROVE  FALSE
    OBVIOUS
  <2>1. IsPrefix(x, matched_path(u, p))
    BY <1>5, <1>6
  <2>2. Len(x) \in 0 .. Len(matched_path(u, p))
    BY <1>5, <1>6, <2>1, PrefixCut
  <2> QED
    BY <1>2, <1>4, <1>5, <1>6, <2>2
<1>9. x \in given(r, tok)
  BY <1>6, <1>7, <1>8 DEF given, missing, u, p
<1>10. 1 \in 1 .. PageSize /\ position(Len(x), 1) = pos
  BY <1>2, <1>4, <1>6 DEF position
<1>11. tree'.value[x][1] = slot_of(r, pos)
  BY <1>9, <1>10, FinishGives
<1>12. x \in DOMAIN tree'.value /\ tree'.value[x] \in Seq(Slots) /\ Len(tree'.value[x]) = PageSize
  BY <1>9, GivenPages
<1>13. tree'.value[x][1] \in Range(tree'.value[x])
  <2> DEFINE v == tree'.value[x]
  <2>1. v \in Seq(Slots) /\ Len(v) = PageSize
    BY <1>12
  <2> HIDE DEF v
  <2>2. DOMAIN v = 1 .. PageSize
    BY <2>1, LenProperties
  <2> QED
    BY <1>10, <2>2 DEF Range, v
<1> QED
  BY <1>11, <1>12, <1>13

\* finish: the row's slots go to the tree and back to the pool.
LEMMA FinishKeepsOwned ==
  ASSUME EngineBounds, Inv, SlotInv, OwnedInv, PageSize = 1,
         NEW r \in Requests, NEW tok \in Tokens, finish(r, tok)
  PROVE  OwnedInv'
<1>1. /\ stage = "idle" /\ Live(r) /\ UNCHANGED <<stage, current>>
      /\ alloc' = [alloc EXCEPT ![req[r].row] = <<>>]
  BY DEF finish
<1>2. ~ Live(r)' /\ \A h \in Requests : h # r => req'[h] = req[h]
  <2>1. VariablesTyped
    BY DEF Inv
  <2>2. req' = [req EXCEPT ![r].ids = stopped(r, tok), ![r].done = Len(req[r].ids),
                           ![r].phase = "done"]
    BY DEF finish, stopped
  <2> QED
    BY <2>1, <2>2 DEF VariablesTyped, Live
<1>3. Range(freeSlots') = Range(freeSlots) \union {slot_of(r, i) : i \in freed_positions(r, tok)}
  BY FinishFrees
<1>4. \A x \in DOMAIN tree.value : x \in DOMAIN tree'.value /\ tree'.value[x] = tree.value[x]
  BY GivenPages
<1>5. ASSUME NEW s \in Range(alloc[req[r].row])
      PROVE  \/ s \in Range(freeSlots')
             \/ \E x \in DOMAIN tree'.value : s \in Range(tree'.value[x])
  <2>1. ~ Adding(r)
    BY <1>1 DEF Adding
  <2>2. PICK pos \in (req[r].cachedLen + 1) .. MaxSeqLen : s = slot_of(r, pos)
    BY <1>1, <2>1, AllocationIsOwn
  <2>3. CASE pos \in freed_positions(r, tok)
    BY <1>3, <2>2, <2>3
  <2>4. CASE pos \in given_positions(r, tok)
    BY <2>2, <2>4, GivenPositionsStay
  <2> QED
    BY <1>1, <2>3, <2>4, AllPositionsGo
<1> QED
  BY <1>1, <1>2, <1>3, <1>4, <1>5, LeavingKeepsOwned

\* Every step but a failed allocation loses no slot.
LEMMA StepOwnedInv ==
  ASSUME EngineBounds, Inv, SlotInv, OwnedInv, PageSize = 1, [Next]_vars, ~ allocate_fails
  PROVE  OwnedInv'
<1>1. ASSUME NEW r \in Requests, NEW ids \in Prompts, NEW m \in OutputLens, add_request(r, ids, m)
      PROVE  OwnedInv'
  BY <1>1, AdmissionKeepsOwned
<1>2. ASSUME NEW r \in Requests, NEW ids \in Prompts, reject_request(r, ids)
      PROVE  OwnedInv'
  BY <1>2, AdmissionKeepsOwned
<1>3. ASSUME NEW r \in Requests, \/ \E n \in 1 .. MaxSeqLen : prefill_chunk(r, n)
                                 \/ \E tok \in Tokens : sample(r, tok)
      PROVE  OwnedInv'
  BY <1>3, ForwardKeepsOwned
<1>4. ASSUME NEW r \in Requests, NEW tok \in Tokens, finish(r, tok)
      PROVE  OwnedInv'
  BY <1>4, FinishKeepsOwned
<1>5. ASSUME NEW r \in Requests, abort_request(r)
      PROVE  OwnedInv'
  BY <1>5, AbortRequestKeepsOwned
<1>6. CASE Allocation
  <2>1. CASE begin_evict
    <3>1. /\ tree' = tree /\ freeSlots' = freeSlots /\ alloc' = alloc /\ req' = req
          /\ current' = current /\ stage # "idle" /\ stage' # "idle"
      BY <2>1 DEF begin_evict
    <3> QED
      BY <3>1, NothingMoves DEF Live, Adding
  <2> QED
    BY <1>6, <2>1, AllocateKeepsOwned, EvictPopKeepsOwned DEF Allocation
<1>7. CASE UNCHANGED vars
  BY <1>7, NothingMoves DEF vars, Live, Adding
<1> QED
  BY <1>1, <1>2, <1>3, <1>4, <1>5, <1>6, <1>7 DEF Next, Operation

\* A slot that is somewhere is in one place.
LEMMA InOnePlace ==
  ASSUME SlotsApart, NEW s
  PROVE  /\ s \in Range(freeSlots) =>
              (\E i : free_places(s) = {i}) /\ row_places(s) = {} /\ tree_places(s) = {}
         /\ (\E row \in Rows : s \in Range(alloc[row])) =>
              free_places(s) = {} /\ (\E i : row_places(s) = {i}) /\ tree_places(s) = {}
         /\ (\E x \in DOMAIN tree.value : s \in Range(tree.value[x])) =>
              free_places(s) = {} /\ row_places(s) = {} /\ \E x : tree_places(s) = {x}
<1>1. s \in Range(freeSlots) <=> free_places(s) # {}
  BY DEF Range, free_places
<1>2. (\E row \in Rows : s \in Range(alloc[row])) <=> row_places(s) # {}
  <2>1. ASSUME NEW row \in Rows, s \in Range(alloc[row])
        PROVE  row_places(s) # {}
    <3>1. PICK i \in DOMAIN alloc[row] : alloc[row][i] = s
      BY <2>1 DEF Range
    <3>2. <<row, i>> \in {row} \X {j \in DOMAIN alloc[row] : alloc[row][j] = s}
      BY <3>1
    <3>3. <<row, i>> \in row_places(s)
      BY <3>2 DEF row_places
    <3> QED
      BY <3>3
  <2>2. ASSUME NEW e \in row_places(s)
        PROVE  \E row \in Rows : s \in Range(alloc[row])
    <3>1. PICK row \in Rows : e \in {row} \X {j \in DOMAIN alloc[row] : alloc[row][j] = s}
      BY <2>2 DEF row_places
    <3>2. \E j \in DOMAIN alloc[row] : alloc[row][j] = s
      BY <3>1
    <3> QED
      BY <3>2 DEF Range
  <2> QED
    BY <2>1, <2>2
<1>3. (\E x \in DOMAIN tree.value : s \in Range(tree.value[x])) <=> tree_places(s) # {}
  BY DEF tree_places
<1>4. free_places(s) # {} => \E i : free_places(s) = {i}
  BY DEF SlotsApart, IsInjective, free_places
<1>5. tree_places(s) # {} => \E x : tree_places(s) = {x}
  <2> SUFFICES ASSUME NEW x \in tree_places(s)
               PROVE  tree_places(s) = {x}
    OBVIOUS
  <2>1. \A y \in tree_places(s) : y = x
    BY DEF SlotsApart, tree_places
  <2> QED
    BY <2>1
<1>6. row_places(s) # {} => \E i : row_places(s) = {i}
  <2> SUFFICES ASSUME row_places(s) # {}
               PROVE  \E i : row_places(s) = {i}
    OBVIOUS
  <2>1. PICK row \in Rows : \E i \in DOMAIN alloc[row] : alloc[row][i] = s
    BY DEF row_places
  <2> PICK i \in DOMAIN alloc[row] : alloc[row][i] = s
    BY <2>1
  <2>2. s \in Range(alloc[row])
    BY DEF Range
  <2>3. ASSUME NEW other \in Rows, NEW j \in DOMAIN alloc[other], alloc[other][j] = s
        PROVE  other = row /\ j = i
    <3>1. s \in Range(alloc[other])
      BY <2>3 DEF Range
    <3>2. other = row
      BY <2>2, <3>1 DEF SlotsApart
    <3> QED
      BY <2>3, <3>2 DEF SlotsApart, IsInjective
  <2>4. row_places(s) = {<<row, i>>}
    <3>1. \A e \in row_places(s) : e = <<row, i>>
      BY <2>3 DEF row_places
    <3>2. <<row, i>> \in row_places(s)
      BY DEF row_places
    <3> QED
      BY <3>1, <3>2
  <2> QED
    BY <2>4
<1>7. s \in Range(freeSlots) => row_places(s) = {} /\ tree_places(s) = {}
  BY <1>2, <1>3 DEF SlotsApart
<1>8. (\E row \in Rows : s \in Range(alloc[row])) => free_places(s) = {} /\ tree_places(s) = {}
  BY <1>1, <1>3 DEF SlotsApart
<1>9. (\E x \in DOMAIN tree.value : s \in Range(tree.value[x])) =>
        free_places(s) = {} /\ row_places(s) = {}
  BY <1>1, <1>2 DEF SlotsApart
<1> QED
  BY <1>1, <1>2, <1>3, <1>4, <1>5, <1>6, <1>7, <1>8, <1>9

\* Apart and nowhere lost: each slot has one owner.
LEMMA OwnedInvGivesOwnership ==
  ASSUME SlotsApart, NoSlotLost
  PROVE  SlotOwnership
<1> SUFFICES ASSUME NEW s \in Slots \ {0}
             PROVE  Owners(s) = 1
  BY DEF SlotOwnership
<1> DEFINE f == free_places(s)
           w == row_places(s)
           t == tree_places(s)
<1>1. \/ (\E i : f = {i}) /\ w = {} /\ t = {}
      \/ f = {} /\ (\E i : w = {i}) /\ t = {}
      \/ f = {} /\ w = {} /\ \E i : t = {i}
  BY InOnePlace DEF NoSlotLost
<1>2. Cardinality({}) = 0 /\ \A i : Cardinality({i}) = 1
  BY FS_EmptySet, FS_Singleton
<1> HIDE DEF f, w, t
<1>3. Cardinality(f) + Cardinality(w) + Cardinality(t) = 1
  <2>1. \/ Cardinality(f) = 1 /\ Cardinality(w) = 0 /\ Cardinality(t) = 0
        \/ Cardinality(f) = 0 /\ Cardinality(w) = 1 /\ Cardinality(t) = 0
        \/ Cardinality(f) = 0 /\ Cardinality(w) = 0 /\ Cardinality(t) = 1
    BY <1>1, <1>2, Zenon
  <2> QED
    BY <2>1
<1> QED
  BY <1>3 DEF Owners, f, w, t

\* As long as no add_request fails for want of slots, and with pages of one
\* token: add, evict, commit and abort neither leak a slot nor hand it out
\* twice.  (After a failed add_request the request stays queued, and finishing
\* it frees slots that were never its own: see QueuedHasSlots.)
THEOREM SlotsHaveOneOwner ==
  ASSUME EngineBounds, PageSize = 1
  PROVE  Spec /\ [][~ allocate_fails]_vars => []SlotOwnership
<1>1. Init => Inv /\ SlotInv /\ OwnedInv
  BY InitInv, InitSlotInv, InitOwnedInv
<1>2. Inv /\ SlotInv /\ OwnedInv /\ [Next]_vars /\ [~ allocate_fails]_vars =>
        Inv' /\ SlotInv' /\ OwnedInv'
  <2> SUFFICES ASSUME Inv, SlotInv, OwnedInv, [Next]_vars, [~ allocate_fails]_vars
               PROVE  Inv' /\ SlotInv' /\ OwnedInv'
    OBVIOUS
  <2>1. ~ allocate_fails
    BY DEF allocate_fails, vars
  <2> QED
    BY <2>1, StepInv, StepSlotInv, StepOwnedInv
<1>3. Inv /\ SlotInv /\ OwnedInv => SlotOwnership
  BY OwnedInvGivesOwnership DEF SlotInv, OwnedInv
<1> QED
  BY <1>1, <1>2, <1>3, PTL DEF Spec
=============================================================================
