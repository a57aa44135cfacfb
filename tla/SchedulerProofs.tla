---------------------------- MODULE SchedulerProofs ----------------------------
(***************************************************************************)
(* Proofs about Scheduler, for any number of requests, rows, tokens per    *)
(* step and any prompt and output lengths.                                 *)
(***************************************************************************)
EXTENDS Scheduler, TLAPS, FiniteSetTheorems, SequenceTheorems

\* The i-th index at or after the cursor is an index of the list.
LEMMA ShiftIndex ==
  ASSUME NEW n \in Nat, NEW c \in Nat \ {0}, NEW i \in 1 .. (n - c + 1)
  PROVE  c + i - 1 \in 1 .. n
OBVIOUS

\* An index before the cursor is an index of the list, and none at or after it.
LEMMA EarlierIndex ==
  ASSUME NEW n \in Nat, NEW c \in Nat \ {0},
         NEW i \in 1 .. (n - c + 1), NEW j \in 1 .. (c - 1)
  PROVE  j \in 1 .. n /\ c + i - 1 # j
OBVIOUS

\* An index at or after the cursor, counted from the cursor.
LEMMA UnshiftIndex ==
  ASSUME NEW n \in Nat, NEW c \in Nat \ {0},
         NEW i \in 1 .. n, ~(i <= c - 1)
  PROVE  i - c + 1 \in 1 .. (n - c + 1) /\ c + (i - c + 1) - 1 = i
OBVIOUS

\* max_tokens // steps, the share of the budget, is a natural number.
LEMMA DivNat ==
  ASSUME NEW a \in Nat, NEW b \in Nat \ {0}
  PROVE  a \div b \in Nat
OBVIOUS

\* The entry the admission loop looks at is a request.
LEMMA CursorEntry ==
  ASSUME TypeOK, adder.cursor <= Len(pendingList)
  PROVE  pendingList[adder.cursor] \in Requests
BY ElementOfSeq DEF TypeOK

\* The chunk _add_one_req builds is a well-formed Req.
LEMMA BuiltReqType ==
  ASSUME TypeOK, NEW r \in Requests, admissible(r)
  PROVE  built_req(r) \in ReqRecord /\ chunk_size(r) \in Int
<1>1. /\ req[r] \in ReqRecord
      /\ pending[r] \in PendingRecord
      /\ adder.tokenBudget \in Int
      /\ adder.tokenBudget > 0
  BY DEF TypeOK, admissible
<1>2. chunk_start(r) \in Nat
  BY <1>1 DEF chunk_start, ReqRecord, PendingRecord
<1>3. chunk_size(r) \in Int /\ chunk_start(r) + chunk_size(r) \in Nat
  BY <1>1, <1>2 DEF chunk_size, PendingRecord
<1>4. QED
  BY <1>1, <1>2, <1>3 DEF built_req, ReqRecord, PendingRecord

\* RemoveAt deletes one entry of a sequence.
LEMMA RemoveAtSeq ==
  ASSUME NEW S, NEW s \in Seq(S), NEW i \in 1 .. Len(s)
  PROVE  /\ RemoveAt(s, i) \in Seq(S)
         /\ Len(RemoveAt(s, i)) = Len(s) - 1
         /\ \A j \in 1 .. (Len(s) - 1) :
              RemoveAt(s, i)[j] = IF j < i THEN s[j] ELSE s[j + 1]
<1> DEFINE u == SubSeq(s, 1, i - 1)
           v == SubSeq(s, i + 1, Len(s))
<1>1. Len(s) \in Nat
  BY LenProperties
<1>2. /\ u \in Seq(S) /\ Len(u) = i - 1
      /\ \A j \in 1 .. (i - 1) : u[j] = s[j]
  BY <1>1, SubSeqProperties
<1>3. /\ v \in Seq(S) /\ Len(v) = Len(s) - i
      /\ \A j \in 1 .. (Len(s) - i) : v[j] = s[i + j]
  BY <1>1, SubSeqProperties
<1> HIDE DEF u, v
<1>4. /\ u \o v \in Seq(S) /\ Len(u \o v) = Len(s) - 1
      /\ \A j \in 1 .. (Len(s) - 1) :
           (u \o v)[j] = IF j <= i - 1 THEN u[j] ELSE v[j - (i - 1)]
  <2>1. Len(u) + Len(v) = Len(s) - 1
    BY <1>1, <1>2, <1>3
  <2>2. /\ u \o v \in Seq(S) /\ Len(u \o v) = Len(u) + Len(v)
        /\ \A j \in 1 .. Len(u) + Len(v) :
             (u \o v)[j] = IF j <= Len(u) THEN u[j] ELSE v[j - Len(u)]
    BY <1>2, <1>3, ConcatProperties
  <2>3. QED
    BY <1>2, <2>1, <2>2
<1>5. \A j \in 1 .. (Len(s) - 1) :
        (u \o v)[j] = IF j < i THEN s[j] ELSE s[j + 1]
  <2> SUFFICES ASSUME NEW j \in 1 .. (Len(s) - 1)
               PROVE  (u \o v)[j] = IF j < i THEN s[j] ELSE s[j + 1]
    OBVIOUS
  <2>1. CASE j < i
    BY <2>1, <1>1, <1>2, <1>4
  <2>2. CASE ~(j < i)
    <3>1. /\ j - (i - 1) \in 1 .. (Len(s) - i)
          /\ i + (j - (i - 1)) = j + 1
      BY <2>2, <1>1
    <3>2. QED
      BY <2>2, <3>1, <1>1, <1>3, <1>4
  <2>3. QED
    BY <2>1, <2>2
<1>6. QED
  BY <1>4, <1>5 DEF RemoveAt, u, v

\* What complete() frees is a number of rows.
LEMMA FreedCountType ==
  ASSUME TypeOK, NEW row, NEW reqOf, NEW kept
  PROVE  freed_count(row, reqOf, kept) \in Nat
<1>1. IsFiniteSet({r \in runningReqs \ kept : pending[r].tableIdx = row})
  BY FS_Subset, SchedulerAssumption DEF TypeOK
<1>2. QED
  BY <1>1, FS_CardinalityType DEF freed_count

-----------------------------------------------------------------------------
(***************************************************************************)
(* The steps generate() grants, counted: a sum over requests is the size   *)
(* of a disjoint union, in which each request tags a set of integers.      *)
(***************************************************************************)
\* The disjoint union of the sets f gives the members of R.
tagged(f, R) == UNION {{r} \X f[r] : r \in R}

budget(r) == generate_budget(pending[r].inputLen, pending[r].outputLen)

\* The steps each request may take part in.
Grants == [r \in Requests |-> 1 .. budget(r)]

\* A disjoint union of finitely many finite sets is finite.
LEMMA TaggedFinite ==
  ASSUME NEW R, IsFiniteSet(R), NEW f, \A r \in R : IsFiniteSet(f[r])
  PROVE  IsFiniteSet(tagged(f, R))
<1> DEFINE T == {{r} \X f[r] : r \in R}
           g == [r \in R |-> {r} \X f[r]]
<1>1. g \in Surjection(R, T)
  BY DEF Surjection
<1>2. IsFiniteSet(T)
  BY <1>1, FS_Surjection
<1>3. \A r \in R : IsFiniteSet({r} \X f[r])
  BY FS_Singleton, FS_Product
<1> QED
  BY <1>2, <1>3, FS_UNION DEF tagged

\* A request is granted a number of steps, and a queue finitely many.
LEMMA GrantsType ==
  ASSUME TypeOK, NEW R \in SUBSET Requests
  PROVE  /\ \A r \in Requests : budget(r) \in Nat
         /\ IsFiniteSet(tagged(Grants, R))
<1>1. \A r \in Requests : budget(r) \in Nat
  <2> SUFFICES ASSUME NEW r \in Requests PROVE budget(r) \in Nat
    OBVIOUS
  <2>1. /\ pending[r].inputLen + MaxExtendTokens - 1 \in Nat
        /\ pending[r].outputLen \in Nat /\ MaxExtendTokens \in Nat \ {0}
    BY SchedulerAssumption DEF TypeOK, PendingRecord
  <2>2. (pending[r].inputLen + MaxExtendTokens - 1) \div MaxExtendTokens \in Nat
    BY <2>1, DivNat
  <2> QED
    BY <2>1, <2>2 DEF budget, generate_budget
<1>2. \A r \in R : Grants[r] = 1 .. budget(r)
  BY DEF Grants
<1>3. \A r \in R : IsFiniteSet(Grants[r])
  BY <1>1, <1>2, FS_Interval
<1>4. IsFiniteSet(R)
  BY FS_Subset, SchedulerAssumption
<1> QED
  BY <1>1, <1>3, <1>4, TaggedFinite

(***************************************************************************)
(* Type correctness.                                                       *)
(***************************************************************************)
LEMMA InitTypeOK == Init => TypeOK
BY SchedulerAssumption DEF Init, TypeOK, Rows, NoPending, NoReq, IdleAdder,
                           PendingRecord, ReqRecord

\* A sampled request's Req stays well-formed.
LEMMA AfterSampleType ==
  ASSUME TypeOK, NEW r \in Requests, NEW eos
  PROVE  after_sample(r, eos) \in ReqRecord
<1>1. req[r] \in ReqRecord
  BY DEF TypeOK
<1>2. QED
  BY <1>1 DEF after_sample, ReqRecord

\* Every step of the scheduler keeps the types, one case per action.
LEMMA NextTypeOK ==
  ASSUME TypeOK, [Next]_vars
  PROVE  TypeOK'
<1> USE DEF TypeOK
<1>1. ASSUME NEW r \in Requests, NEW n \in PromptLens, NEW m \in OutputLens,
             NEW c \in 0 .. (n - 1), add(r, n, c, m)
      PROVE  TypeOK'
  <2>1. n \in Nat /\ m \in Nat /\ c \in Nat
    BY SchedulerAssumption
  <2>2. PICK row \in Rows :
          /\ lowest_free(row)
          /\ freeSlots' = [freeSlots EXCEPT ![row] = @ - 1]
          /\ pending' = [pending EXCEPT ![r] =
                           [inputLen |-> n, cachedLen |-> c,
                            outputLen |-> m, tableIdx |-> row]]
    BY <1>1 DEF add
  <2>3. freeSlots' \in [Rows -> Nat]
    BY <2>2 DEF lowest_free
  <2>4. pending' \in [Requests -> PendingRecord]
    BY <2>1, <2>2 DEF PendingRecord
  <2>5. pendingList' \in Seq(Requests)
    BY <1>1, AppendProperties DEF add
  <2>6. kv' \in [Requests -> SUBSET Int]
    BY <1>1, <2>1 DEF add
  <2>7. QED
    BY <1>1, <2>3, <2>4, <2>5, <2>6 DEF add
<1>2. ASSUME NEW r \in Requests, abort(r)
      PROVE  TypeOK'
  <2>1. pendingList' \in Seq(Requests)
    BY <1>2, RemoveAtSeq DEF abort
  <2>2. freeSlots' \in [Rows -> Nat]
    BY <1>2 DEF abort, PendingRecord
  <2>3. QED
    BY <1>2, <2>1, <2>2 DEF abort
<1>3. CASE begin_pass
  <2>1. Cardinality(runningReqs) \in Nat
    BY FS_Subset, FS_CardinalityType, SchedulerAssumption
  <2>2. <<>> \in Seq(Requests)
    BY EmptySeq
  <2>3. QED
    BY <1>3, <2>1, <2>2, SchedulerAssumption DEF begin_pass
<1>4. CASE admit_one
  <2> DEFINE r == pendingList[adder.cursor]
  <2>1. r \in Requests /\ admissible(r)
    BY <1>4, CursorEntry DEF admit_one
  <2>2. built_req(r) \in ReqRecord /\ chunk_size(r) \in Int
    BY <2>1, BuiltReqType
  <2>3. req' \in [Requests -> ReqRecord]
    BY <1>4, <2>1, <2>2 DEF admit_one
  <2>4. /\ adder'.cursor \in Nat \ {0}
        /\ adder'.tokenBudget \in Int
        /\ adder'.runningCount \in Int
        /\ adder'.admitted \in SUBSET Requests
        /\ adder'.skipped \in Seq(Requests)
    BY <1>4, <2>1, <2>2, SMTT(60) DEF admit_one
  <2>5. Append(adder.chunked, r) \in Seq(Requests)
    BY <2>1, AppendProperties
  <2>6. adder'.chunked \in Seq(Requests)
    BY <1>4, <2>5 DEF admit_one
  <2>7. QED
    BY <1>4, <2>3, <2>4, <2>6 DEF admit_one
<1>5. CASE skip_one
  <2> DEFINE r == pendingList[adder.cursor]
             rest == SubSeq(pendingList, adder.cursor, Len(pendingList))
  <2>1. r \in Requests
    BY <1>5, CursorEntry DEF skip_one
  <2>2. Append(adder.skipped, r) \in Seq(Requests)
    BY <2>1, AppendProperties
  <2>3. \A i \in adder.cursor .. Len(pendingList) : pendingList[i] \in Requests
    BY ElementOfSeq
  <2>4. rest \in Seq(Requests)
    BY <2>3, LenProperties, SubSeqProperties
  <2>5. adder.skipped \o rest \in Seq(Requests)
    BY <2>4, ConcatProperties
  <2>6. adder'.skipped \in Seq(Requests)
    BY <1>5, <2>2, <2>5 DEF skip_one
  <2>7. /\ adder'.cursor \in Nat \ {0}
        /\ adder'.tokenBudget \in Int
        /\ adder'.runningCount \in Int
        /\ adder'.admitted \in SUBSET Requests
        /\ adder'.chunked \in Seq(Requests)
    BY <1>5, LenProperties DEF skip_one
  <2>8. QED
    BY <1>5, <2>6, <2>7 DEF skip_one
<1>6. CASE prefill_batch
  <2>1. pendingList' \in Seq(Requests)
    BY <1>6, ConcatProperties DEF prefill_batch, requeued
  <2>2. QED
    BY <1>6, <2>1, EmptySeq DEF prefill_batch, requeued, IdleAdder
<1>7. CASE decode_batch
  BY <1>7, EmptySeq DEF decode_batch, IdleAdder
<1>8. CASE idle_step
  BY <1>8, EmptySeq DEF idle_step, IdleAdder
<1>9. ASSUME NEW eos \in SUBSET sampled, complete(eos)
      PROVE  TypeOK'
  <2> DEFINE reqOf == [r \in Requests |->
                         IF r \in sampled THEN after_sample(r, eos) ELSE req[r]]
             kept == filter_reqs(reqOf)
  <2>1. reqOf \in [Requests -> ReqRecord]
    BY AfterSampleType
  <2>2. req' \in [Requests -> ReqRecord]
    BY <1>9, <2>1 DEF complete
  <2>3. \A row \in Rows : freed_count(row, reqOf, kept) \in Nat
    BY FreedCountType
  <2>4. freeSlots' = [row \in Rows |->
                        freeSlots[row] + freed_count(row, reqOf, kept)]
    BY <1>9 DEF complete
  <2> HIDE DEF reqOf, kept
  <2>5. freeSlots' \in [Rows -> Nat]
    BY <2>3, <2>4
  <2>6. \A r \in Requests : written(r) \in SUBSET Int
    BY DEF written, ReqRecord
  <2>7. kv' \in [Requests -> SUBSET Int]
    BY <1>9, <2>6 DEF complete
  <2>8. runningReqs' \in SUBSET Requests
    BY <1>9 DEF complete, filter_reqs
  <2>9. outcome' \in [Requests -> {"new", "live", "done", "aborted"}]
    BY <1>9 DEF complete
  <2>10. QED
    BY <1>9, <2>2, <2>5, <2>7, <2>8, <2>9 DEF complete
<1>10. CASE generate
  <2>1. Range(pendingList) \in SUBSET Requests
    BY RangeEquality, ElementOfSeq
  <2>2. stepBudget' = Cardinality(tagged(Grants, Range(pendingList))) + Cardinality(runningReqs)
    <3>1. \A r \in Range(pendingList) : Grants[r] = 1 .. budget(r)
      BY <2>1 DEF Grants
    <3> QED
      BY <1>10, <3>1 DEF generate, tagged, budget
  <2>3. Cardinality(tagged(Grants, Range(pendingList))) \in Nat
    BY <2>1, GrantsType, FS_CardinalityType
  <2>4. Cardinality(runningReqs) \in Nat
    BY FS_Subset, FS_CardinalityType, SchedulerAssumption
  <2> HIDE DEF TypeOK
  <2>5. stepBudget' \in Nat
    BY <2>2, <2>3, <2>4
  <2>6. QED
    BY <1>10, <2>1, <2>5 DEF generate, TypeOK
<1>11. CASE UNCHANGED vars
  BY <1>11 DEF vars
<1>12. QED
  BY <1>1, <1>2, <1>3, <1>4, <1>5, <1>6, <1>7, <1>8, <1>9, <1>10, <1>11
     DEF Next, Add, Abort, EngineStep, Complete

\* The scheduler's queue, decode set, rows and Req records keep their types
\* through every add, abort and engine step.
THEOREM TypeCorrect == Spec => []TypeOK
BY InitTypeOK, NextTypeOK, PTL DEF Spec

-----------------------------------------------------------------------------
(***************************************************************************)
(* Row ownership.  First what the list operations of the queue do to the   *)
(* set of its entries.                                                     *)
(***************************************************************************)
LEMMA AppendRange ==
  ASSUME NEW S, NEW s \in Seq(S), NEW e \in S
  PROVE  /\ Append(s, e) \in Seq(S)
         /\ Range(Append(s, e)) = Range(s) \union {e}
         /\ Injective(s) /\ e \notin Range(s) => Injective(Append(s, e))
<1> DEFINE t == Append(s, e)
<1>1. /\ Len(s) \in Nat
      /\ t \in Seq(S) /\ Len(t) = Len(s) + 1
      /\ \A i \in 1 .. Len(s) : t[i] = s[i]
      /\ t[Len(s) + 1] = e
  BY AppendProperties, LenProperties
<1>2. /\ Range(s) = {s[i] : i \in 1 .. Len(s)}
      /\ Range(t) = {t[i] : i \in 1 .. Len(t)}
  BY <1>1, RangeEquality
<1> HIDE DEF t
<1>3. Range(t) = Range(s) \union {e}
  BY <1>1, <1>2
<1>4. ASSUME Injective(s), e \notin Range(s) PROVE Injective(t)
  BY <1>1, <1>2, <1>4 DEF Injective
<1>5. QED
  BY <1>1, <1>3, <1>4 DEF t

\* Removing one entry of a duplicate-free queue, as abort does, removes that request only.
LEMMA RemoveAtRange ==
  ASSUME NEW S, NEW s \in Seq(S), NEW i \in 1 .. Len(s), Injective(s)
  PROVE  /\ RemoveAt(s, i) \in Seq(S)
         /\ Range(RemoveAt(s, i)) = Range(s) \ {s[i]}
         /\ Injective(RemoveAt(s, i))
<1> DEFINE t == RemoveAt(s, i)
<1>1. /\ Len(s) \in Nat
      /\ t \in Seq(S) /\ Len(t) = Len(s) - 1
      /\ \A j \in 1 .. (Len(s) - 1) : t[j] = IF j < i THEN s[j] ELSE s[j + 1]
  BY RemoveAtSeq, LenProperties
<1>2. /\ Range(s) = {s[j] : j \in 1 .. Len(s)}
      /\ Range(t) = {t[j] : j \in 1 .. Len(t)}
  BY <1>1, RangeEquality
<1> HIDE DEF t
<1>3. ASSUME NEW x \in Range(t) PROVE x \in Range(s) \ {s[i]}
  <2>1. PICK j \in 1 .. (Len(s) - 1) : x = t[j]
    BY <1>1, <1>2
  <2>2. PICK k \in 1 .. Len(s) : k # i /\ x = s[k]
    <3>1. CASE j < i
      BY <2>1, <3>1, <1>1
    <3>2. CASE ~(j < i)
      BY <2>1, <3>2, <1>1
    <3>3. QED
      BY <3>1, <3>2
  <2>3. QED
    BY <2>2, <1>2 DEF Injective
<1>4. ASSUME NEW x \in Range(s), x # s[i] PROVE x \in Range(t)
  <2>1. PICK k \in 1 .. Len(s) : x = s[k] /\ k # i
    BY <1>2, <1>4
  <2>2. CASE k < i
    <3>1. k \in 1 .. (Len(s) - 1) /\ t[k] = x
      BY <2>1, <2>2, <1>1
    <3>2. QED
      BY <3>1, <1>1, <1>2
  <2>3. CASE ~(k < i)
    <3>1. k - 1 \in 1 .. (Len(s) - 1) /\ ~(k - 1 < i) /\ (k - 1) + 1 = k
      BY <2>1, <2>3, <1>1
    <3>2. t[k - 1] = x
      BY <2>1, <3>1, <1>1
    <3>3. QED
      BY <3>1, <3>2, <1>1, <1>2
  <2>4. QED
    BY <2>2, <2>3
<1>5. Injective(t)
  <2> SUFFICES ASSUME NEW j \in 1 .. (Len(s) - 1), NEW k \in 1 .. (Len(s) - 1),
                      t[j] = t[k]
               PROVE  j = k
    BY <1>1 DEF Injective
  <2> DEFINE f(n) == IF n < i THEN n ELSE n + 1
  <2>1. f(j) \in 1 .. Len(s) /\ f(k) \in 1 .. Len(s)
    BY <1>1
  <2>2. t[j] = s[f(j)] /\ t[k] = s[f(k)]
    BY <1>1
  <2>3. f(j) = f(k)
    BY <2>1, <2>2 DEF Injective
  <2>4. QED
    BY <2>3
<1>6. QED
  BY <1>1, <1>3, <1>4, <1>5 DEF t

\* Two disjoint duplicate-free lists concatenate to a duplicate-free one.
LEMMA ConcatRange ==
  ASSUME NEW S, NEW s \in Seq(S), NEW t \in Seq(S),
         Injective(s), Injective(t), Range(s) \cap Range(t) = {}
  PROVE  Injective(s \o t)
<1> DEFINE u == s \o t
<1>1. /\ Len(s) \in Nat /\ Len(t) \in Nat
      /\ Len(u) = Len(s) + Len(t)
      /\ \A i \in 1 .. (Len(s) + Len(t)) :
           u[i] = IF i <= Len(s) THEN s[i] ELSE t[i - Len(s)]
  BY ConcatProperties, LenProperties
<1>2. /\ Range(s) = {s[i] : i \in 1 .. Len(s)}
      /\ Range(t) = {t[i] : i \in 1 .. Len(t)}
  BY RangeEquality
<1> HIDE DEF u
<1>3. Injective(u)
  <2> SUFFICES ASSUME NEW i \in 1 .. (Len(s) + Len(t)),
                      NEW j \in 1 .. (Len(s) + Len(t)), u[i] = u[j]
               PROVE  i = j
    BY <1>1 DEF Injective
  <2>1. CASE i <= Len(s) /\ j <= Len(s)
    BY <1>1, <2>1 DEF Injective
  <2>2. CASE ~(i <= Len(s)) /\ ~(j <= Len(s))
    <3>1. /\ i - Len(s) \in 1 .. Len(t) /\ j - Len(s) \in 1 .. Len(t)
          /\ t[i - Len(s)] = t[j - Len(s)]
      BY <1>1, <2>2
    <3>2. i - Len(s) = j - Len(s)
      BY <3>1 DEF Injective
    <3>3. QED
      BY <1>1, <3>2
  <2>3. CASE i <= Len(s) /\ ~(j <= Len(s))
    <3>1. j - Len(s) \in 1 .. Len(t) /\ i \in 1 .. Len(s) /\ s[i] = t[j - Len(s)]
      BY <1>1, <2>3
    <3>2. QED
      BY <3>1, <1>2
  <2>4. CASE ~(i <= Len(s)) /\ j <= Len(s)
    <3>1. i - Len(s) \in 1 .. Len(t) /\ j \in 1 .. Len(s) /\ s[j] = t[i - Len(s)]
      BY <1>1, <2>4
    <3>2. QED
      BY <3>1, <1>2
  <2>5. QED
    BY <2>1, <2>2, <2>3, <2>4
<1>4. QED
  BY <1>3 DEF u

\* A row's owner is unique, so complete() frees it at most once.
LEMMA FreedCountValue ==
  ASSUME TypeOK, RowsInv, NEW row \in Rows, NEW reqOf, NEW kept
  PROVE  freed_count(row, reqOf, kept) =
           IF \E r \in Live : /\ pending[r].tableIdx = row
                             /\ \/ r \in runningReqs \ kept
                                \/ r \in batch /\ reqOf[r].aborted
             THEN 1 ELSE 0
<1> DEFINE D == {r \in runningReqs \ kept : pending[r].tableIdx = row}
           U == {r \in batch : reqOf[r].aborted /\ pending[r].tableIdx = row}
<1>1. runningReqs \subseteq Live /\ batch \subseteq Live
  BY DEF Live
<1>2. \A r, t \in D : r = t
  BY <1>1 DEF RowsInv
<1>3. CASE D = {} /\ U # {}
  BY <1>1, <1>3 DEF freed_count
<1>4. CASE D = {} /\ U = {}
  <2>1. Cardinality(D) = 0
    BY <1>4, FS_EmptySet
  <2>2. QED
    BY <1>4, <2>1 DEF freed_count
<1>5. CASE D # {}
  <2>1. PICK d : D = {d}
    BY <1>2, <1>5
  <2>2. Cardinality(D) = 1
    BY <2>1, FS_Singleton
  <2>3. d \in Live /\ pending[d].tableIdx = row /\ d \in runningReqs \ kept
    BY <2>1, <1>1
  <2>4. QED
    BY <1>5, <2>2, <2>3 DEF freed_count
<1>6. QED
  BY <1>3, <1>4, <1>5

\* The empty sequence has no entries.
LEMMA EmptyRange == Range(<<>>) = {} /\ Injective(<<>>)
<1>1. <<>> \in Seq(Requests) /\ Len(<<>>) = 0
  BY EmptySeq
<1>2. Range(<<>>) = {<<>>[i] : i \in 1 .. Len(<<>>)}
  BY <1>1, RangeEquality
<1>3. QED
  BY <1>1, <1>2 DEF Injective

\* A fresh scheduler has an empty queue and all rows free.
LEMMA InitIInv == Init => Places /\ Pass /\ RowsInv
<1> SUFFICES ASSUME Init PROVE Places /\ Pass /\ RowsInv
  OBVIOUS
<1>1. Range(pendingList) = {} /\ Len(pendingList) = 0
  BY EmptyRange, EmptySeq DEF Init
<1>2. Live = {}
  BY <1>1 DEF Live, Init
<1>3. Places
  BY <1>1, <1>2 DEF Init, Places, Injective, NoReq
<1>4. Pass
  BY DEF Init, Pass
<1>5. RowsInv
  BY <1>2 DEF Init, RowsInv
<1>6. QED
  BY <1>3, <1>4, <1>5

\* add: the request joins the queue with a row nobody owned.
LEMMA AddIInv ==
  ASSUME IInv, NEW r \in Requests, NEW n \in PromptLens, NEW m \in OutputLens,
         NEW c \in 0 .. (n - 1), add(r, n, c, m)
  PROVE  Places' /\ Pass' /\ RowsInv'
<1> USE DEF IInv
<1>1. pendingList \in Seq(Requests)
  BY DEF TypeOK
<1>2. /\ outcome[r] = "new" /\ stage # "pass"
      /\ pendingList' = Append(pendingList, r)
      /\ outcome' = [outcome EXCEPT ![r] = "live"]
      /\ UNCHANGED <<runningReqs, req, stage, batch, adder>>
  BY DEF add
<1>3. r \notin Live
  BY <1>2 DEF Places
<1>4. /\ Range(pendingList') = Range(pendingList) \union {r}
      /\ Injective(pendingList')
  BY <1>1, <1>2, <1>3, AppendRange DEF Live, Places
<1>5. Live' = Live \union {r}
  BY <1>2, <1>4 DEF Live
<1>6. Places'
  <2>1. Live' = {q \in Requests : outcome'[q] = "live"}
    BY <1>2, <1>5 DEF Places, TypeOK
  <2>2. /\ req[r].kind = "none" /\ r \notin runningReqs /\ r \notin batch
    BY <1>2, <1>3 DEF Places, Live
  <2>3. QED
    BY <1>2, <1>4, <2>1, <2>2 DEF Places, TypeOK
<1>7. Pass'
  BY <1>2 DEF Pass
<1>8. RowsInv'
  <2>1. PICK row \in Rows :
          /\ freeSlots[row] > 0
          /\ freeSlots' = [freeSlots EXCEPT ![row] = @ - 1]
          /\ pending' = [pending EXCEPT ![r] =
                           [inputLen |-> n, cachedLen |-> c,
                            outputLen |-> m, tableIdx |-> row]]
    BY DEF add, lowest_free
  <2>2. freeSlots[row] = 1 /\ freeSlots'[row] = 0
    BY <2>1 DEF RowsInv, TypeOK
  <2>3. \A other \in Rows \ {row} : freeSlots'[other] = freeSlots[other]
    BY <2>1 DEF TypeOK
  <2>4. /\ pending'[r].tableIdx = row
        /\ \A q \in Requests \ {r} : pending'[q] = pending[q]
    BY <2>1 DEF TypeOK
  <2>5. \A q \in Live : /\ q \in Requests \ {r}
                       /\ pending'[q].tableIdx = pending[q].tableIdx
                       /\ pending[q].tableIdx \in Rows \ {row}
    <3> SUFFICES ASSUME NEW q \in Live
                 PROVE  /\ q \in Requests \ {r}
                        /\ pending'[q].tableIdx = pending[q].tableIdx
                        /\ pending[q].tableIdx \in Rows \ {row}
      OBVIOUS
    <3>1. q \in Requests \ {r}
      BY <1>3 DEF Places
    <3>2. pending[q].tableIdx \in Rows
      BY <3>1 DEF TypeOK, PendingRecord
    <3>3. pending[q].tableIdx # row
      BY <2>2 DEF RowsInv
    <3>4. QED
      BY <3>1, <3>2, <3>3, <2>4
  <2>6. \A other \in Rows : freeSlots'[other] \in {0, 1}
    BY <2>2, <2>3 DEF RowsInv
  <2>7. \A other \in Rows :
          freeSlots'[other] = 0 => \E q \in Live' : pending'[q].tableIdx = other
    BY <1>5, <2>2, <2>3, <2>4, <2>5 DEF RowsInv
  <2>8. \A q \in Live' : freeSlots'[pending'[q].tableIdx] = 0
    BY <1>5, <2>2, <2>3, <2>4, <2>5 DEF RowsInv
  <2>9. \A q, t \in Live' : pending'[q].tableIdx = pending'[t].tableIdx => q = t
    BY <1>5, <2>4, <2>5 DEF RowsInv
  <2>10. QED
    BY <2>6, <2>7, <2>8, <2>9 DEF RowsInv
<1>9. QED
  BY <1>6, <1>7, <1>8

\* abort: the request leaves and its row goes back once.
LEMMA AbortIInv ==
  ASSUME IInv, NEW r \in Requests, abort(r)
  PROVE  Places' /\ Pass' /\ RowsInv'
<1> USE DEF IInv
<1>1. pendingList \in Seq(Requests)
  BY DEF TypeOK
<1>2. /\ stage = "idle" /\ batch = {}
      /\ freeSlots' = [freeSlots EXCEPT ![pending[r].tableIdx] = @ + 1]
      /\ outcome' = [outcome EXCEPT ![r] = "aborted"]
      /\ UNCHANGED <<pending, req, stage, batch, adder>>
  BY DEF abort, Places
<1>3. /\ r \in Live
      /\ Injective(pendingList')
      /\ Range(pendingList') = Range(pendingList) \ {r}
      /\ runningReqs' = runningReqs \ {r}
  <2>1. CASE \E i \in 1 .. Len(pendingList) :
               pendingList[i] = r /\ pendingList' = RemoveAt(pendingList, i)
                 /\ runningReqs' = runningReqs
    <3>1. PICK i \in 1 .. Len(pendingList) :
            pendingList[i] = r /\ pendingList' = RemoveAt(pendingList, i)
              /\ runningReqs' = runningReqs
      BY <2>1
    <3>2. r \in Range(pendingList)
      BY <1>1, <3>1, RangeEquality
    <3>3. r \notin runningReqs
      BY <3>2 DEF Places
    <3>4. QED
      BY <1>1, <3>1, <3>2, <3>3, RemoveAtRange DEF Places, Live
  <2>2. CASE r \in runningReqs /\ runningReqs' = runningReqs \ {r}
               /\ pendingList' = pendingList
    BY <2>2 DEF Places, Live
  <2>3. QED
    BY <2>1, <2>2 DEF abort
<1>4. Live' = Live \ {r}
  BY <1>2, <1>3 DEF Live
<1>5. Places'
  <2>1. Live' = {q \in Requests : outcome'[q] = "live"}
    BY <1>2, <1>4 DEF Places, TypeOK
  <2>2. QED
    BY <1>2, <1>3, <2>1 DEF Places, TypeOK
<1>6. Pass'
  BY <1>2 DEF Pass
<1>7. RowsInv'
  <2> DEFINE row == pending[r].tableIdx
  <2>1. row \in Rows /\ freeSlots[row] = 0
    BY <1>3 DEF RowsInv, TypeOK, PendingRecord
  <2>2. /\ freeSlots'[row] = 1
        /\ \A other \in Rows \ {row} : freeSlots'[other] = freeSlots[other]
    BY <1>2, <2>1 DEF TypeOK
  <2>3. \A q \in Live' : q \in Live /\ pending[q].tableIdx \in Rows \ {row}
    BY <1>3, <1>4 DEF RowsInv, TypeOK, PendingRecord, Places
  <2> HIDE DEF row
  <2>4. \A other \in Rows :
          freeSlots'[other] = 0 => \E q \in Live' : pending'[q].tableIdx = other
    BY <1>2, <1>4, <2>2 DEF RowsInv, row
  <2>5. QED
    BY <1>2, <2>2, <2>3, <2>4 DEF RowsInv
<1>8. QED
  BY <1>5, <1>6, <1>7

\* schedule() starts the admission loop: nothing visited yet.
LEMMA BeginPassIInv ==
  ASSUME IInv, begin_pass
  PROVE  Places' /\ Pass' /\ RowsInv'
<1> USE DEF IInv
<1>1. /\ stage = "idle" /\ stage' = "pass" /\ batch = {}
      /\ adder'.cursor = 1 /\ adder'.admitted = {}
      /\ adder'.chunked = <<>> /\ adder'.skipped = <<>>
      /\ UNCHANGED <<freeSlots, pendingList, runningReqs, pending, req, batch,
                     outcome>>
  BY DEF begin_pass, Places
<1>2. Len(pendingList) \in Nat
  BY LenProperties DEF TypeOK
<1>3. Live' = Live
  BY <1>1 DEF Live
<1>4. Visited' = {}
  BY <1>1 DEF Visited
<1>5. Places'
  BY <1>1, <1>3 DEF Places
<1>6. Pass'
  BY <1>1, <1>2, <1>4, EmptyRange DEF Pass
<1>7. RowsInv'
  BY <1>1, <1>3 DEF RowsInv
<1>8. QED
  BY <1>5, <1>6, <1>7

\* One more entry visited: what Visited becomes.
LEMMA VisitOne ==
  ASSUME IInv, stage = "pass", adder.cursor <= Len(pendingList),
         pendingList' = pendingList, adder'.cursor = adder.cursor + 1
  PROVE  /\ Visited' = Visited \union {pendingList[adder.cursor]}
         /\ pendingList[adder.cursor] \notin Visited
         /\ pendingList[adder.cursor] \in Range(pendingList)
<1>1. /\ Len(pendingList) \in Nat /\ adder.cursor \in Nat \ {0}
      /\ pendingList \in Seq(Requests)
  BY LenProperties DEF IInv, TypeOK
<1>2. 1 .. (adder'.cursor - 1) = (1 .. (adder.cursor - 1)) \union {adder.cursor}
  BY <1>1
<1>3. Visited' = Visited \union {pendingList[adder.cursor]}
  BY <1>2 DEF Visited
<1>4. \A i \in 1 .. (adder.cursor - 1) : pendingList[i] # pendingList[adder.cursor]
  BY <1>1 DEF IInv, Places, Injective
<1>5. pendingList[adder.cursor] \in Range(pendingList)
  BY <1>1, RangeEquality
<1>6. QED
  BY <1>3, <1>4, <1>5 DEF Visited

\* try_add_one returned a Req for the entry.
LEMMA AdmitIInv ==
  ASSUME IInv, admit_one
  PROVE  Places' /\ Pass' /\ RowsInv'
<1> USE DEF IInv
<1> DEFINE r == pendingList[adder.cursor]
           q == built_req(r)
<1>1. /\ stage = "pass" /\ adder.cursor <= Len(pendingList) /\ batch = {}
      /\ admissible(r)
      /\ req' = [req EXCEPT ![r] = q]
      /\ adder'.cursor = adder.cursor + 1
      /\ adder'.admitted = adder.admitted \union {r}
      /\ adder'.skipped = adder.skipped
      /\ adder'.chunked = IF q.kind = "chunked" THEN Append(adder.chunked, r)
                                                ELSE adder.chunked
      /\ UNCHANGED <<freeSlots, pendingList, runningReqs, pending, stage, batch,
                     outcome>>
  BY DEF admit_one, Places
<1>2. /\ r \in Requests /\ Len(pendingList) \in Nat /\ adder.cursor \in Nat \ {0}
  BY <1>1, CursorEntry, LenProperties DEF TypeOK
<1>3. /\ Visited' = Visited \union {r}
      /\ r \notin Visited
      /\ r \in Range(pendingList)
  BY <1>1, VisitOne
<1>4. q.kind \in {"chunked", "full"} /\ q.aborted = FALSE
  BY DEF built_req
<1> HIDE DEF r, q
<1>5. /\ req'[r] = q
      /\ \A t \in Requests \ {r} : req'[t] = req[t]
  BY <1>1, <1>2 DEF TypeOK
<1>6. r \notin runningReqs /\ r \in Live /\ outcome[r] = "live"
  BY <1>3 DEF Places, Live
<1>7. Live' = Live
  BY <1>1 DEF Live
<1>8. Range(pendingList) \subseteq Requests /\ runningReqs \subseteq Requests
  BY RangeOfSeq DEF TypeOK
<1>9. Places'
  <2>1. \A t \in Requests : outcome'[t] = "new" => req'[t].kind = "none"
    BY <1>1, <1>5, <1>6 DEF Places
  <2>2. \A t \in runningReqs' : can_decode(req'[t])
    BY <1>1, <1>5, <1>6, <1>8 DEF Places
  <2>3. \A t \in Range(pendingList') :
          req'[t].kind = "full" => stage' = "pass" /\ t \in adder'.admitted
    BY <1>1, <1>5, <1>8 DEF Places
  <2>4. QED
    BY <1>1, <1>7, <2>1, <2>2, <2>3 DEF Places
<1>10. Pass'
  <2>1. adder.admitted \subseteq Visited /\ r \notin adder.admitted
        /\ adder.admitted \subseteq Requests
    BY <1>1, <1>3 DEF Pass, TypeOK
  <2>2. \A t \in adder.admitted : req'[t] = req[t]
    BY <1>5, <2>1
  <2>3. /\ Range(adder'.chunked) =
             {t \in adder'.admitted : req'[t].kind = "chunked"}
        /\ Injective(adder'.chunked)
    <3>1. Range(adder.chunked) = {t \in adder.admitted : req[t].kind = "chunked"}
      BY <1>1 DEF Pass
    <3>2. r \notin Range(adder.chunked) /\ adder.chunked \in Seq(Requests)
          /\ Injective(adder.chunked)
      BY <1>1, <2>1, <3>1 DEF Pass, TypeOK
    <3>3. CASE q.kind = "chunked"
      <4>1. /\ Range(adder'.chunked) = Range(adder.chunked) \union {r}
            /\ Injective(adder'.chunked)
        BY <1>1, <1>2, <3>2, <3>3, AppendRange
      <4>2. QED
        BY <1>1, <1>5, <2>2, <3>1, <3>3, <4>1
    <3>4. CASE q.kind # "chunked"
      BY <1>1, <1>5, <2>2, <3>1, <3>2, <3>4
    <3>5. QED
      BY <3>3, <3>4
  <2>4. Range(adder'.skipped) = Visited' \ adder'.admitted
    BY <1>1, <1>3 DEF Pass
  <2>5. \A t \in adder'.admitted : req'[t].kind # "none" /\ ~req'[t].aborted
    BY <1>1, <1>4, <1>5, <2>2 DEF Pass
  <2>6. QED
    BY <1>1, <1>2, <1>3, <2>1, <2>3, <2>4, <2>5 DEF Pass
<1>11. RowsInv'
  BY <1>1, <1>7 DEF RowsInv
<1>12. QED
  BY <1>9, <1>10, <1>11

\* try_add_one returned None: the entry (and, after a break, every later one)
\* keeps its place.
LEMMA SkipIInv ==
  ASSUME IInv, skip_one
  PROVE  Places' /\ Pass' /\ RowsInv'
<1> USE DEF IInv
<1> DEFINE r == pendingList[adder.cursor]
           rest == SubSeq(pendingList, adder.cursor, Len(pendingList))
<1>1. /\ stage = "pass" /\ adder.cursor <= Len(pendingList) /\ batch = {}
      /\ adder'.cursor = IF is_continuation(r) THEN Len(pendingList) + 1
                                               ELSE adder.cursor + 1
      /\ adder'.admitted = adder.admitted
      /\ adder'.chunked = adder.chunked
      /\ adder'.skipped = IF is_continuation(r) THEN adder.skipped \o rest
                                                ELSE Append(adder.skipped, r)
      /\ UNCHANGED <<freeSlots, pendingList, runningReqs, pending, req, stage,
                     batch, outcome>>
  BY DEF skip_one, Places
<1>2. /\ r \in Requests /\ Len(pendingList) \in Nat /\ adder.cursor \in Nat \ {0}
      /\ pendingList \in Seq(Requests) /\ adder.skipped \in Seq(Requests)
  BY <1>1, CursorEntry, LenProperties DEF TypeOK
<1>3. Live' = Live
  BY <1>1 DEF Live
<1>4. Places'
  BY <1>1, <1>3 DEF Places
<1>5. RowsInv'
  BY <1>1, <1>3 DEF RowsInv
<1>6. /\ Range(adder.skipped) = Visited \ adder.admitted
      /\ adder.admitted \subseteq Visited
      /\ Injective(adder.skipped)
  BY <1>1 DEF Pass
<1>7. CASE ~is_continuation(r)
  <2>1. /\ Visited' = Visited \union {r} /\ r \notin Visited
    BY <1>1, <1>7, VisitOne
  <2>2. /\ Range(adder'.skipped) = Range(adder.skipped) \union {r}
        /\ Injective(adder'.skipped)
    BY <1>1, <1>2, <1>6, <1>7, <2>1, AppendRange
  <2>3. QED
    BY <1>1, <1>2, <1>4, <1>5, <1>6, <1>7, <2>1, <2>2 DEF Pass
<1>8. CASE is_continuation(r)
  <2>1. \A i \in adder.cursor .. Len(pendingList) : pendingList[i] \in Requests
    BY <1>2, ElementOfSeq
  <2>2. /\ rest \in Seq(Requests)
        /\ Len(rest) = Len(pendingList) - adder.cursor + 1
        /\ \A i \in 1 .. Len(rest) : rest[i] = pendingList[adder.cursor + i - 1]
    BY <1>1, <1>2, <2>1, SubSeqProperties
  <2>3. Range(rest) = {rest[i] : i \in 1 .. Len(rest)}
    BY <2>2, RangeEquality
  <2> HIDE DEF rest
  <2>4. Injective(rest)
    <3> SUFFICES ASSUME NEW i \in 1 .. Len(rest), NEW j \in 1 .. Len(rest),
                        rest[i] = rest[j]
                 PROVE  i = j
      BY DEF Injective
    <3>0. /\ i \in 1 .. (Len(pendingList) - adder.cursor + 1)
          /\ j \in 1 .. (Len(pendingList) - adder.cursor + 1)
      BY <2>2
    <3>1. /\ adder.cursor + i - 1 \in 1 .. Len(pendingList)
          /\ adder.cursor + j - 1 \in 1 .. Len(pendingList)
      BY <1>2, <3>0, ShiftIndex
    <3>2. adder.cursor + i - 1 = adder.cursor + j - 1
      BY <2>2, <3>1 DEF Places, Injective
    <3>3. QED
      BY <1>2, <2>2, <3>2
  <2>5. \A x \in Range(rest) : x \notin Visited
    <3> SUFFICES ASSUME NEW i \in 1 .. Len(rest),
                        NEW j \in 1 .. (adder.cursor - 1),
                        rest[i] = pendingList[j]
                 PROVE  FALSE
      BY <2>3 DEF Visited
    <3>0. i \in 1 .. (Len(pendingList) - adder.cursor + 1)
      BY <2>2
    <3>1. /\ adder.cursor + i - 1 \in 1 .. Len(pendingList)
          /\ j \in 1 .. Len(pendingList)
          /\ adder.cursor + i - 1 # j
      BY <1>2, <3>0, ShiftIndex, EarlierIndex
    <3>2. QED
      BY <2>2, <3>1 DEF Places, Injective
  <2>6. Visited' = Visited \union Range(rest)
    <3>1. Visited' = {pendingList[i] : i \in 1 .. Len(pendingList)}
      BY <1>1, <1>2, <1>8 DEF Visited
    <3>2. ASSUME NEW i \in 1 .. Len(pendingList)
          PROVE  pendingList[i] \in Visited \union Range(rest)
      <4>1. CASE i <= adder.cursor - 1
        BY <4>1, <1>2 DEF Visited
      <4>2. CASE ~(i <= adder.cursor - 1)
        <5>0. /\ i - adder.cursor + 1 \in 1 .. (Len(pendingList) - adder.cursor + 1)
              /\ adder.cursor + (i - adder.cursor + 1) - 1 = i
          BY <4>2, <1>2, UnshiftIndex
        <5>1. /\ i - adder.cursor + 1 \in 1 .. Len(rest)
              /\ adder.cursor + (i - adder.cursor + 1) - 1 = i
          BY <5>0, <2>2
        <5>2. rest[i - adder.cursor + 1] = pendingList[i]
          BY <5>1, <2>2
        <5>3. QED
          BY <5>1, <5>2, <2>3
      <4>3. QED
        BY <4>1, <4>2
    <3>3. ASSUME NEW i \in 1 .. Len(rest)
          PROVE  rest[i] \in Visited'
      <4>0. i \in 1 .. (Len(pendingList) - adder.cursor + 1)
        BY <2>2
      <4>1. adder.cursor + i - 1 \in 1 .. Len(pendingList)
        BY <1>2, <4>0, ShiftIndex
      <4>2. QED
        BY <2>2, <3>1, <4>1
    <3>4. Visited \subseteq Visited'
      BY <1>1, <1>2, <3>1 DEF Visited
    <3>5. QED
      BY <2>3, <3>1, <3>2, <3>3, <3>4
  <2>7. /\ Range(adder'.skipped) = Range(adder.skipped) \union Range(rest)
        /\ Injective(adder'.skipped)
    <3>1. Range(adder.skipped) \cap Range(rest) = {}
      BY <1>6, <2>5
    <3>2. adder'.skipped = adder.skipped \o rest
      BY <1>1, <1>8 DEF rest
    <3>3. Range(adder.skipped \o rest) = Range(adder.skipped) \union Range(rest)
      BY <1>2, <2>2, RangeConcatenation
    <3>4. Injective(adder.skipped \o rest)
      BY <1>2, <1>6, <2>2, <2>4, <3>1, ConcatRange
    <3>5. QED
      BY <3>2, <3>3, <3>4
  <2>8. Range(adder'.skipped) = Visited' \ adder'.admitted
    BY <1>1, <1>6, <2>5, <2>6, <2>7
  <2>9. /\ adder'.cursor <= Len(pendingList') + 1
        /\ adder'.admitted \subseteq Visited'
    BY <1>1, <1>2, <1>6, <1>8, <2>6
  <2>10. /\ Range(adder'.chunked) =
               {t \in adder'.admitted : req'[t].kind = "chunked"}
         /\ Injective(adder'.chunked)
         /\ \A t \in adder'.admitted : req'[t].kind # "none" /\ ~req'[t].aborted
    BY <1>1 DEF Pass
  <2>11. QED
    BY <1>4, <1>5, <2>7, <2>8, <2>9, <2>10 DEF Pass
<1>9. QED
  BY <1>7, <1>8

\* The loop ends with a batch: admitted whole prompts leave the queue.
LEMMA PrefillBatchIInv ==
  ASSUME IInv, prefill_batch
  PROVE  Places' /\ Pass' /\ RowsInv'
<1> USE DEF IInv
<1>1. /\ stage = "pass" /\ adder.cursor > Len(pendingList) /\ batch = {}
      /\ pendingList' = adder.chunked \o adder.skipped
      /\ batch' = adder.admitted /\ stage' = "prefill"
      /\ UNCHANGED <<freeSlots, runningReqs, pending, req, outcome>>
  BY DEF prefill_batch, requeued, Places
<1>2. /\ pendingList \in Seq(Requests) /\ Len(pendingList) \in Nat
      /\ adder.chunked \in Seq(Requests) /\ adder.skipped \in Seq(Requests)
      /\ adder.cursor \in Nat \ {0}
  BY LenProperties DEF TypeOK
<1>3. Visited = Range(pendingList)
  <2>1. adder.cursor - 1 = Len(pendingList)
    BY <1>1, <1>2 DEF Pass
  <2>2. QED
    BY <1>2, <2>1, RangeEquality DEF Visited
<1>4. /\ adder.admitted \subseteq Range(pendingList)
      /\ Range(adder.skipped) = Range(pendingList) \ adder.admitted
      /\ Range(adder.chunked) = {t \in adder.admitted : req[t].kind = "chunked"}
      /\ Injective(adder.skipped) /\ Injective(adder.chunked)
      /\ \A t \in adder.admitted : req[t].kind # "none" /\ ~req[t].aborted
  BY <1>1, <1>3 DEF Pass
<1>5. /\ Range(pendingList') = Range(adder.chunked) \union Range(adder.skipped)
      /\ Injective(pendingList')
  BY <1>1, <1>2, <1>4, RangeConcatenation, ConcatRange
<1>6. Live' = Live
  BY <1>1, <1>4, <1>5 DEF Live
<1>7. Places'
  <2>1. Live' = {q \in Requests : outcome'[q] = "live"}
    BY <1>1, <1>6 DEF Places
  <2>2. /\ Range(pendingList') \cap runningReqs' = {}
        /\ batch' \cap runningReqs' = {}
    BY <1>1, <1>4, <1>5 DEF Places
  <2>3. \A t \in batch' : req'[t].kind # "none" /\ ~req'[t].aborted
    BY <1>1, <1>4
  <2>4. \A t \in Range(pendingList') : req'[t].kind # "full"
    BY <1>1, <1>4, <1>5 DEF Places
  <2>5. \A t \in batch' : req'[t].kind = "chunked" => t \in Range(pendingList')
    BY <1>1, <1>4, <1>5
  <2>6. QED
    BY <1>1, <1>5, <2>1, <2>2, <2>3, <2>4, <2>5 DEF Places
<1>8. Pass'
  BY <1>1 DEF Pass
<1>9. RowsInv'
  BY <1>1, <1>6 DEF RowsInv
<1>10. QED
  BY <1>7, <1>8, <1>9

\* A decode batch is the whole decode set; when nothing was admitted no entry
\* of the queue was touched.
LEMMA DecodeOrIdleIInv ==
  ASSUME IInv, decode_batch \/ idle_step
  PROVE  Places' /\ Pass' /\ RowsInv'
<1> USE DEF IInv
<1>1. /\ stage \in {"idle", "pass"} /\ batch = {}
      /\ stage = "pass" => adder.admitted = {}
      /\ \/ stage' = "decode" /\ batch' = runningReqs
         \/ stage' = "idle" /\ batch' = batch
      /\ UNCHANGED <<freeSlots, pendingList, runningReqs, pending, req, outcome>>
  BY DEF decode_batch, idle_step, Places
<1>2. Live' = Live
  BY <1>1 DEF Live
<1>3. Places'
  BY <1>1, <1>2 DEF Places, can_decode
<1>4. Pass'
  BY <1>1 DEF Pass
<1>5. RowsInv'
  BY <1>1, <1>2 DEF RowsInv
<1>6. QED
  BY <1>3, <1>4, <1>5

\* complete(): exactly the requests of the batch that stopped leave, each
\* giving back its row.
LEMMA CompleteIInv ==
  ASSUME IInv, NEW eos \in SUBSET sampled, complete(eos)
  PROVE  Places' /\ Pass' /\ RowsInv'
<1> USE DEF IInv
<1> DEFINE reqOf == [r \in Requests |->
                       IF r \in sampled THEN after_sample(r, eos) ELSE req[r]]
           kept == filter_reqs(reqOf)
           stopped == {r \in batch : reqOf[r].aborted}
<1>1. /\ stage \in {"prefill", "decode"} /\ stage' = "idle"
      /\ req' = reqOf /\ runningReqs' = kept /\ batch' = {}
      /\ freeSlots' = [row \in Rows |->
                         freeSlots[row] + freed_count(row, reqOf, kept)]
      /\ outcome' = [r \in Requests |->
                       IF r \in batch /\ reqOf[r].aborted THEN "done"
                                                          ELSE outcome[r]]
      /\ UNCHANGED <<pendingList, pending>>
  BY DEF complete
<1>2. /\ Live \subseteq Requests /\ batch \subseteq Live
      /\ runningReqs \subseteq Live /\ Range(pendingList) \subseteq Live
  BY DEF Places, Live
<1>3. ASSUME NEW r \in sampled
      PROVE  /\ reqOf[r].kind = "full"
             /\ can_decode(reqOf[r]) <=> ~reqOf[r].aborted
  <2>1. r \in Requests /\ r \in batch /\ req[r].kind = "full"
        /\ req[r] \in ReqRecord
    BY <1>2 DEF sampled, TypeOK
  <2>2. reqOf[r] = after_sample(r, eos)
    BY <2>1
  <2> HIDE DEF reqOf
  <2>3. /\ reqOf[r].kind = "full"
        /\ reqOf[r].maxDeviceLen = req[r].maxDeviceLen
        /\ reqOf[r].deviceLen = req[r].deviceLen + 1
        /\ reqOf[r].aborted = (r \in eos \/ req[r].deviceLen + 1 >= req[r].maxDeviceLen)
    BY <2>1, <2>2 DEF after_sample
  <2>4. req[r].maxDeviceLen \in Nat /\ req[r].deviceLen \in Nat
    BY <2>1 DEF ReqRecord
  <2>5. can_decode(reqOf[r]) <=> ~reqOf[r].aborted
    <3>1. CASE r \in eos
      BY <3>1, <2>3 DEF can_decode
    <3>2. CASE req[r].deviceLen + 1 >= req[r].maxDeviceLen
      BY <3>2, <2>3, <2>4 DEF can_decode
    <3>3. CASE r \notin eos /\ ~(req[r].deviceLen + 1 >= req[r].maxDeviceLen)
      <4>1. ~reqOf[r].aborted
        BY <3>3, <2>3
      <4>2. req[r].maxDeviceLen - (req[r].deviceLen + 1) > 0
        BY <3>3, <2>4
      <4>3. QED
        BY <4>1, <4>2, <2>3 DEF can_decode
    <3>4. QED
      BY <3>1, <3>2, <3>3
  <2>6. QED
    BY <2>3, <2>5
<1>4. ASSUME NEW r \in Requests, r \notin sampled
      PROVE  reqOf[r] = req[r]
  BY <1>4
<1>5. \A r \in batch \ sampled :
        /\ req[r].kind = "chunked" /\ ~req[r].aborted
        /\ r \in Range(pendingList)
  <2> SUFFICES ASSUME NEW r \in batch \ sampled
               PROVE  /\ req[r].kind = "chunked" /\ ~req[r].aborted
                      /\ r \in Range(pendingList)
    OBVIOUS
  <2>1. req[r] \in ReqRecord /\ req[r].kind # "full" /\ req[r].kind # "none"
        /\ ~req[r].aborted
    BY <1>2 DEF sampled, Places, TypeOK
  <2>2. req[r].kind = "chunked"
    BY <2>1 DEF ReqRecord
  <2>3. r \in Range(pendingList)
    BY <1>1, <2>2 DEF Places, can_decode
  <2>4. QED
    BY <2>1, <2>2, <2>3
<1>6. \A r \in sampled : r \notin Range(pendingList)
  BY <1>1 DEF sampled, Places
<1>7. \A r \in runningReqs \ batch : can_decode(reqOf[r])
  <2> SUFFICES ASSUME NEW r \in runningReqs \ batch PROVE can_decode(reqOf[r])
    OBVIOUS
  <2>1. r \in Requests /\ r \notin sampled /\ can_decode(req[r])
    BY <1>2 DEF sampled, Places
  <2>2. QED
    BY <2>1, <1>4
<1> HIDE DEF reqOf
<1>8. stopped \subseteq sampled
  BY <1>2, <1>4, <1>5
<1>9. kept = {r \in runningReqs \union sampled : r \notin stopped}
  <2>1. ASSUME NEW r \in kept PROVE r \in runningReqs \union sampled /\ r \notin stopped
    <3>1. r \in runningReqs \union batch /\ can_decode(reqOf[r])
      BY DEF filter_reqs
    <3>2. CASE r \in sampled
      BY <3>1, <3>2, <1>3
    <3>3. CASE r \notin sampled /\ r \in batch
      <4>1. reqOf[r] = req[r] /\ req[r].kind = "chunked"
        BY <3>3, <1>2, <1>4, <1>5
      <4>2. QED
        BY <3>1, <4>1 DEF can_decode
    <3>4. CASE r \notin batch
      BY <3>1, <3>4
    <3>5. QED
      BY <3>2, <3>3, <3>4
  <2>2. ASSUME NEW r \in runningReqs \union sampled, r \notin stopped PROVE r \in kept
    <3>1. CASE r \in sampled
      BY <2>2, <3>1, <1>3 DEF filter_reqs, sampled
    <3>2. CASE r \notin sampled /\ r \in batch
      <4>1. r \in Range(pendingList) /\ r \in runningReqs
        BY <2>2, <3>2, <1>5
      <4>2. QED
        BY <4>1 DEF Places
    <3>3. CASE r \notin batch
      BY <2>2, <3>3, <1>7 DEF filter_reqs, sampled
    <3>4. QED
      BY <3>1, <3>2, <3>3
  <2>3. QED
    BY <2>1, <2>2
<1> HIDE DEF kept
<1>10. sampled \subseteq batch
  BY DEF sampled
<1>11. Live' = Live \ stopped
  <2>1. Live' = Range(pendingList) \union kept
    BY <1>1 DEF Live
  <2>2. Range(pendingList) \cap stopped = {}
    BY <1>6, <1>8
  <2>3. Live = Range(pendingList) \union runningReqs \union sampled
    BY <1>5, <1>10 DEF Live
  <2>4. QED
    BY <2>1, <2>2, <2>3, <1>9
<1>12. Places'
  <2>1. \A r \in Requests : outcome'[r] = IF r \in stopped THEN "done" ELSE outcome[r]
    BY <1>1
  <2>2. Live' = {q \in Requests : outcome'[q] = "live"}
    BY <1>11, <2>1, <1>2 DEF Places
  <2>3. Range(pendingList') \cap runningReqs' = {}
    BY <1>1, <1>6, <1>9 DEF Places
  <2>4. \A r \in Requests : outcome'[r] = "new" => req'[r].kind = "none"
    <3> SUFFICES ASSUME NEW r \in Requests, outcome'[r] = "new"
                 PROVE  req'[r].kind = "none"
      OBVIOUS
    <3>1. outcome[r] = "new"
      BY <2>1
    <3>2. r \notin sampled
      BY <3>1, <1>2, <1>10 DEF Places
    <3>3. QED
      BY <1>1, <1>4, <3>1, <3>2 DEF Places
  <2>5. \A r \in runningReqs' : can_decode(req'[r])
    BY <1>1 DEF kept, filter_reqs
  <2>6. \A r \in Range(pendingList') : req'[r].kind # "full"
    BY <1>1, <1>2, <1>4, <1>6 DEF Places
  <2>7. QED
    BY <1>1, <2>2, <2>3, <2>4, <2>5, <2>6 DEF Places
<1>13. Pass'
  BY <1>1 DEF Pass
<1>14. RowsInv'
  <2>1. ASSUME NEW row \in Rows
        PROVE  freeSlots'[row] = freeSlots[row]
                 + (IF \E r \in stopped : pending[r].tableIdx = row THEN 1 ELSE 0)
    <3>1. freed_count(row, reqOf, kept) =
            IF \E r \in Live : /\ pending[r].tableIdx = row
                              /\ \/ r \in runningReqs \ kept
                                 \/ r \in batch /\ reqOf[r].aborted
              THEN 1 ELSE 0
      BY FreedCountValue
    <3>2. ASSUME NEW r \in Live, pending[r].tableIdx = row,
                 r \in runningReqs \ kept \/ (r \in batch /\ reqOf[r].aborted)
          PROVE  r \in stopped
      BY <3>2, <1>9
    <3>3. ASSUME NEW r \in stopped, pending[r].tableIdx = row
          PROVE  r \in Live /\ r \in batch /\ reqOf[r].aborted
      BY <1>2
    <3>4. (\E r \in Live : /\ pending[r].tableIdx = row
                          /\ \/ r \in runningReqs \ kept
                             \/ r \in batch /\ reqOf[r].aborted)
            <=> (\E r \in stopped : pending[r].tableIdx = row)
      BY <3>2, <3>3
    <3>5. freeSlots'[row] = freeSlots[row] + freed_count(row, reqOf, kept)
      BY <1>1
    <3>6. QED
      BY <3>1, <3>4, <3>5
  <2>2. \A r \in Live : pending[r].tableIdx \in Rows
    BY <1>2 DEF TypeOK, PendingRecord
  <2>3. stopped \subseteq Live /\ pending' = pending
    BY <1>1, <1>2
  <2> HIDE DEF stopped
  <2>4. \A r \in stopped : freeSlots[pending[r].tableIdx] = 0
    BY <2>3 DEF RowsInv
  <2>5. \A row \in Rows : freeSlots'[row] \in {0, 1}
    BY <2>1, <2>4 DEF RowsInv
  <2>6. \A row \in Rows :
          freeSlots'[row] = 0 => \E r \in Live' : pending'[r].tableIdx = row
    BY <1>11, <2>1, <2>3 DEF RowsInv
  <2>7. \A r \in Live' : freeSlots'[pending'[r].tableIdx] = 0
    BY <1>11, <2>1, <2>2, <2>3 DEF RowsInv
  <2>8. \A r, t \in Live' : pending'[r].tableIdx = pending'[t].tableIdx => r = t
    BY <1>11, <2>3 DEF RowsInv
  <2>9. QED
    BY <2>5, <2>6, <2>7, <2>8 DEF RowsInv
<1>15. QED
  BY <1>12, <1>13, <1>14

\* Every step of the scheduler keeps the invariant, one case per action.
LEMMA NextIInv ==
  ASSUME IInv, [Next]_vars
  PROVE  Places' /\ Pass' /\ RowsInv'
<1>1. CASE UNCHANGED vars
  BY <1>1 DEF vars, IInv, Places, Pass, RowsInv, Live, Visited
<1>2. CASE generate
  BY <1>2 DEF generate, IInv, Places, Pass, RowsInv, Live, Visited
<1>3. CASE Next
  BY <1>2, <1>3, AddIInv, AbortIInv, BeginPassIInv, AdmitIInv, SkipIInv,
     PrefillBatchIInv, DecodeOrIdleIInv, CompleteIInv
     DEF Next, Add, Abort, EngineStep, Complete
<1>4. QED
  BY <1>1, <1>3

\* RowsInv states row ownership without counting; the count follows.
LEMMA RowsInvCounts == IInv => RowOwnership
<1> SUFFICES ASSUME IInv PROVE RowOwnership
  OBVIOUS
<1>1. ASSUME NEW row \in Rows
      PROVE  freeSlots[row] + Cardinality({r \in Live : pending[r].tableIdx = row}) = 1
  <2> DEFINE H == {r \in Live : pending[r].tableIdx = row}
  <2>1. CASE freeSlots[row] = 0
    <3>1. PICK h \in Live : pending[h].tableIdx = row
      BY <2>1 DEF IInv, RowsInv
    <3>2. H = {h}
      BY <3>1 DEF IInv, RowsInv
    <3>3. Cardinality(H) = 1
      BY <3>2, FS_Singleton
    <3>4. QED
      BY <2>1, <3>3
  <2>2. CASE freeSlots[row] = 1
    <3>1. H = {}
      BY <2>2 DEF IInv, RowsInv
    <3>2. Cardinality(H) = 0
      BY <3>1, FS_EmptySet
    <3>3. QED
      BY <2>2, <3>2
  <2>3. QED
    BY <2>1, <2>2 DEF IInv, RowsInv
<1>2. QED
  BY <1>1 DEF RowOwnership, IInv, Places

\* A page-table row is free exactly once or owned by exactly one live request,
\* and a request is live exactly until it is aborted or stops: no leak, no
\* double free and no shared row, for any number of requests and rows and any
\* chunking of their prompts.
THEOREM RowOwnershipHolds == Spec => []RowOwnership
<1>1. Init => IInv
  BY InitTypeOK, InitIInv DEF IInv
<1>2. IInv /\ [Next]_vars => IInv'
  BY NextTypeOK, NextIInv DEF IInv
<1>3. QED
  BY <1>1, <1>2, RowsInvCounts, PTL DEF Spec

-----------------------------------------------------------------------------
(***************************************************************************)
(* However the prompts are cut into chunks, a batch finds the K/V of all   *)
(* its history written, one split prompt at most waits (at the head of the *)
(* queue) and advances in every step, and no request generates more tokens *)
(* than it asked for.                                                      *)
(*                                                                         *)
(* IInv says where a request is; CInv adds how far it has got.             *)
(***************************************************************************)
\* The requests whose Req was built in the step under way, so that the forward
\* has not yet written their chunk.
InStep == IF stage = "pass" THEN adder.admitted
          ELSE IF stage = "prefill" THEN batch ELSE {}

\* How many positions of r the forwards have written.
reach(r) ==
  IF req[r].kind = "none" THEN pending[r].cachedLen
  ELSE IF r \in InStep THEN req[r].cachedLen
  ELSE IF req[r].kind = "chunked" THEN req[r].deviceLen
  ELSE req[r].deviceLen - 1

\* What the offsets of a live request say about its prompt and its history.
OffsetsOf(r) ==
  /\ pending[r].cachedLen < pending[r].inputLen
  /\ kv[r] = 0 .. (reach(r) - 1)
  /\ r \in InStep => req[r].cachedLen <= req[r].deviceLen
  /\ req[r].kind = "chunked" => req[r].deviceLen < pending[r].inputLen
  /\ req[r].kind = "full" =>
       /\ req[r].maxDeviceLen = pending[r].inputLen + pending[r].outputLen
       /\ IF r \in InStep THEN req[r].deviceLen = pending[r].inputLen
                          ELSE req[r].deviceLen > pending[r].inputLen

Offsets == \A r \in Live : OffsetsOf(r)

\* A split prompt waits at the head of the queue; the admission loop meets it
\* first, with the whole step budget, and splits a prompt only with the last
\* of that budget.
Queue ==
  IF stage # "pass" THEN OneContinuation
  ELSE /\ adder.tokenBudget \in 0 .. MaxExtendTokens
       /\ adder.cursor = 1 => adder.tokenBudget = MaxExtendTokens
       /\ \A i \in adder.cursor .. Len(pendingList) :
            is_continuation(pendingList[i]) => i = 1
       /\ Len(adder.chunked) <= 1
       /\ adder.chunked # <<>> => adder.tokenBudget = 0
       /\ \A r \in Range(adder.skipped) : ~is_continuation(r)

CInv == Offsets /\ Queue /\ OutputBound

-----------------------------------------------------------------------------
(***************************************************************************)
(* Arithmetic and framing.                                                 *)
(***************************************************************************)
\* max(1, max_tokens), the bound of OutputBound.
LEMMA MaxWithOne ==
  ASSUME NEW n \in Nat
  PROVE  Max({1, n}) = IF n > 1 THEN n ELSE 1
<1>1. \E x \in {1, n} : \A y \in {1, n} : x >= y
  OBVIOUS
<1>2. /\ Max({1, n}) \in {1, n}
      /\ \A y \in {1, n} : Max({1, n}) >= y
  BY <1>1 DEF Max
<1>3. QED
  BY <1>2

\* An index of the second of two concatenated lists.
LEMMA SecondPart ==
  ASSUME NEW a \in Nat, NEW b \in Nat, NEW i \in 1 .. (a + b), ~(i <= a)
  PROVE  i - a \in 1 .. b
OBVIOUS

\* The chunk [cached_len, device_len) extends the history up to cached_len.
LEMMA ExtendHistory ==
  ASSUME NEW a \in Nat, NEW b \in Nat, a <= b
  PROVE  (0 .. (a - 1)) \union (a .. (b - 1)) = 0 .. (b - 1)
OBVIOUS

\* A decode step writes the newest position only.
LEMMA ExtendByOne ==
  ASSUME NEW a \in Nat, a > 0
  PROVE  (0 .. (a - 1 - 1)) \union {a - 1} = 0 .. (a - 1)
OBVIOUS

\* The requests built in this step are live.
LEMMA InStepLive == IInv => InStep \subseteq Live
<1> SUFFICES ASSUME IInv PROVE InStep \subseteq Live
  OBVIOUS
<1>1. CASE stage = "pass"
  <2>1. /\ Len(pendingList) \in Nat /\ adder.cursor \in Nat \ {0}
        /\ pendingList \in Seq(Requests)
        /\ adder.cursor <= Len(pendingList) + 1
        /\ adder.admitted \subseteq Visited
    BY <1>1, LenProperties DEF IInv, TypeOK, Pass
  <2>2. Visited \subseteq Range(pendingList)
    BY <2>1, RangeEquality DEF Visited
  <2>3. QED
    BY <1>1, <2>1, <2>2 DEF InStep, Live
<1>2. CASE stage # "pass"
  BY <1>2 DEF InStep, Live
<1>3. QED
  BY <1>1, <1>2

\* A request the step leaves alone keeps its offsets.
LEMMA SameOffsets ==
  ASSUME NEW t, OffsetsOf(t),
         pending'[t] = pending[t], kv'[t] = kv[t], req'[t] = req[t],
         (t \in InStep') <=> (t \in InStep)
  PROVE  OffsetsOf(t)'
BY DEF OffsetsOf, reach

-----------------------------------------------------------------------------
\* A fresh scheduler has no live request.
LEMMA InitCInv == Init => CInv
<1> SUFFICES ASSUME Init PROVE CInv
  OBVIOUS
<1>1. Range(pendingList) = {} /\ Len(pendingList) = 0
  BY EmptyRange, EmptySeq DEF Init
<1>2. Live = {}
  BY <1>1 DEF Live, Init
<1>3. QED
  BY <1>1, <1>2 DEF CInv, Offsets, Queue, OneContinuation, OutputBound, Init

\* add: the prefix-cache hit is the new request's history, and it joins behind
\* a split prompt.
LEMMA AddCInv ==
  ASSUME IInv, CInv, NEW r \in Requests, NEW n \in PromptLens,
         NEW m \in OutputLens, NEW c \in 0 .. (n - 1), add(r, n, c, m)
  PROVE  CInv'
<1>1. /\ pendingList \in Seq(Requests) /\ Len(pendingList) \in Nat
      /\ n \in Nat /\ c \in Nat
  BY SchedulerAssumption, LenProperties DEF IInv, TypeOK
<1>2. /\ outcome[r] = "new" /\ stage # "pass"
      /\ pendingList' = Append(pendingList, r)
      /\ outcome' = [outcome EXCEPT ![r] = "live"]
      /\ kv' = [kv EXCEPT ![r] = 0 .. (c - 1)]
      /\ UNCHANGED <<runningReqs, req, stage, batch, adder>>
  BY DEF add
<1>3. PICK row \in Rows :
        pending' = [pending EXCEPT ![r] = [inputLen |-> n, cachedLen |-> c,
                                           outputLen |-> m, tableIdx |-> row]]
  BY DEF add
<1>4. /\ r \notin Live /\ req[r].kind = "none" /\ Live \subseteq Requests
  BY <1>2 DEF IInv, Places
<1>5. InStep' = InStep /\ r \notin InStep
  BY <1>2, <1>4, InStepLive DEF InStep
<1>6. Live' = Live \union {r}
  BY <1>1, <1>2, AppendRange DEF Live
<1>7. Offsets'
  <2>1. ASSUME NEW t \in Live PROVE OffsetsOf(t)'
    <3>1. t # r /\ t \in Requests /\ OffsetsOf(t)
      BY <1>4 DEF CInv, Offsets
    <3>2. /\ pending'[t] = pending[t] /\ kv'[t] = kv[t] /\ req'[t] = req[t]
      BY <1>2, <1>3, <3>1 DEF IInv, TypeOK
    <3>3. QED
      BY <1>5, <3>1, <3>2, SameOffsets
  <2>2. OffsetsOf(r)'
    <3>1. /\ pending'[r].inputLen = n /\ pending'[r].cachedLen = c
          /\ kv'[r] = 0 .. (c - 1) /\ req'[r].kind = "none"
      BY <1>2, <1>3, <1>4 DEF IInv, TypeOK
    <3>2. r \notin InStep'
      BY <1>5
    <3>3. QED
      BY <1>1, <3>1, <3>2 DEF OffsetsOf, reach
  <2>3. QED
    BY <1>6, <2>1, <2>2 DEF Offsets
<1>8. Queue'
  <2>1. ASSUME NEW i \in 1 .. Len(pendingList'), req'[pendingList'[i]].kind = "chunked"
        PROVE  i = 1
    <3>1. i \in 1 .. Len(pendingList) \/ pendingList'[i] = r
      BY <1>1, <1>2, AppendProperties
    <3>2. i \in 1 .. Len(pendingList)
      BY <1>2, <1>4, <2>1, <3>1
    <3>3. pendingList'[i] = pendingList[i]
      BY <1>1, <1>2, <3>2, AppendProperties
    <3>4. QED
      BY <1>2, <2>1, <3>2, <3>3 DEF CInv, Queue, OneContinuation, is_continuation
  <2>2. QED
    BY <1>2, <2>1 DEF Queue, OneContinuation, is_continuation
<1>9. OutputBound'
  <2>1. ASSUME NEW t \in Requests, outcome'[t] = "done"
        PROVE  /\ outcome[t] = "done"
               /\ req'[t] = req[t] /\ pending'[t] = pending[t]
    <3>1. t # r /\ outcome[t] = "done"
      BY <1>2, <2>1 DEF IInv, TypeOK
    <3>2. QED
      BY <1>2, <1>3, <3>1 DEF IInv, TypeOK
  <2>2. QED
    BY <2>1 DEF CInv, OutputBound
<1>10. QED
  BY <1>7, <1>8, <1>9 DEF CInv

\* abort: one live request fewer, the others keep their order.
LEMMA AbortCInv ==
  ASSUME IInv, CInv, NEW r \in Requests, abort(r)
  PROVE  CInv'
<1>1. /\ pendingList \in Seq(Requests) /\ Len(pendingList) \in Nat
      /\ Injective(pendingList)
  BY LenProperties DEF IInv, TypeOK, Places
<1>2. /\ stage = "idle" /\ batch = {}
      /\ outcome' = [outcome EXCEPT ![r] = "aborted"]
      /\ UNCHANGED <<pending, req, stage, batch, adder, kv>>
  BY DEF abort, IInv, Places
<1>3. \/ \E i \in 1 .. Len(pendingList) : pendingList' = RemoveAt(pendingList, i)
      \/ pendingList' = pendingList
  BY DEF abort
<1>4. runningReqs' \subseteq runningReqs
  BY DEF abort
<1>5. /\ Live' \subseteq Live
      /\ \A j \in 1 .. Len(pendingList') :
           is_continuation(pendingList[j])' => j = 1
  <2>0. \A j \in 1 .. Len(pendingList) :
          req[pendingList[j]].kind = "chunked" => j = 1
    BY <1>2 DEF CInv, Queue, OneContinuation, is_continuation
  <2>1. CASE \E i \in 1 .. Len(pendingList) : pendingList' = RemoveAt(pendingList, i)
    <3>1. PICK i \in 1 .. Len(pendingList) : pendingList' = RemoveAt(pendingList, i)
      BY <2>1
    <3>2. Range(pendingList') \subseteq Range(pendingList)
      BY <1>1, <3>1, RemoveAtRange
    <3>3. /\ Len(pendingList') = Len(pendingList) - 1
          /\ \A j \in 1 .. (Len(pendingList) - 1) :
               pendingList'[j] = IF j < i THEN pendingList[j] ELSE pendingList[j + 1]
      BY <1>1, <3>1, RemoveAtSeq
    <3>4. ASSUME NEW j \in 1 .. (Len(pendingList) - 1),
                 req[pendingList'[j]].kind = "chunked"
          PROVE  j = 1
      <4>1. CASE j < i
        BY <1>1, <2>0, <3>3, <3>4, <4>1
      <4>2. CASE ~(j < i)
        <5>1. /\ j + 1 \in 1 .. Len(pendingList) /\ j + 1 # 1
              /\ req[pendingList[j + 1]].kind = "chunked"
          BY <1>1, <3>3, <3>4, <4>2
        <5>2. QED
          BY <2>0, <5>1
      <4>3. QED
        BY <4>1, <4>2
    <3>5. QED
      BY <1>2, <1>4, <3>2, <3>3, <3>4 DEF Live, is_continuation
  <2>2. CASE pendingList' = pendingList
    BY <1>2, <1>4, <2>0, <2>2 DEF Live, is_continuation
  <2>3. QED
    BY <1>3, <2>1, <2>2
<1>6. Offsets'
  <2>1. InStep' = InStep
    BY <1>2 DEF InStep
  <2>2. ASSUME NEW t \in Live' PROVE OffsetsOf(t)'
    <3>1. OffsetsOf(t)
      BY <1>5 DEF CInv, Offsets
    <3>2. QED
      BY <1>2, <2>1, <3>1, SameOffsets
  <2>3. QED
    BY <2>2 DEF Offsets
<1>7. Queue'
  BY <1>2, <1>5 DEF Queue, OneContinuation
<1>8. OutputBound'
  <2>1. ASSUME NEW t \in Requests, outcome'[t] = "done" PROVE outcome[t] = "done"
    BY <1>2, <2>1 DEF IInv, TypeOK
  <2>2. QED
    BY <1>2, <2>1 DEF CInv, OutputBound
<1>9. QED
  BY <1>6, <1>7, <1>8 DEF CInv

\* The admission loop starts with the whole step budget.
LEMMA BeginPassCInv ==
  ASSUME IInv, CInv, begin_pass
  PROVE  CInv'
<1>1. /\ stage = "idle" /\ stage' = "pass" /\ batch = {}
      /\ adder'.cursor = 1 /\ adder'.admitted = {}
      /\ adder'.tokenBudget = MaxExtendTokens
      /\ adder'.chunked = <<>> /\ adder'.skipped = <<>>
      /\ UNCHANGED <<pendingList, runningReqs, pending, req, batch, kv, outcome>>
  BY DEF begin_pass, IInv, Places
<1>2. InStep' = {} /\ InStep = {} /\ Live' = Live
  BY <1>1 DEF InStep, Live
<1>3. Offsets'
  <2>1. ASSUME NEW t \in Live PROVE OffsetsOf(t)'
    <3>1. OffsetsOf(t)
      BY DEF CInv, Offsets
    <3>2. QED
      BY <1>1, <1>2, <3>1, SameOffsets
  <2>2. QED
    BY <1>2, <2>1 DEF Offsets
<1>4. Queue'
  <2>1. Range(adder'.skipped) = {} /\ Len(adder'.chunked) = 0
    BY <1>1, EmptyRange, EmptySeq
  <2>2. MaxExtendTokens \in 0 .. MaxExtendTokens
    BY SchedulerAssumption
  <2>3. \A i \in 1 .. Len(pendingList') : is_continuation(pendingList[i])' => i = 1
    BY <1>1 DEF CInv, Queue, OneContinuation, is_continuation
  <2>4. QED
    BY <1>1, <2>1, <2>2, <2>3 DEF Queue
<1>5. OutputBound'
  BY <1>1 DEF CInv, OutputBound
<1>6. QED
  BY <1>3, <1>4, <1>5 DEF CInv

-----------------------------------------------------------------------------
(***************************************************************************)
(* The admission loop.                                                     *)
(***************************************************************************)
\* The entry the loop looks at has not been looked at before, its history
\* reaches up to where its next chunk starts, and only the first entry of the
\* step can be a split prompt.
LEMMA CursorFacts ==
  ASSUME IInv, CInv, stage = "pass", adder.cursor <= Len(pendingList),
         NEW r \in Requests, r = pendingList[adder.cursor]
  PROVE  /\ r \in Live /\ r \notin Visited /\ r \notin InStep
         /\ \A i \in (adder.cursor + 1) .. Len(pendingList) : pendingList[i] # r
         /\ chunk_start(r) \in Nat /\ chunk_start(r) < pending[r].inputLen
         /\ kv[r] = 0 .. (chunk_start(r) - 1)
         /\ is_continuation(r) =>
              adder.cursor = 1 /\ adder.tokenBudget = MaxExtendTokens
<1>1. /\ Len(pendingList) \in Nat /\ adder.cursor \in Nat \ {0}
      /\ pendingList \in Seq(Requests) /\ Injective(pendingList)
  BY LenProperties DEF IInv, TypeOK, Places
<1>2. r \in Range(pendingList) /\ r \in Live
  BY <1>1, RangeEquality DEF Live
<1>3. r \notin Visited
  BY <1>1 DEF Visited, Injective
<1>4. \A i \in (adder.cursor + 1) .. Len(pendingList) : pendingList[i] # r
  BY <1>1 DEF Injective
<1>5. r \notin InStep /\ r \notin adder.admitted
  BY <1>3 DEF InStep, IInv, Pass
<1>6. req[r].kind \in {"none", "chunked"}
  BY <1>2, <1>5 DEF IInv, Places, TypeOK, ReqRecord
<1>7. /\ req[r] \in ReqRecord /\ pending[r] \in PendingRecord
      /\ OffsetsOf(r)
  BY <1>2 DEF IInv, TypeOK, CInv, Offsets
<1>8. /\ chunk_start(r) \in Nat /\ chunk_start(r) < pending[r].inputLen
      /\ kv[r] = 0 .. (chunk_start(r) - 1)
  BY <1>5, <1>6, <1>7
     DEF chunk_start, is_continuation, OffsetsOf, reach, ReqRecord, PendingRecord
<1>9. is_continuation(r) =>
        adder.cursor = 1 /\ adder.tokenBudget = MaxExtendTokens
  BY <1>1 DEF CInv, Queue
<1>10. QED
  BY <1>2, <1>3, <1>4, <1>5, <1>8, <1>9

\* The chunk of an admitted entry: at least one token, at most the budget, and
\* all of the budget if it leaves a part of the prompt.
LEMMA ChunkFacts ==
  ASSUME IInv, CInv, stage = "pass", NEW r \in Requests, admissible(r),
         chunk_start(r) \in Nat, chunk_start(r) < pending[r].inputLen
  PROVE  /\ chunk_size(r) \in 1 .. adder.tokenBudget
         /\ chunk_start(r) + chunk_size(r) <= pending[r].inputLen
         /\ chunk_start(r) + chunk_size(r) < pending[r].inputLen =>
              chunk_size(r) = adder.tokenBudget
<1>1. /\ adder.tokenBudget \in Nat /\ adder.tokenBudget > 0
      /\ pending[r].inputLen \in Nat
      /\ chunk_size(r) <= adder.tokenBudget
  BY SchedulerAssumption DEF CInv, Queue, IInv, TypeOK, PendingRecord, admissible
<1>2. QED
  BY <1>1 DEF chunk_size

\* The step budget is a number of tokens from 0 to max_extend_tokens.
LEMMA BudgetType ==
  ASSUME CInv, stage = "pass"
  PROVE  /\ adder.tokenBudget \in Nat /\ MaxExtendTokens \in Nat \ {0}
         /\ adder.tokenBudget <= MaxExtendTokens
BY SchedulerAssumption DEF CInv, Queue

\* Admitting an entry: it becomes part of the step with its history up to the
\* chunk, and it is split only by using the budget up.
LEMMA AdmitCInv ==
  ASSUME IInv, CInv, admit_one
  PROVE  CInv'
<1>1. /\ stage = "pass" /\ adder.cursor <= Len(pendingList)
      /\ UNCHANGED <<pendingList, runningReqs, pending, stage, batch, kv, outcome>>
  BY DEF admit_one
<1>2. /\ pendingList[adder.cursor] \in Requests
      /\ Len(pendingList) \in Nat /\ adder.cursor \in Nat \ {0}
  BY <1>1, CursorEntry, LenProperties DEF IInv, TypeOK
<1>3. PICK r \in Requests : r = pendingList[adder.cursor]
  BY <1>2
<1>4. PICK q : q = built_req(r)
  OBVIOUS
<1>5. /\ admissible(r)
      /\ req' = [req EXCEPT ![r] = q]
      /\ adder'.cursor = adder.cursor + 1
      /\ adder'.tokenBudget = adder.tokenBudget - chunk_size(r)
      /\ adder'.admitted = adder.admitted \union {r}
      /\ adder'.chunked = IF q.kind = "chunked" THEN Append(adder.chunked, r)
                                                ELSE adder.chunked
      /\ adder'.skipped = adder.skipped
  BY <1>3, <1>4 DEF admit_one
<1>6. /\ r \in Live /\ r \notin Visited /\ r \notin InStep
      /\ \A i \in (adder.cursor + 1) .. Len(pendingList) : pendingList[i] # r
      /\ chunk_start(r) \in Nat /\ chunk_start(r) < pending[r].inputLen
      /\ kv[r] = 0 .. (chunk_start(r) - 1)
  BY <1>1, <1>3, CursorFacts
<1>7. /\ chunk_size(r) \in 1 .. adder.tokenBudget
      /\ chunk_start(r) + chunk_size(r) <= pending[r].inputLen
      /\ chunk_start(r) + chunk_size(r) < pending[r].inputLen =>
           chunk_size(r) = adder.tokenBudget
  BY <1>1, <1>5, <1>6, ChunkFacts
<1>8. /\ req'[r] = q
      /\ \A t \in Requests \ {r} : req'[t] = req[t]
  BY <1>5 DEF IInv, TypeOK
<1>9. /\ pending[r].inputLen \in Nat /\ pending[r].outputLen \in Nat
      /\ adder.tokenBudget \in Nat /\ MaxExtendTokens \in Nat \ {0}
      /\ adder.tokenBudget <= MaxExtendTokens
      /\ adder.chunked \in Seq(Requests)
  BY <1>1, BudgetType DEF IInv, TypeOK, PendingRecord
<1>10. /\ q.kind = IF chunk_start(r) + chunk_size(r) < pending[r].inputLen
                     THEN "chunked" ELSE "full"
       /\ q.cachedLen = chunk_start(r)
       /\ q.deviceLen = chunk_start(r) + chunk_size(r)
       /\ q.maxDeviceLen = chunk_start(r) + chunk_size(r) + pending[r].outputLen
  BY <1>4 DEF built_req
<1>11. Live' = Live /\ Live \subseteq Requests
  BY <1>1 DEF Live, IInv, Places
<1>12. InStep' = InStep \union {r}
  BY <1>1, <1>5 DEF InStep
<1>13. Offsets'
  <2>1. ASSUME NEW t \in Live, t # r PROVE OffsetsOf(t)'
    <3>1. OffsetsOf(t) /\ t \in Requests
      BY <1>11 DEF CInv, Offsets
    <3>2. QED
      BY <1>1, <1>8, <1>12, <2>1, <3>1, SameOffsets
  <2>2. OffsetsOf(r)'
    <3>1. /\ pending'[r] = pending[r] /\ kv'[r] = kv[r] /\ req'[r] = q
          /\ r \in InStep'
      BY <1>1, <1>8, <1>12
    <3>2. pending[r].cachedLen < pending[r].inputLen
      BY <1>6 DEF CInv, Offsets, OffsetsOf
    <3>3. reach(r)' = chunk_start(r)
      BY <1>10, <3>1 DEF reach
    <3>4. q.cachedLen <= q.deviceLen
      BY <1>6, <1>7, <1>9, <1>10
    <3>5. q.kind = "chunked" => q.deviceLen < pending[r].inputLen
      BY <1>10
    <3>6. q.kind = "full" =>
            /\ q.deviceLen = pending[r].inputLen
            /\ q.maxDeviceLen = pending[r].inputLen + pending[r].outputLen
      <4>1. chunk_size(r) \in Nat
        BY <1>7, <1>9
      <4>2. ~(chunk_start(r) + chunk_size(r) < pending[r].inputLen)
              => chunk_start(r) + chunk_size(r) = pending[r].inputLen
        BY <1>6, <1>7, <1>9, <4>1, SMTT(60)
      <4>3. q.kind = "full" => ~(chunk_start(r) + chunk_size(r) < pending[r].inputLen)
        BY <1>10
      <4>4. QED
        BY <1>10, <4>2, <4>3
    <3>7. QED
      BY <1>6, <3>1, <3>2, <3>3, <3>4, <3>5, <3>6 DEF OffsetsOf
  <2>3. QED
    BY <1>11, <2>1, <2>2 DEF Offsets
<1>14. Queue'
  <2>1. /\ adder'.tokenBudget \in 0 .. MaxExtendTokens
        /\ adder'.cursor # 1
    BY <1>2, <1>5, <1>7, <1>9, SMTT(60)
  <2>2. ASSUME NEW i \in adder'.cursor .. Len(pendingList'),
               is_continuation(pendingList[i])'
        PROVE  i = 1
    <3>1. /\ i \in (adder.cursor + 1) .. Len(pendingList)
          /\ i \in adder.cursor .. Len(pendingList)
      BY <1>1, <1>2, <1>5
    <3>2. pendingList[i] # r /\ pendingList[i] \in Requests
      BY <1>2, <1>6, <3>1, ElementOfSeq DEF IInv, TypeOK
    <3>3. is_continuation(pendingList[i])
      BY <1>1, <1>8, <2>2, <3>2 DEF is_continuation
    <3>4. QED
      BY <1>1, <3>1, <3>3 DEF CInv, Queue
  <2>3. adder.chunked = <<>>
    BY <1>1, <1>7, <1>9 DEF CInv, Queue
  <2>4. /\ Len(adder'.chunked) <= 1
        /\ adder'.chunked # <<>> => adder'.tokenBudget = 0
    <3>1. CASE q.kind = "chunked"
      <4>1. Len(adder'.chunked) = 1
        BY <1>5, <1>9, <2>3, <3>1, AppendProperties, EmptySeq
      <4>2. adder'.tokenBudget = 0
        BY <1>5, <1>7, <1>9, <1>10, <3>1
      <4>3. QED
        BY <4>1, <4>2
    <3>2. CASE q.kind # "chunked"
      BY <1>5, <2>3, <3>2, EmptySeq
    <3>3. QED
      BY <3>1, <3>2
  <2>5. \A t \in Range(adder'.skipped) : ~is_continuation(t)'
    <3>1. ASSUME NEW t \in Range(adder.skipped) PROVE ~is_continuation(t)'
      <4>1. t \in Visited /\ t \in Requests
        BY <1>1, RangeOfSeq DEF IInv, Pass, TypeOK
      <4>2. req'[t] = req[t]
        BY <1>6, <1>8, <4>1
      <4>3. ~is_continuation(t)
        BY <1>1 DEF CInv, Queue
      <4>4. QED
        BY <4>2, <4>3 DEF is_continuation
    <3>2. QED
      BY <1>5, <3>1
  <2>6. QED
    BY <1>1, <2>1, <2>2, <2>4, <2>5 DEF Queue
<1>15. OutputBound'
  <2>1. ASSUME NEW t \in Requests, outcome[t] = "done" PROVE req'[t] = req[t]
    <3>1. t # r
      BY <1>6, <2>1 DEF IInv, Places
    <3>2. QED
      BY <1>8, <3>1
  <2>2. QED
    BY <1>1, <2>1 DEF CInv, OutputBound
<1>16. QED
  BY <1>13, <1>14, <1>15 DEF CInv

\* Only a fresh prompt is ever passed over: a split one always gets a chunk.
LEMMA SkippedIsFresh ==
  ASSUME IInv, CInv, skip_one
  PROVE  ~is_continuation(pendingList[adder.cursor])
<1>1. /\ stage = "pass" /\ adder.cursor <= Len(pendingList)
      /\ ~admissible(pendingList[adder.cursor])
  BY DEF skip_one
<1>2. pendingList[adder.cursor] \in Requests
  BY <1>1, CursorEntry DEF IInv
<1>3. PICK r \in Requests : r = pendingList[adder.cursor]
  BY <1>2
<1>4. ASSUME is_continuation(r) PROVE admissible(r)
  <2>1. /\ chunk_start(r) \in Nat /\ chunk_start(r) < pending[r].inputLen
        /\ adder.tokenBudget = MaxExtendTokens
    BY <1>1, <1>3, <1>4, CursorFacts
  <2>2. /\ MaxExtendTokens \in Nat \ {0} /\ pending[r].inputLen \in Nat
    BY SchedulerAssumption DEF IInv, TypeOK, PendingRecord
  <2>3. chunk_size(r) <= adder.tokenBudget /\ chunk_size(r) > 0
    BY <1>4, <2>1, <2>2 DEF chunk_size, may_split
  <2>4. QED
    BY <1>4, <2>1, <2>2, <2>3 DEF admissible
<1>5. QED
  BY <1>1, <1>3, <1>4

\* Passing an entry over changes no request.
LEMMA SkipCInv ==
  ASSUME IInv, CInv, skip_one
  PROVE  CInv'
<1>1. ~is_continuation(pendingList[adder.cursor])
  BY SkippedIsFresh
<1>2. /\ stage = "pass" /\ adder.cursor <= Len(pendingList)
      /\ adder'.cursor = adder.cursor + 1
      /\ adder'.tokenBudget = adder.tokenBudget
      /\ adder'.admitted = adder.admitted
      /\ adder'.chunked = adder.chunked
      /\ adder'.skipped = Append(adder.skipped, pendingList[adder.cursor])
      /\ UNCHANGED <<pendingList, runningReqs, pending, req, stage, batch, kv,
                     outcome>>
  BY <1>1 DEF skip_one
<1>3. /\ Len(pendingList) \in Nat /\ adder.cursor \in Nat \ {0}
      /\ pendingList[adder.cursor] \in Requests
      /\ adder.skipped \in Seq(Requests)
  BY <1>2, CursorEntry, LenProperties DEF IInv, TypeOK
<1>4. InStep' = InStep /\ Live' = Live
  BY <1>2 DEF InStep, Live
<1>5. Offsets'
  <2>1. ASSUME NEW t \in Live PROVE OffsetsOf(t)'
    <3>1. OffsetsOf(t)
      BY DEF CInv, Offsets
    <3>2. QED
      BY <1>2, <1>4, <3>1, SameOffsets
  <2>2. QED
    BY <1>4, <2>1 DEF Offsets
<1>6. Queue'
  <2>1. Range(adder'.skipped) = Range(adder.skipped) \union {pendingList[adder.cursor]}
    BY <1>2, <1>3, AppendRange
  <2>2. \A t \in Range(adder'.skipped) : ~is_continuation(t)'
    BY <1>1, <1>2, <2>1 DEF CInv, Queue, is_continuation
  <2>3. \A i \in adder'.cursor .. Len(pendingList') :
          is_continuation(pendingList[i])' => i = 1
    BY <1>2, <1>3 DEF CInv, Queue, is_continuation
  <2>4. QED
    BY <1>2, <1>3, <2>2, <2>3 DEF CInv, Queue
<1>7. OutputBound'
  BY <1>2 DEF CInv, OutputBound
<1>8. QED
  BY <1>5, <1>6, <1>7 DEF CInv

\* The loop's end: every entry was looked at, so the split prompts of before
\* are all in the step, and at most one is split now.
LEMMA LoopEnd ==
  ASSUME IInv, CInv, stage = "pass", adder.cursor > Len(pendingList)
  PROVE  /\ Visited = Range(pendingList)
         /\ \A r \in Range(pendingList) : is_continuation(r) => r \in adder.admitted
<1>1. /\ pendingList \in Seq(Requests) /\ Len(pendingList) \in Nat
      /\ adder.cursor \in Nat \ {0} /\ adder.cursor <= Len(pendingList) + 1
  BY LenProperties DEF IInv, TypeOK, Pass
<1>2. adder.cursor - 1 = Len(pendingList)
  BY <1>1
<1>3. Visited = Range(pendingList)
  BY <1>1, <1>2, RangeEquality DEF Visited
<1>4. ASSUME NEW r \in Range(pendingList), is_continuation(r)
      PROVE  r \in adder.admitted
  <2>1. r \notin Range(adder.skipped)
    BY <1>4 DEF CInv, Queue
  <2>2. QED
    BY <1>3, <1>4, <2>1 DEF IInv, Pass
<1>5. QED
  BY <1>3, <1>4

\* The batch is what the loop built, and the prompt it split, if any, goes to
\* the head of the queue.
LEMMA PrefillBatchCInv ==
  ASSUME IInv, CInv, prefill_batch
  PROVE  CInv'
<1>1. /\ stage = "pass" /\ adder.cursor > Len(pendingList)
      /\ pendingList' = adder.chunked \o adder.skipped
      /\ batch' = adder.admitted /\ stage' = "prefill" /\ batch = {}
      /\ UNCHANGED <<runningReqs, pending, req, kv, outcome>>
  BY DEF prefill_batch, requeued, IInv, Places
<1>2. /\ adder.chunked \in Seq(Requests) /\ adder.skipped \in Seq(Requests)
      /\ Len(adder.chunked) \in Nat /\ Len(adder.skipped) \in Nat
      /\ Len(adder.chunked) <= 1
  BY <1>1, LenProperties DEF IInv, TypeOK, CInv, Queue
<1>3. InStep' = InStep
  BY <1>1 DEF InStep
<1>4. Live' = Live
  <2>1. Range(pendingList') = Range(adder.chunked) \union Range(adder.skipped)
    BY <1>1, <1>2, RangeConcatenation
  <2>2. /\ Range(adder.skipped) = Range(pendingList) \ adder.admitted
        /\ Range(adder.chunked) \subseteq adder.admitted
        /\ adder.admitted \subseteq Range(pendingList)
    BY <1>1, LoopEnd DEF IInv, Pass
  <2>3. QED
    BY <1>1, <2>1, <2>2 DEF Live
<1>5. Offsets'
  <2>1. ASSUME NEW t \in Live PROVE OffsetsOf(t)'
    <3>1. OffsetsOf(t)
      BY DEF CInv, Offsets
    <3>2. QED
      BY <1>1, <1>3, <3>1, SameOffsets
  <2>2. QED
    BY <1>4, <2>1 DEF Offsets
<1>6. Queue'
  <2>1. ASSUME NEW i \in 1 .. Len(pendingList'), is_continuation(pendingList[i])'
        PROVE  i = 1
    <3>1. /\ i \in 1 .. (Len(adder.chunked) + Len(adder.skipped))
          /\ pendingList'[i] = IF i <= Len(adder.chunked) THEN adder.chunked[i]
                               ELSE adder.skipped[i - Len(adder.chunked)]
      BY <1>1, <1>2, ConcatProperties, ZenonT(60)
    <3>2. CASE i <= Len(adder.chunked)
      BY <1>2, <3>1, <3>2
    <3>3. CASE ~(i <= Len(adder.chunked))
      <4>1. /\ i - Len(adder.chunked) \in 1 .. Len(adder.skipped)
            /\ pendingList'[i] = adder.skipped[i - Len(adder.chunked)]
        BY ONLY <1>2, <3>1, <3>3, SecondPart
      <4>2. pendingList'[i] \in Range(adder.skipped)
        BY <1>2, <4>1, RangeEquality
      <4>3. ~is_continuation(pendingList[i])'
        BY <1>1, <4>2 DEF CInv, Queue, is_continuation
      <4>4. QED
        BY <2>1, <4>3
    <3>4. QED
      BY <3>2, <3>3
  <2>2. QED
    BY <1>1, <2>1 DEF Queue, OneContinuation
<1>7. OutputBound'
  BY <1>1 DEF CInv, OutputBound
<1>8. QED
  BY <1>5, <1>6, <1>7 DEF CInv

\* With nothing admitted the loop met no split prompt; the queue is as it was.
LEMMA DecodeOrIdleCInv ==
  ASSUME IInv, CInv, decode_batch \/ idle_step
  PROVE  CInv'
<1>1. /\ stage = "idle" \/ (stage = "pass" /\ adder.cursor > Len(pendingList))
      /\ stage = "pass" => adder.admitted = {}
      /\ stage' \in {"idle", "decode"}
      /\ UNCHANGED <<pendingList, runningReqs, pending, req, kv, outcome>>
      /\ batch' \subseteq Live /\ batch = {}
  BY DEF decode_batch, idle_step, IInv, Places, Live
<1>2. InStep = {} /\ InStep' = {}
  BY <1>1 DEF InStep
<1>3. Live' = Live
  <2>1. batch' = runningReqs \/ batch' = batch
    BY DEF decode_batch, idle_step
  <2>2. QED
    BY <1>1, <2>1 DEF Live
<1>4. Offsets'
  <2>1. ASSUME NEW t \in Live PROVE OffsetsOf(t)'
    <3>1. OffsetsOf(t)
      BY DEF CInv, Offsets
    <3>2. QED
      BY <1>1, <1>2, <3>1, SameOffsets
  <2>2. QED
    BY <1>3, <2>1 DEF Offsets
<1>5. Queue'
  <2>1. ASSUME NEW i \in 1 .. Len(pendingList), is_continuation(pendingList[i])
        PROVE  i = 1
    <3>1. CASE stage = "idle"
      BY <2>1, <3>1 DEF CInv, Queue, OneContinuation
    <3>2. CASE stage = "pass" /\ adder.cursor > Len(pendingList)
      <4>1. pendingList[i] \in Range(pendingList)
        BY RangeEquality DEF IInv, TypeOK
      <4>2. pendingList[i] \in adder.admitted
        BY <2>1, <3>2, <4>1, LoopEnd
      <4>3. QED
        BY <1>1, <3>2, <4>2
    <3>3. QED
      BY <1>1, <3>1, <3>2
  <2>2. QED
    BY <1>1, <2>1 DEF Queue, OneContinuation, is_continuation
<1>6. OutputBound'
  BY <1>1 DEF CInv, OutputBound
<1>7. QED
  BY <1>4, <1>5, <1>6 DEF CInv

-----------------------------------------------------------------------------
(***************************************************************************)
(* The end of a step.                                                      *)
(***************************************************************************)
\* What the forward and complete() do to a sampled request's offsets.
LEMMA SampledFacts ==
  ASSUME IInv, CInv, NEW eos \in SUBSET sampled, complete(eos), NEW r \in sampled
  PROVE  /\ r \in Requests /\ r \in batch /\ r \in Live
         /\ req'[r].kind = "full"
         /\ req'[r].deviceLen = req[r].deviceLen + 1
         /\ req'[r].maxDeviceLen = pending[r].inputLen + pending[r].outputLen
         /\ IF stage = "prefill" THEN req[r].deviceLen = pending[r].inputLen
            ELSE /\ req[r].deviceLen > pending[r].inputLen
                 /\ req[r].deviceLen < pending[r].inputLen + pending[r].outputLen
         /\ kv'[r] = 0 .. (req[r].deviceLen - 1)
<1>1. /\ stage \in {"prefill", "decode"}
      /\ req' = [t \in Requests |->
                   IF t \in sampled THEN after_sample(t, eos) ELSE req[t]]
      /\ kv' = [t \in Requests |->
                  IF t \in batch THEN kv[t] \union written(t) ELSE kv[t]]
  BY DEF complete
<1>2. /\ r \in batch /\ r \in Live /\ r \in Requests /\ req[r].kind = "full"
  BY DEF sampled, IInv, TypeOK, Live
<1>3. req'[r] = after_sample(r, eos)
  BY <1>1, <1>2
<1>4. /\ req'[r].kind = "full"
      /\ req'[r].deviceLen = req[r].deviceLen + 1
      /\ req'[r].maxDeviceLen = req[r].maxDeviceLen
  BY <1>2, <1>3 DEF after_sample
<1>5. /\ OffsetsOf(r)
      /\ req[r].cachedLen \in Nat /\ req[r].deviceLen \in Nat
      /\ req[r].maxDeviceLen \in Nat
      /\ pending[r].inputLen \in Nat /\ pending[r].outputLen \in Nat
  BY <1>2 DEF CInv, Offsets, IInv, TypeOK, ReqRecord, PendingRecord
<1>6. kv'[r] = kv[r] \union written(r)
  BY <1>1, <1>2
<1>7. req[r].maxDeviceLen = pending[r].inputLen + pending[r].outputLen
  BY <1>2, <1>5 DEF OffsetsOf
<1>8. CASE stage = "prefill"
  <2>1. r \in InStep
    BY <1>2, <1>8 DEF InStep
  <2>2. /\ req[r].deviceLen = pending[r].inputLen
        /\ kv[r] = 0 .. (req[r].cachedLen - 1)
        /\ req[r].cachedLen <= req[r].deviceLen
    BY <1>2, <1>5, <2>1 DEF OffsetsOf, reach
  <2>3. written(r) = req[r].cachedLen .. (req[r].deviceLen - 1)
    BY <1>8 DEF written
  <2>4. kv'[r] = 0 .. (req[r].deviceLen - 1)
    BY <1>5, <1>6, <2>2, <2>3, ExtendHistory
  <2>5. QED
    BY <1>2, <1>4, <1>7, <1>8, <2>2, <2>4
<1>9. CASE stage = "decode"
  <2>1. r \notin InStep /\ r \in runningReqs
    BY <1>2, <1>9 DEF InStep, IInv, Places
  <2>2. /\ req[r].deviceLen > pending[r].inputLen
        /\ kv[r] = 0 .. (req[r].deviceLen - 1 - 1)
    BY <1>2, <1>5, <2>1 DEF OffsetsOf, reach
  <2>3. can_decode(req[r])
    BY <2>1 DEF IInv, Places
  <2>4. req[r].deviceLen < pending[r].inputLen + pending[r].outputLen
    BY <1>5, <1>7, <2>3 DEF can_decode
  <2>5. written(r) = {req[r].deviceLen - 1}
    BY <1>9 DEF written
  <2>6. req[r].deviceLen > 0
    BY <1>5, <2>2
  <2>7. kv'[r] = 0 .. (req[r].deviceLen - 1)
    BY <1>5, <1>6, <2>2, <2>5, <2>6, ExtendByOne
  <2>8. QED
    BY <1>2, <1>4, <1>7, <1>9, <2>2, <2>4, <2>7
<1>10. QED
  BY <1>1, <1>8, <1>9

\* What they do to an unfinished chunk: its K/V is written, it keeps its Req
\* and its place in the queue.
LEMMA UnfinishedFacts ==
  ASSUME IInv, CInv, NEW eos \in SUBSET sampled, complete(eos),
         NEW r \in batch \ sampled
  PROVE  /\ stage = "prefill" /\ r \in Requests /\ r \in Live
         /\ req[r].kind = "chunked" /\ ~req[r].aborted
         /\ req'[r] = req[r]
         /\ kv'[r] = 0 .. (req[r].deviceLen - 1)
<1>1. /\ stage \in {"prefill", "decode"}
      /\ req' = [t \in Requests |->
                   IF t \in sampled THEN after_sample(t, eos) ELSE req[t]]
      /\ kv' = [t \in Requests |->
                  IF t \in batch THEN kv[t] \union written(t) ELSE kv[t]]
  BY DEF complete
<1>2. r \in Requests /\ r \in Live /\ r \in batch /\ req[r].kind # "full"
  BY DEF IInv, TypeOK, Live, sampled
<1>3. stage = "prefill"
  <2>1. CASE stage = "decode"
    <3>1. can_decode(req[r])
      BY <1>2, <2>1 DEF IInv, Places
    <3>2. QED
      BY <1>2, <3>1 DEF can_decode
  <2>2. QED
    BY <1>1, <2>1
<1>4. req[r].kind = "chunked" /\ ~req[r].aborted
  BY <1>2 DEF IInv, Places, TypeOK, ReqRecord
<1>5. r \in InStep
  BY <1>2, <1>3 DEF InStep
<1>6. /\ kv[r] = 0 .. (req[r].cachedLen - 1)
      /\ req[r].cachedLen <= req[r].deviceLen
      /\ req[r].cachedLen \in Nat /\ req[r].deviceLen \in Nat
  BY <1>2, <1>4, <1>5
     DEF CInv, Offsets, OffsetsOf, reach, IInv, TypeOK, ReqRecord
<1>7. written(r) = req[r].cachedLen .. (req[r].deviceLen - 1)
  BY <1>3 DEF written
<1>8. kv'[r] = 0 .. (req[r].deviceLen - 1)
  BY <1>1, <1>2, <1>6, <1>7, ExtendHistory
<1>9. QED
  BY <1>1, <1>2, <1>3, <1>4, <1>8

\* complete(): histories grow by what was written, the requests that stop have
\* emitted what they asked for at most.
LEMMA CompleteCInv ==
  ASSUME IInv, CInv, NEW eos \in SUBSET sampled, complete(eos)
  PROVE  CInv'
<1>1. /\ stage \in {"prefill", "decode"} /\ stage' = "idle" /\ batch' = {}
      /\ runningReqs' \subseteq runningReqs \union batch
      /\ UNCHANGED <<pendingList, pending>>
      /\ req' = [t \in Requests |->
                   IF t \in sampled THEN after_sample(t, eos) ELSE req[t]]
      /\ kv' = [t \in Requests |->
                  IF t \in batch THEN kv[t] \union written(t) ELSE kv[t]]
      /\ outcome' = [t \in Requests |->
                       IF t \in batch /\ req'[t].aborted THEN "done"
                                                         ELSE outcome[t]]
  BY DEF complete, filter_reqs
<1>2. Live' \subseteq Live /\ Live \subseteq Requests /\ sampled \subseteq batch
  BY <1>1 DEF Live, IInv, Places, sampled
<1>3. InStep' = {} /\ InStep \subseteq batch
  BY <1>1 DEF InStep
<1>4. Offsets'
  <2>1. ASSUME NEW t \in Live, t \notin batch PROVE OffsetsOf(t)'
    <3>1. OffsetsOf(t) /\ t \in Requests /\ t \notin sampled
      BY <1>2, <2>1 DEF CInv, Offsets
    <3>2. /\ pending'[t] = pending[t] /\ kv'[t] = kv[t] /\ req'[t] = req[t]
      BY <1>1, <2>1, <3>1
    <3>3. (t \in InStep') <=> (t \in InStep)
      BY <1>3, <2>1
    <3>4. QED
      BY <3>1, <3>2, <3>3, SameOffsets
  <2>2. ASSUME NEW t \in sampled PROVE OffsetsOf(t)'
    <3>1. /\ t \in Live /\ t \in Requests
          /\ req'[t].kind = "full"
          /\ req'[t].deviceLen = req[t].deviceLen + 1
          /\ req'[t].maxDeviceLen = pending[t].inputLen + pending[t].outputLen
          /\ kv'[t] = 0 .. (req[t].deviceLen - 1)
          /\ req[t].deviceLen >= pending[t].inputLen
      <4>1. req[t].deviceLen \in Nat /\ pending[t].inputLen \in Nat
        BY <1>2 DEF IInv, TypeOK, ReqRecord, PendingRecord
      <4>2. QED
        BY <4>1, SampledFacts
    <3>2. pending[t].cachedLen < pending[t].inputLen
      BY <3>1 DEF CInv, Offsets, OffsetsOf
    <3>3. t \notin InStep' /\ pending' = pending
      BY <1>1, <1>3
    <3>4. req[t].deviceLen \in Nat /\ pending[t].inputLen \in Nat
      BY <3>1 DEF IInv, TypeOK, ReqRecord, PendingRecord
    <3>5. reach(t)' = req[t].deviceLen
      BY <3>1, <3>3, <3>4 DEF reach
    <3>6. req'[t].deviceLen > pending[t].inputLen
      BY <3>1, <3>4
    <3>7. QED
      BY <3>1, <3>2, <3>3, <3>5, <3>6 DEF OffsetsOf
  <2>3. ASSUME NEW t \in batch \ sampled PROVE OffsetsOf(t)'
    <3>1. /\ t \in Live /\ req[t].kind = "chunked" /\ req'[t] = req[t]
          /\ kv'[t] = 0 .. (req[t].deviceLen - 1)
      BY UnfinishedFacts
    <3>2. /\ pending[t].cachedLen < pending[t].inputLen
          /\ req[t].deviceLen < pending[t].inputLen
      BY <3>1 DEF CInv, Offsets, OffsetsOf
    <3>3. t \notin InStep' /\ pending' = pending
      BY <1>1, <1>3
    <3>4. QED
      BY <3>1, <3>2, <3>3 DEF OffsetsOf, reach
  <2>4. QED
    BY <1>2, <2>1, <2>2, <2>3 DEF Offsets
<1>5. Queue'
  <2>1. ASSUME NEW i \in 1 .. Len(pendingList), req'[pendingList[i]].kind = "chunked"
        PROVE  i = 1
    <3>1. pendingList[i] \in Range(pendingList) /\ pendingList[i] \in Requests
      BY RangeEquality, ElementOfSeq DEF IInv, TypeOK
    <3>2. pendingList[i] \notin sampled
      BY <1>1, <3>1 DEF IInv, Places, sampled
    <3>3. req'[pendingList[i]] = req[pendingList[i]]
      BY <1>1, <3>1, <3>2
    <3>4. QED
      BY <1>1, <2>1, <3>3 DEF CInv, Queue, OneContinuation, is_continuation
  <2>2. QED
    BY <1>1, <2>1 DEF Queue, OneContinuation, is_continuation
<1>6. OutputBound'
  <2>1. ASSUME NEW t \in Requests, outcome'[t] = "done"
        PROVE  req'[t].deviceLen - pending[t].inputLen
                 \in 1 .. Max({1, pending[t].outputLen})
    <3>1. CASE t \in sampled
      <4>1. /\ req'[t].deviceLen = req[t].deviceLen + 1
            /\ IF stage = "prefill" THEN req[t].deviceLen = pending[t].inputLen
               ELSE /\ req[t].deviceLen > pending[t].inputLen
                    /\ req[t].deviceLen < pending[t].inputLen + pending[t].outputLen
        BY <3>1, SampledFacts
      <4>2. /\ req[t].deviceLen \in Nat /\ pending[t].inputLen \in Nat
            /\ pending[t].outputLen \in Nat
        BY DEF IInv, TypeOK, ReqRecord, PendingRecord
      <4>3. Max({1, pending[t].outputLen}) =
              IF pending[t].outputLen > 1 THEN pending[t].outputLen ELSE 1
        BY <4>2, MaxWithOne
      <4>4. QED
        BY <4>1, <4>2, <4>3
    <3>2. CASE t \in batch \ sampled
      <4>1. ~req'[t].aborted /\ t \in Live
        BY <3>2, UnfinishedFacts
      <4>2. outcome[t] = "live"
        BY <4>1 DEF IInv, Places
      <4>3. QED
        BY <1>1, <2>1, <4>1, <4>2
    <3>3. CASE t \notin batch
      <4>1. outcome[t] = "done" /\ req'[t] = req[t]
        BY <1>1, <1>2, <2>1, <3>3
      <4>2. QED
        BY <4>1 DEF CInv, OutputBound
    <3>4. QED
      BY <1>2, <3>1, <3>2, <3>3
  <2>2. QED
    BY <1>1, <2>1 DEF OutputBound
<1>7. QED
  BY <1>4, <1>5, <1>6 DEF CInv

-----------------------------------------------------------------------------
\* Every step of the scheduler keeps the offsets, one case per action.
LEMMA NextCInv ==
  ASSUME IInv, CInv, [Next]_vars
  PROVE  CInv'
<1>1. CASE UNCHANGED vars \/ generate
  <2>1. InStep' = InStep /\ Live' = Live
    BY <1>1 DEF vars, generate, InStep, Live
  <2>2. ASSUME NEW t \in Live PROVE OffsetsOf(t)'
    <3>1. OffsetsOf(t)
      BY DEF CInv, Offsets
    <3>2. QED
      BY <1>1, <2>1, <3>1, SameOffsets DEF vars, generate
  <2>3. Offsets'
    BY <2>1, <2>2 DEF Offsets
  <2>4. Queue' /\ OutputBound'
    BY <1>1 DEF vars, generate, CInv, Queue, OneContinuation, is_continuation, OutputBound
  <2>5. QED
    BY <2>3, <2>4 DEF CInv
<1>2. CASE Next
  BY <1>1, <1>2, AddCInv, AbortCInv, BeginPassCInv, AdmitCInv, SkipCInv,
     PrefillBatchCInv, DecodeOrIdleCInv, CompleteCInv
     DEF Next, Add, Abort, EngineStep, Complete
<1>3. QED
  BY <1>1, <1>2

\* The offsets of a batch are those its requests' histories end at.
LEMMA HistoryFollows == IInv /\ CInv => HistoryWritten
<1> SUFFICES ASSUME IInv, CInv, NEW r \in batch
             PROVE  kv[r] = IF stage = "prefill" THEN 0 .. (req[r].cachedLen - 1)
                                                 ELSE 0 .. (req[r].deviceLen - 2)
  BY DEF HistoryWritten
<1>1. /\ r \in Live /\ r \in Requests /\ OffsetsOf(r) /\ req[r].kind # "none"
      /\ stage \in {"prefill", "decode"}
      /\ req[r].deviceLen \in Nat
  BY DEF Live, CInv, Offsets, IInv, TypeOK, Places, ReqRecord
<1>2. CASE stage = "prefill"
  <2>1. r \in InStep
    BY <1>2 DEF InStep
  <2>2. QED
    BY <1>1, <1>2, <2>1 DEF OffsetsOf, reach
<1>3. CASE stage = "decode"
  <2>1. r \notin InStep /\ can_decode(req[r])
    BY <1>3 DEF InStep, IInv, Places
  <2>2. kv[r] = 0 .. (req[r].deviceLen - 1 - 1)
    BY <1>1, <2>1 DEF OffsetsOf, reach, can_decode
  <2>3. req[r].deviceLen - 1 - 1 = req[r].deviceLen - 2
    BY <1>1
  <2>4. QED
    BY <1>3, <2>2, <2>3
<1>4. QED
  BY <1>1, <1>2, <1>3

\* When the loop ends, with a prefill batch or without, the split prompt it
\* found in the queue has been given a chunk.
LEMMA LoopAdvances ==
  ASSUME IInv, CInv, Next, stage = "pass", stage' # "pass",
         NEW r \in Range(pendingList), is_continuation(r)
  PROVE  r \in batch'
<1>1. prefill_batch \/ decode_batch \/ idle_step
  BY DEF Next, Add, add, generate, Abort, abort, EngineStep, begin_pass, admit_one,
         skip_one, Complete, complete
<1>2. adder.cursor > Len(pendingList)
  BY <1>1 DEF prefill_batch, decode_batch, idle_step
<1>3. r \in adder.admitted
  BY <1>2, LoopEnd
<1>4. QED
  BY <1>1, <1>3 DEF prefill_batch, decode_batch, idle_step

-----------------------------------------------------------------------------
(***************************************************************************)
(* The theorems.                                                           *)
(***************************************************************************)
\* The two halves of the invariant hold together.
LEMMA InvHolds == Spec => [](IInv /\ CInv)
<1>1. Init => IInv /\ CInv
  BY InitTypeOK, InitIInv, InitCInv DEF IInv
<1>2. (IInv /\ CInv) /\ [Next]_vars => (IInv /\ CInv)'
  BY NextTypeOK, NextIInv, NextCInv DEF IInv
<1>3. QED
  BY <1>1, <1>2, PTL DEF Spec

\* PrefillManager.schedule_next_batch: between two steps at most one split
\* prompt waits, and it waits at the head of the queue.
THEOREM OneContinuationHolds == Spec => []OneContinuation
<1>1. IInv /\ CInv => OneContinuation
  BY DEF CInv, Queue, OneContinuation
<1>2. QED
  BY <1>1, InvHolds, PTL

\* Engine.step: when a batch runs, the K/V of every earlier position of each of
\* its requests has been written, whatever way its prompt was cut.
THEOREM HistoryAlwaysWritten == Spec => []HistoryWritten
BY HistoryFollows, InvHolds, PTL

\* Scheduler.complete: a request that is done has emitted between one token and
\* max(1, max_tokens) tokens.
THEOREM OutputIsBounded == Spec => []OutputBound
<1>1. IInv /\ CInv => OutputBound
  BY DEF CInv
<1>2. QED
  BY <1>1, InvHolds, PTL

\* PrefillAdder.try_add_one: a split prompt is never starved -- every admission
\* loop that ends has given it a chunk, whatever else was queued and however
\* full the pool and the rows are.
THEOREM SplitPromptAdvances == Spec => ContinuationAdvances
<1>1. IInv /\ CInv /\ [Next]_vars =>
        [stage = "pass" /\ stage' # "pass" =>
           \A r \in Range(pendingList) : is_continuation(r) => r \in batch']_vars
  BY LoopAdvances
<1>2. QED
  BY <1>1, InvHolds, PTL DEF Spec, ContinuationAdvances

-----------------------------------------------------------------------------
(***************************************************************************)
(* The token budget of a step and the step budget of generate().           *)
(*                                                                         *)
(* Sums over requests are cardinalities of disjoint unions: a request's    *)
(* share is a set of integers, tagged with the request.                    *)
(***************************************************************************)
\* The prompt positions the step under way extends each of its requests by.
Chunks == [r \in Requests |-> req[r].cachedLen .. (req[r].deviceLen - 1)]
StepTokens == tagged(Chunks, InStep)

\* The whole prompt of r has been forwarded: it is decoding, or was.
finished(r) == req[r].kind = "full" /\ r \notin InStep

\* How many steps r has been part of: every chunk before the last is as long
\* as the step budget, and after the prompt a step is a token.
spent(r) ==
  IF finished(r)
    THEN generate_budget(pending[r].inputLen, 0) + req[r].deviceLen
           - pending[r].inputLen - 1
    ELSE (reach(r) - pending[r].cachedLen) \div MaxExtendTokens

Submitted == {r \in Requests : outcome[r] # "new"}

\* The steps each request has taken part in.
Spends == [r \in Requests |-> 1 .. spent(r)]

\* The step's chunks fit its token budget.
TokensInv ==
  /\ IsFiniteSet(StepTokens)
  /\ Cardinality(StepTokens) <= MaxExtendTokens
  /\ stage = "pass" => Cardinality(StepTokens) = MaxExtendTokens - adder.tokenBudget
  /\ \A r \in InStep : req[r].cachedLen < req[r].deviceLen

\* A prompt that is not finished has been forwarded in whole step budgets.
Stride(r) ==
  /\ ~finished(r) =>
       \E q \in Nat : reach(r) = pending[r].cachedLen + MaxExtendTokens * q
  /\ r \in InStep /\ req[r].kind = "chunked" =>
       req[r].deviceLen = req[r].cachedLen + MaxExtendTokens

\* Every step since generate() has been spent by a request that had one left,
\* as long as only those it counted are there.
StepsInv ==
  /\ stage \in {"prefill", "decode"} => batch # {}
  /\ \A r \in Submitted : spent(r) \in 0 .. budget(r)
  /\ counted \subseteq Submitted
  /\ counted # {} =>
       /\ Live \subseteq counted
       /\ stepBudget = Cardinality(tagged(Grants, counted))
       /\ steps <= Cardinality(tagged(Spends, counted))

BInv == TokensInv /\ (\A r \in Live : Stride(r)) /\ StepsInv

-----------------------------------------------------------------------------
\* The unions of two families that give their members the same sets.
LEMMA TaggedSame ==
  ASSUME NEW R, NEW f, NEW g, \A t \in R : g[t] = f[t]
  PROVE  tagged(g, R) = tagged(f, R)
BY DEF tagged

\* One more member adds its own set.
LEMMA TaggedJoin ==
  ASSUME NEW R, NEW f, NEW g, \A t \in R : g[t] = f[t], NEW r, r \notin R,
         IsFiniteSet(tagged(f, R)), IsFiniteSet(g[r])
  PROVE  /\ IsFiniteSet(tagged(g, R \union {r}))
         /\ Cardinality(tagged(g, R \union {r}))
              = Cardinality(tagged(f, R)) + Cardinality(g[r])
<1> DEFINE old == tagged(f, R)
           own == {r} \X g[r]
<1>1. tagged(g, R \union {r}) = old \union own
  BY DEF tagged
<1>2. old \cap own = {}
  BY DEF tagged
<1>3. IsFiniteSet({r}) /\ Cardinality({r}) = 1
  BY FS_Singleton
<1>4. /\ IsFiniteSet(own) /\ Cardinality(own) = 1 * Cardinality(g[r])
      /\ Cardinality(g[r]) \in Nat
  BY <1>3, FS_Product, FS_CardinalityType
<1> HIDE DEF old, own
<1>5. Cardinality(old \cap own) = 0
  BY <1>2, FS_EmptySet
<1>6. IsFiniteSet(old) /\ Cardinality(old) \in Nat
  BY FS_CardinalityType DEF old
<1>7. /\ IsFiniteSet(old \union own)
      /\ Cardinality(old \union own)
           = Cardinality(old) + Cardinality(own) - Cardinality(old \cap own)
  BY <1>4, <1>6, FS_Union
<1>8. Cardinality(old \union own) = Cardinality(old) + Cardinality(g[r])
  BY <1>4, <1>5, <1>6, <1>7
<1> QED
  BY <1>1, <1>7, <1>8 DEF old

\* Larger sets make a larger union, a strictly larger one if a set has gained.
LEMMA TaggedGrows ==
  ASSUME NEW R, NEW f, NEW g, \A t \in R : f[t] \subseteq g[t],
         IsFiniteSet(tagged(g, R))
  PROVE  /\ IsFiniteSet(tagged(f, R))
         /\ Cardinality(tagged(f, R)) <= Cardinality(tagged(g, R))
         /\ \A r \in R : \A x : x \in g[r] /\ x \notin f[r] =>
              Cardinality(tagged(f, R)) + 1 <= Cardinality(tagged(g, R))
<1>1. tagged(f, R) \subseteq tagged(g, R)
  BY DEF tagged
<1>2. /\ IsFiniteSet(tagged(f, R))
      /\ Cardinality(tagged(f, R)) <= Cardinality(tagged(g, R))
      /\ Cardinality(tagged(g, R)) = Cardinality(tagged(f, R))
           => tagged(f, R) = tagged(g, R)
  BY <1>1, FS_Subset
<1>3. Cardinality(tagged(f, R)) \in Nat /\ Cardinality(tagged(g, R)) \in Nat
  BY <1>2, FS_CardinalityType
<1>4. ASSUME NEW r \in R, NEW x, x \in g[r], x \notin f[r]
      PROVE  Cardinality(tagged(f, R)) + 1 <= Cardinality(tagged(g, R))
  <2>1. <<r, x>> \in tagged(g, R) /\ <<r, x>> \notin tagged(f, R)
    BY <1>4 DEF tagged
  <2> QED
    BY <1>2, <1>3, <2>1
<1> QED
  BY <1>2, <1>4

\* 1 .. n has n members.
LEMMA CountTo ==
  ASSUME NEW n \in Nat
  PROVE  IsFiniteSet(1 .. n) /\ Cardinality(1 .. n) = n
BY FS_Interval

\* Whole multiples of the divisor divide without a rest.
LEMMA DivMultiple ==
  ASSUME NEW m \in Nat \ {0}, NEW q \in Nat
  PROVE  (m * q) \div m = q
OBVIOUS

\* A prompt of which q whole steps are less than everything takes more than q.
LEMMA OneMoreChunk ==
  ASSUME NEW m \in Nat \ {0}, NEW q \in Nat, NEW n \in Nat, m * q < n
  PROVE  (n + m - 1) \div m \in Nat /\ q + 1 <= (n + m - 1) \div m
OBVIOUS

\* The numbers of a request.
LEMMA Numbers ==
  ASSUME IInv, NEW r \in Requests
  PROVE  /\ req[r].cachedLen \in Nat /\ req[r].deviceLen \in Nat
         /\ pending[r].inputLen \in Nat /\ pending[r].cachedLen \in Nat
         /\ pending[r].outputLen \in Nat /\ MaxExtendTokens \in Nat \ {0}
         /\ generate_budget(pending[r].inputLen, 0) \in Nat
         /\ budget(r) \in Nat
         /\ budget(r) = generate_budget(pending[r].inputLen, 0) + pending[r].outputLen
<1>1. /\ req[r].cachedLen \in Nat /\ req[r].deviceLen \in Nat
      /\ pending[r].inputLen \in Nat /\ pending[r].cachedLen \in Nat
      /\ pending[r].outputLen \in Nat /\ MaxExtendTokens \in Nat \ {0}
  BY SchedulerAssumption DEF IInv, TypeOK, ReqRecord, PendingRecord
<1>2. (pending[r].inputLen + MaxExtendTokens - 1) \div MaxExtendTokens \in Nat
  <2>1. pending[r].inputLen + MaxExtendTokens - 1 \in Nat
    BY <1>1
  <2> QED
    BY <1>1, <2>1, DivNat
<1> QED
  BY <1>1, <1>2 DEF budget, generate_budget

\* A request the step leaves alone has spent what it had.
LEMMA SpentSame ==
  ASSUME NEW t, pending'[t] = pending[t], req'[t] = req[t],
         (t \in InStep') <=> (t \in InStep)
  PROVE  /\ spent(t)' = spent(t) /\ budget(t)' = budget(t)
         /\ Stride(t) => Stride(t)'
<1>1. spent(t)' = spent(t) /\ budget(t)' = budget(t)
  BY DEF spent, finished, reach, budget, generate_budget
<1>2. Stride(t) => Stride(t)'
  BY DEF Stride, finished, reach
<1> QED
  BY <1>1, <1>2

\* What has been spent was granted.
LEMMA SpendsCount ==
  ASSUME IInv, StepsInv
  PROVE  /\ counted \subseteq Requests
         /\ \A t \in counted : Spends[t] \subseteq Grants[t]
         /\ IsFiniteSet(tagged(Grants, counted))
         /\ Cardinality(tagged(Grants, counted)) \in Nat
         /\ IsFiniteSet(tagged(Spends, counted))
         /\ Cardinality(tagged(Spends, counted)) \in Nat
<1>1. counted \subseteq Requests /\ counted \subseteq Submitted
  BY DEF StepsInv, Submitted
<1>2. \A t \in counted : Spends[t] \subseteq Grants[t]
  <2> SUFFICES ASSUME NEW t \in counted PROVE Spends[t] \subseteq Grants[t]
    OBVIOUS
  <2>1. spent(t) \in 0 .. budget(t) /\ t \in Requests
    BY <1>1 DEF StepsInv
  <2>2. budget(t) \in Nat
    BY <2>1, Numbers
  <2>3. Spends[t] = 1 .. spent(t) /\ Grants[t] = 1 .. budget(t)
    BY <2>1 DEF Spends, Grants
  <2> QED
    BY <2>1, <2>2, <2>3
<1>3. IsFiniteSet(tagged(Grants, counted))
  BY <1>1, GrantsType DEF IInv
<1>4. IsFiniteSet(tagged(Spends, counted))
  BY <1>2, <1>3, TaggedGrows
<1> QED
  BY <1>1, <1>2, <1>3, <1>4, FS_CardinalityType

\* A step that spends and grants nothing.
LEMMA StepsSame ==
  ASSUME StepsInv, Submitted' = Submitted, Live' \subseteq Live,
         \A t \in Submitted : spent(t)' = spent(t) /\ budget(t)' = budget(t),
         UNCHANGED <<steps, stepBudget, counted>>,
         stage' \in {"prefill", "decode"} => batch' # {}
  PROVE  StepsInv'
<1>1. counted \subseteq Submitted /\ Submitted \subseteq Requests
  BY DEF StepsInv, Submitted
<1>2. \A t \in counted : Grants'[t] = Grants[t] /\ Spends'[t] = Spends[t]
  BY <1>1 DEF Grants, Spends
<1>3. /\ tagged(Grants', counted) = tagged(Grants, counted)
      /\ tagged(Spends', counted) = tagged(Spends, counted)
  BY <1>2, TaggedSame
<1>4. /\ tagged(Grants, counted)' = tagged(Grants, counted)
      /\ tagged(Spends, counted)' = tagged(Spends, counted)
  BY <1>3 DEF tagged
<1>5. \A t \in Submitted : spent(t)' \in 0 .. budget(t)'
  BY DEF StepsInv
<1> QED
  BY <1>4, <1>5 DEF StepsInv

\* A step that builds no chunk.
LEMMA TokensSame ==
  ASSUME TokensInv, InStep' = InStep, InStep \subseteq Requests,
         req' = req, stage' = "pass" => stage = "pass" /\ adder'.tokenBudget = adder.tokenBudget
  PROVE  TokensInv'
<1>1. Chunks' = Chunks
  BY DEF Chunks
<1>2. StepTokens' = StepTokens
  BY <1>1 DEF StepTokens, tagged
<1> QED
  BY <1>2 DEF TokensInv

\* Outside the admission loop and a prefill nothing is extended.
LEMMA NoTokens ==
  ASSUME InStep = {}, stage = "pass" => adder.tokenBudget = MaxExtendTokens
  PROVE  TokensInv
<1>1. StepTokens = {}
  BY DEF StepTokens, tagged
<1>2. IsFiniteSet({}) /\ Cardinality({}) = 0
  BY FS_EmptySet
<1> QED
  BY <1>1, <1>2, SchedulerAssumption DEF TokensInv

-----------------------------------------------------------------------------
\* A fresh scheduler has granted and spent nothing.
LEMMA InitBInv == Init => BInv
<1> SUFFICES ASSUME Init PROVE BInv
  OBVIOUS
<1>1. InStep = {} /\ Submitted = {} /\ stage = "idle"
  BY DEF Init, InStep, Submitted
<1>2. Live = {}
  BY EmptyRange DEF Live, Init
<1>3. StepsInv
  BY <1>1 DEF Init, StepsInv
<1>4. TokensInv
  BY <1>1, NoTokens
<1> QED
  BY <1>2, <1>3, <1>4 DEF BInv

\* A request that is added has spent no step, and shares those of the others.
LEMMA AddBInv ==
  ASSUME IInv, CInv, BInv, NEW r \in Requests, NEW n \in PromptLens,
         NEW m \in OutputLens, NEW c \in 0 .. (n - 1), add(r, n, c, m)
  PROVE  BInv'
<1>1. /\ pendingList \in Seq(Requests) /\ n \in Nat /\ c \in Nat /\ m \in Nat
  BY SchedulerAssumption DEF IInv, TypeOK
<1>2. /\ outcome[r] = "new" /\ stage # "pass"
      /\ pendingList' = Append(pendingList, r)
      /\ outcome' = [outcome EXCEPT ![r] = "live"]
      /\ counted' = {}
      /\ UNCHANGED <<runningReqs, req, stage, batch, adder>>
  BY DEF add
<1>3. PICK row \in Rows :
        pending' = [pending EXCEPT ![r] = [inputLen |-> n, cachedLen |-> c,
                                           outputLen |-> m, tableIdx |-> row]]
  BY DEF add
<1>4. /\ r \notin Live /\ req[r].kind = "none" /\ Live \subseteq Requests
  BY <1>2 DEF IInv, Places
<1>5. InStep' = InStep /\ r \notin InStep /\ InStep \subseteq Requests
  BY <1>2, <1>4, InStepLive DEF InStep
<1>6. Live' = Live \union {r}
  BY <1>1, <1>2, AppendRange DEF Live
<1>7. Submitted' = Submitted \union {r} /\ r \notin Submitted
  BY <1>2 DEF Submitted, IInv, TypeOK
<1>8. \A t \in Requests \ {r} :
        /\ spent(t)' = spent(t) /\ budget(t)' = budget(t)
        /\ Stride(t) => Stride(t)'
  <2> SUFFICES ASSUME NEW t \in Requests \ {r}
               PROVE  /\ spent(t)' = spent(t) /\ budget(t)' = budget(t)
                      /\ Stride(t) => Stride(t)'
    OBVIOUS
  <2>1. pending'[t] = pending[t] /\ req'[t] = req[t]
    BY <1>2, <1>3 DEF IInv, TypeOK
  <2> QED
    BY <1>5, <2>1, SpentSame
<1>9. /\ pending'[r].cachedLen = c /\ pending'[r].inputLen = n
      /\ pending'[r].outputLen = m /\ req'[r].kind = "none"
  BY <1>2, <1>3, <1>4 DEF IInv, TypeOK
<1>10. MaxExtendTokens \in Nat \ {0} /\ reach(r)' = c
  BY SchedulerAssumption, <1>9 DEF reach
<1>11. TokensInv'
  BY <1>2, <1>5, TokensSame DEF BInv
<1>12. \A t \in Live' : Stride(t)'
  <2>1. Stride(r)'
    <3>1. c = c + MaxExtendTokens * 0
      BY <1>1, <1>10
    <3> QED
      BY <1>9, <1>10, <3>1 DEF Stride
  <2> QED
    BY <1>4, <1>6, <1>8, <2>1 DEF BInv
<1>13. StepsInv'
  <2>1. spent(r)' = 0
    <3>1. ~finished(r)'
      BY <1>9 DEF finished
    <3>2. (c - c) \div MaxExtendTokens = 0
      BY <1>1, <1>10
    <3> QED
      BY <1>9, <1>10, <3>1, <3>2 DEF spent
  <2>2. budget(r)' = generate_budget(n, m) /\ budget(r)' \in Nat
    <3>1. (n + MaxExtendTokens - 1) \in Nat
      BY <1>1, <1>10
    <3>2. (n + MaxExtendTokens - 1) \div MaxExtendTokens \in Nat
      BY <1>10, <3>1, DivNat
    <3> QED
      BY <1>1, <1>9, <3>2 DEF budget, generate_budget
  <2>3. \A t \in Submitted' : spent(t)' \in 0 .. budget(t)'
    <3>1. \A t \in Submitted : t # r /\ t \in Requests /\ spent(t) \in 0 .. budget(t)
      BY <1>7 DEF BInv, StepsInv, Submitted
    <3> QED
      BY <1>7, <1>8, <2>1, <2>2, <3>1
  <2> QED
    BY <1>2, <2>3 DEF BInv, StepsInv
<1> QED
  BY <1>11, <1>12, <1>13 DEF BInv

\* abort neither grants nor spends.
LEMMA AbortBInv ==
  ASSUME IInv, CInv, BInv, NEW r \in Requests, abort(r)
  PROVE  BInv'
<1>1. /\ stage = "idle" /\ stage' = "idle"
      /\ outcome' = [outcome EXCEPT ![r] = "aborted"]
      /\ UNCHANGED <<pending, req, adder, batch, steps, stepBudget, counted>>
  BY DEF abort
<1>2. InStep = {} /\ InStep' = {}
  BY <1>1 DEF InStep
<1>3. Live' \subseteq Live /\ r \in Live
  <2>1. CASE \E i \in 1 .. Len(pendingList) :
               pendingList[i] = r /\ pendingList' = RemoveAt(pendingList, i)
    <3>1. PICK i \in 1 .. Len(pendingList) :
                 pendingList[i] = r /\ pendingList' = RemoveAt(pendingList, i)
      BY <2>1
    <3>2. pendingList \in Seq(Requests) /\ Injective(pendingList)
      BY DEF IInv, TypeOK, Places
    <3>3. Range(pendingList') \subseteq Range(pendingList) /\ r \in Range(pendingList)
      <4>1. Range(RemoveAt(pendingList, i)) = Range(pendingList) \ {pendingList[i]}
        BY <3>2, RemoveAtRange
      <4>2. Range(pendingList) = {pendingList[j] : j \in 1 .. Len(pendingList)}
        BY <3>2, RangeEquality
      <4> QED
        BY <3>1, <4>1, <4>2
    <3>4. runningReqs' \subseteq runningReqs
      BY DEF abort
    <3> QED
      BY <1>1, <3>3, <3>4 DEF Live
  <2>2. CASE r \in runningReqs /\ pendingList' = pendingList
    <3>1. runningReqs' \subseteq runningReqs
      BY DEF abort
    <3> QED
      BY <1>1, <2>2, <3>1 DEF Live
  <2> QED
    BY <2>1, <2>2 DEF abort
<1>4. Submitted' = Submitted
  BY <1>1, <1>3 DEF Submitted, IInv, Places, TypeOK
<1>5. \A t \in Requests :
        /\ spent(t)' = spent(t) /\ budget(t)' = budget(t)
        /\ Stride(t) => Stride(t)'
  BY <1>1, <1>2, SpentSame
<1>6. StepsInv'
  BY <1>1, <1>3, <1>4, <1>5, StepsSame DEF BInv, Submitted
<1>7. TokensInv'
  <2>1. InStep' = {} /\ (stage' = "pass" => adder'.tokenBudget = MaxExtendTokens)
    BY <1>1, <1>2
  <2> QED
    BY <1>1, <1>2, TokensSame DEF BInv
<1>8. \A t \in Live' : Stride(t)'
  BY <1>3, <1>5 DEF BInv, IInv, Places
<1> QED
  BY <1>6, <1>7, <1>8 DEF BInv

\* begin_pass: the whole token budget is there.
LEMMA BeginPassBInv ==
  ASSUME IInv, CInv, BInv, begin_pass
  PROVE  BInv'
<1>1. /\ stage = "idle" /\ stage' = "pass" /\ batch = {}
      /\ adder'.tokenBudget = MaxExtendTokens /\ adder'.admitted = {}
      /\ UNCHANGED <<pendingList, runningReqs, pending, req, batch, outcome, steps,
                     stepBudget, counted>>
  BY DEF begin_pass, IInv, Places
<1>2. InStep = {} /\ InStep' = {} /\ Live' = Live /\ Submitted' = Submitted
  BY <1>1 DEF InStep, Live, Submitted
<1>3. \A t : /\ spent(t)' = spent(t) /\ budget(t)' = budget(t)
             /\ Stride(t) => Stride(t)'
  BY <1>1, <1>2, SpentSame
<1>4. StepsInv'
  BY <1>1, <1>2, <1>3, StepsSame DEF BInv
<1>5. TokensInv'
  <2>1. Cardinality(StepTokens) = 0 /\ StepTokens = {}
    BY <1>2, FS_EmptySet DEF StepTokens, tagged
  <2>2. StepTokens' = {}
    BY <1>2 DEF StepTokens, tagged
  <2>3. MaxExtendTokens \in Nat
    BY SchedulerAssumption
  <2> QED
    BY <1>1, <1>2, <2>1, <2>2, <2>3 DEF BInv, TokensInv
<1> QED
  BY <1>2, <1>3, <1>4, <1>5 DEF BInv

\* Admitting an entry pays for its chunk with the token budget.
LEMMA AdmitBInv ==
  ASSUME IInv, CInv, BInv, admit_one
  PROVE  BInv'
<1>1. /\ stage = "pass" /\ stage' = "pass" /\ adder.cursor <= Len(pendingList)
      /\ UNCHANGED <<pendingList, runningReqs, pending, batch, outcome, steps,
                     stepBudget, counted>>
  BY DEF admit_one
<1>2. pendingList[adder.cursor] \in Requests
  BY <1>1, CursorEntry DEF IInv
<1>3. PICK r \in Requests : r = pendingList[adder.cursor]
  BY <1>2
<1>4. PICK q : q = built_req(r)
  OBVIOUS
<1>5. /\ admissible(r)
      /\ req' = [req EXCEPT ![r] = q]
      /\ adder'.tokenBudget = adder.tokenBudget - chunk_size(r)
      /\ adder'.admitted = adder.admitted \union {r}
  BY <1>3, <1>4 DEF admit_one
<1>6. /\ r \in Live /\ r \notin InStep
      /\ chunk_start(r) \in Nat /\ chunk_start(r) < pending[r].inputLen
      /\ is_continuation(r) => adder.tokenBudget = MaxExtendTokens
  BY <1>1, <1>3, CursorFacts
<1>7. /\ chunk_size(r) \in 1 .. adder.tokenBudget
      /\ chunk_start(r) + chunk_size(r) <= pending[r].inputLen
      /\ chunk_start(r) + chunk_size(r) < pending[r].inputLen =>
           chunk_size(r) = adder.tokenBudget
  BY <1>1, <1>5, <1>6, ChunkFacts
<1>8. /\ req'[r] = q
      /\ \A t \in Requests \ {r} : req'[t] = req[t]
  BY <1>5 DEF IInv, TypeOK
<1>9. /\ pending[r].inputLen \in Nat /\ adder.tokenBudget \in Nat
      /\ MaxExtendTokens \in Nat \ {0} /\ chunk_size(r) \in Nat \ {0}
  BY <1>1, <1>7, BudgetType DEF IInv, TypeOK, PendingRecord
<1>10. /\ q.kind = IF chunk_start(r) + chunk_size(r) < pending[r].inputLen
                     THEN "chunked" ELSE "full"
       /\ q.cachedLen = chunk_start(r)
       /\ q.deviceLen = chunk_start(r) + chunk_size(r)
  BY <1>4 DEF built_req
<1>11. Live' = Live /\ Live \subseteq Requests /\ Submitted' = Submitted
  BY <1>1 DEF Live, IInv, Places, Submitted
<1>12. InStep' = InStep \union {r} /\ InStep \subseteq Requests
  BY <1>1, <1>5, <1>11, InStepLive DEF InStep
<1>13. TokensInv'
  <2>1. /\ \A t \in InStep : Chunks'[t] = Chunks[t]
        /\ Chunks'[r] = chunk_start(r) .. (chunk_start(r) + chunk_size(r) - 1)
    <3>1. \A t \in Requests : Chunks'[t] = req'[t].cachedLen .. (req'[t].deviceLen - 1)
      BY DEF Chunks
    <3>2. \A t \in Requests : Chunks[t] = req[t].cachedLen .. (req[t].deviceLen - 1)
      BY DEF Chunks
    <3>3. ASSUME NEW t \in InStep PROVE Chunks'[t] = Chunks[t]
      <4>1. t \in Requests /\ req'[t] = req[t]
        BY <1>6, <1>8, <1>12
      <4> QED
        BY <3>1, <3>2, <4>1
    <3>4. Chunks'[r] = chunk_start(r) .. (chunk_start(r) + chunk_size(r) - 1)
      <4>1. /\ req'[r].cachedLen = chunk_start(r)
            /\ req'[r].deviceLen = chunk_start(r) + chunk_size(r)
        BY <1>8, <1>10
      <4> QED
        BY <1>6, <1>9, <3>1, <4>1
    <3> QED
      BY <3>3, <3>4
  <2>2. /\ IsFiniteSet(Chunks'[r])
        /\ Cardinality(Chunks'[r]) = chunk_size(r)
    <3>1. /\ chunk_start(r) \in Int /\ chunk_start(r) + chunk_size(r) - 1 \in Int
          /\ ~(chunk_start(r) > chunk_start(r) + chunk_size(r) - 1)
          /\ (chunk_start(r) + chunk_size(r) - 1) - chunk_start(r) + 1 = chunk_size(r)
      BY <1>6, <1>9
    <3> QED
      BY <2>1, <3>1, FS_Interval
  <2>3. /\ IsFiniteSet(tagged(Chunks, InStep))
        /\ Cardinality(tagged(Chunks, InStep)) = MaxExtendTokens - adder.tokenBudget
    BY <1>1 DEF BInv, TokensInv, StepTokens
  <2>4. /\ IsFiniteSet(tagged(Chunks', InStep'))
        /\ Cardinality(tagged(Chunks', InStep'))
             = Cardinality(tagged(Chunks, InStep)) + Cardinality(Chunks'[r])
    BY <1>6, <1>12, <2>1, <2>2, <2>3, TaggedJoin
  <2>5. StepTokens' = tagged(Chunks', InStep')
    BY DEF StepTokens, tagged
  <2>6. /\ Cardinality(StepTokens') = MaxExtendTokens - adder'.tokenBudget
        /\ Cardinality(StepTokens') <= MaxExtendTokens
    <3>1. chunk_size(r) <= adder.tokenBudget
      BY <1>7, <1>9
    <3> QED
      BY <1>5, <1>9, <2>2, <2>3, <2>4, <2>5, <3>1
  <2>7. \A t \in InStep' : req'[t].cachedLen < req'[t].deviceLen
    <3>1. q.cachedLen < q.deviceLen
      BY <1>6, <1>9, <1>10
    <3>2. \A t \in InStep : req'[t].cachedLen < req'[t].deviceLen
      BY <1>6, <1>8, <1>12 DEF BInv, TokensInv
    <3> QED
      BY <1>8, <1>12, <3>1, <3>2
  <2> QED
    BY <1>1, <2>4, <2>5, <2>6, <2>7 DEF TokensInv
<1>14. \A t \in Requests \ {r} :
         /\ spent(t)' = spent(t) /\ budget(t)' = budget(t)
         /\ Stride(t) => Stride(t)'
  BY <1>1, <1>8, <1>12, SpentSame
<1>15. /\ ~finished(r) /\ ~finished(r)'
       /\ reach(r)' = reach(r)
  <2>1. r \in Range(pendingList)
    BY <1>1, <1>3, RangeEquality, LenProperties DEF IInv, TypeOK
  <2>2. req[r].kind # "full"
    BY <1>1, <1>6, <2>1 DEF IInv, Places, InStep
  <2>3. reach(r) = chunk_start(r)
    BY <1>6, <2>2 DEF reach, chunk_start, is_continuation, IInv, TypeOK, ReqRecord
  <2>4. reach(r)' = chunk_start(r)
    BY <1>8, <1>10, <1>12 DEF reach
  <2> QED
    BY <1>12, <2>2, <2>3, <2>4 DEF finished
<1>16. Stride(r)' /\ spent(r)' = spent(r) /\ budget(r)' = budget(r)
  <2>1. q.kind = "chunked" => q.deviceLen = q.cachedLen + MaxExtendTokens
    <3>1. ASSUME q.kind = "chunked" PROVE chunk_size(r) = MaxExtendTokens
      <4>1. /\ chunk_start(r) + chunk_size(r) < pending[r].inputLen
            /\ chunk_size(r) = adder.tokenBudget
        BY <1>7, <1>10, <3>1
      <4>2. may_split(r)
        <5>1. chunk_size(r) # pending[r].inputLen - chunk_start(r)
          BY <1>6, <1>9, <4>1
        <5> QED
          BY <5>1 DEF chunk_size
      <4> QED
        BY <1>6, <4>1, <4>2 DEF may_split
    <3> QED
      BY <1>10, <3>1
  <2>2. Stride(r)
    BY <1>6 DEF BInv
  <2>3. Stride(r)'
    BY <1>1, <1>8, <1>15, <2>1, <2>2 DEF Stride
  <2>4. spent(r)' = spent(r) /\ budget(r)' = budget(r)
    BY <1>1, <1>15 DEF spent, budget, generate_budget
  <2> QED
    BY <2>3, <2>4
<1>17. StepsInv'
  <2>1. \A t \in Submitted : spent(t)' = spent(t) /\ budget(t)' = budget(t)
    BY <1>14, <1>16 DEF Submitted
  <2> QED
    BY <1>1, <1>11, <2>1, StepsSame DEF BInv
<1>18. \A t \in Live' : Stride(t)'
  BY <1>11, <1>14, <1>16 DEF BInv
<1> QED
  BY <1>13, <1>17, <1>18 DEF BInv

\* The other steps of the loop and its end build no chunk.
LEMMA LoopBInv ==
  ASSUME IInv, CInv, BInv, skip_one \/ prefill_batch
  PROVE  BInv'
<1>1. /\ stage = "pass" /\ stage' \in {"pass", "prefill"}
      /\ stage' = "pass" => /\ adder'.tokenBudget = adder.tokenBudget
                            /\ adder'.admitted = adder.admitted
      /\ stage' = "prefill" => batch' = adder.admitted /\ adder.admitted # {}
      /\ UNCHANGED <<runningReqs, pending, req, outcome, steps, stepBudget, counted>>
  BY DEF skip_one, prefill_batch
<1>2. InStep' = InStep /\ InStep \subseteq Requests
  BY <1>1 DEF InStep, IInv, TypeOK
<1>3. Live' \subseteq Live /\ Live \subseteq Requests /\ Submitted' = Submitted
  <2>1. CInv' /\ IInv'
    BY NextIInv, NextTypeOK, NextCInv DEF Next, EngineStep, IInv
  <2> QED
    BY <1>1, <2>1 DEF IInv, Places, Submitted
<1>4. \A t : /\ spent(t)' = spent(t) /\ budget(t)' = budget(t)
             /\ Stride(t) => Stride(t)'
  BY <1>1, <1>2, SpentSame
<1>5. StepsInv'
  BY <1>1, <1>3, <1>4, StepsSame DEF BInv
<1>6. TokensInv'
  BY <1>1, <1>2, TokensSame DEF BInv
<1> QED
  BY <1>3, <1>4, <1>5, <1>6 DEF BInv

\* A decode batch, or none, extends no prompt.
LEMMA DecodeOrIdleBInv ==
  ASSUME IInv, CInv, BInv, decode_batch \/ idle_step
  PROVE  BInv'
<1>1. /\ stage = "idle" \/ (stage = "pass" /\ adder.admitted = {})
      /\ stage' = "idle" \/ (stage' = "decode" /\ batch' # {})
      /\ UNCHANGED <<pending, req, outcome, steps, stepBudget, counted>>
  BY DEF decode_batch, idle_step
<1>2. InStep = {} /\ InStep' = {} /\ Submitted' = Submitted
  BY <1>1 DEF InStep, Submitted
<1>3. Live' = Live
  <2>1. IInv'
    BY NextIInv, NextTypeOK DEF Next, EngineStep, IInv
  <2> QED
    BY <1>1, <2>1 DEF IInv, Places
<1>4. \A t : /\ spent(t)' = spent(t) /\ budget(t)' = budget(t)
             /\ Stride(t) => Stride(t)'
  BY <1>1, <1>2, SpentSame
<1>5. StepsInv'
  BY <1>1, <1>2, <1>3, <1>4, StepsSame DEF BInv
<1>6. TokensInv'
  BY <1>1, <1>2, TokensSame DEF BInv
<1> QED
  BY <1>3, <1>4, <1>5, <1>6 DEF BInv

\* generate() grants the queue its steps, and has spent none of them itself.
LEMMA GenerateBInv ==
  ASSUME IInv, CInv, BInv, generate
  PROVE  BInv'
<1>1. /\ stage = "idle" /\ batch = {} /\ steps' = 0
      /\ counted' = IF runningReqs = {} THEN Range(pendingList) ELSE {}
      /\ UNCHANGED <<pendingList, runningReqs, pending, req, stage, batch, adder, outcome>>
  BY DEF generate, IInv, Places
<1>2. /\ InStep' = InStep /\ Live' = Live /\ Submitted' = Submitted
      /\ InStep \subseteq Requests /\ Live \subseteq Submitted
  <2>1. InStep' = InStep /\ InStep = {} /\ Live' = Live /\ Submitted' = Submitted
    BY <1>1 DEF InStep, Live, Submitted
  <2>2. Live \subseteq Submitted
    BY DEF IInv, Places, Submitted
  <2> QED
    BY <2>1, <2>2
<1>3. \A t : /\ spent(t)' = spent(t) /\ budget(t)' = budget(t)
             /\ Stride(t) => Stride(t)'
  BY <1>1, <1>2, SpentSame
<1>4. TokensInv'
  BY <1>1, <1>2, TokensSame DEF BInv
<1>5. ASSUME counted' # {}
      PROVE  /\ Live = counted' /\ counted' = Range(pendingList)
             /\ stepBudget' = Cardinality(tagged(Grants, counted)')
             /\ steps' <= Cardinality(tagged(Spends, counted)')
  <2>1. runningReqs = {} /\ counted' = Range(pendingList) /\ Live = counted'
    BY <1>1, <1>5 DEF Live
  <2>2. counted' \in SUBSET Requests
    BY <1>2, <2>1 DEF Submitted
  <2>3. /\ \A t \in counted' : Grants'[t] = Grants[t] /\ Spends'[t] = Spends[t]
        /\ \A t \in counted' : Grants[t] = 1 .. budget(t) /\ Spends[t] = 1 .. spent(t)
    BY <1>3, <2>2 DEF Grants, Spends
  <2>4. /\ tagged(Grants, counted)' = tagged(Grants, counted')
        /\ tagged(Spends, counted)' = tagged(Spends, counted')
    BY <2>3 DEF tagged
  <2>5. /\ IsFiniteSet(tagged(Grants, counted'))
        /\ Cardinality(tagged(Grants, counted')) \in Nat
    BY <2>2, GrantsType, FS_CardinalityType DEF IInv
  <2>6. stepBudget' = Cardinality(tagged(Grants, counted'))
    <3>1. tagged(Grants, counted')
            = UNION {{r} \X (1 .. generate_budget(pending[r].inputLen, pending[r].outputLen)) :
                       r \in Range(pendingList)}
      <4>1. \A r \in Range(pendingList) :
              Grants[r] = 1 .. generate_budget(pending[r].inputLen, pending[r].outputLen)
        BY <2>1, <2>3 DEF budget
      <4> QED
        BY <2>1, <4>1 DEF tagged
    <3>2. Cardinality(runningReqs) = 0
      BY <2>1, FS_EmptySet
    <3>3. stepBudget' = Cardinality(tagged(Grants, counted')) + 0
      BY <3>1, <3>2 DEF generate
    <3> QED
      BY <2>5, <3>3
  <2>7. \A t \in counted' : Spends[t] \subseteq Grants[t]
    <3> SUFFICES ASSUME NEW t \in counted' PROVE 1 .. spent(t) \subseteq 1 .. budget(t)
      BY <2>3
    <3>1. spent(t) \in 0 .. budget(t) /\ t \in Requests
      BY <1>2, <2>1, <2>2 DEF BInv, StepsInv
    <3>2. budget(t) \in Nat
      BY <3>1, Numbers
    <3> QED
      BY <3>1, <3>2
  <2>8. IsFiniteSet(tagged(Spends, counted'))
    BY <2>5, <2>7, TaggedGrows
  <2>9. Cardinality(tagged(Spends, counted')) \in Nat
    BY <2>8, FS_CardinalityType
  <2> QED
    BY <1>1, <2>1, <2>4, <2>6, <2>9
<1>6. StepsInv'
  <2>1. counted' \subseteq Submitted
    BY <1>2, <1>5
  <2>2. stage' \in {"prefill", "decode"} => batch' # {}
    BY <1>1
  <2>3. \A t \in Submitted : spent(t)' \in 0 .. budget(t)'
    BY <1>3 DEF BInv, StepsInv
  <2> QED
    BY <1>2, <1>5, <2>1, <2>2, <2>3 DEF StepsInv
<1> QED
  BY <1>2, <1>3, <1>4, <1>6 DEF BInv

-----------------------------------------------------------------------------
\* A request of a batch has a step left: the next chunk of its prompt, the last
\* one, or a token.
LEMMA BatchSpends ==
  ASSUME IInv, CInv, BInv, NEW r \in batch
  PROVE  /\ r \in Requests /\ r \in Submitted
         /\ spent(r) \in Nat /\ spent(r) + 1 <= budget(r)
         /\ req[r].kind = "full" =>
              spent(r) + 1 <= generate_budget(pending[r].inputLen, 0)
                                + req[r].deviceLen - pending[r].inputLen
         /\ stage = "prefill" =>
              \E q \in Nat : /\ spent(r) = q
                             /\ req[r].cachedLen = pending[r].cachedLen + MaxExtendTokens * q
<1>1. /\ r \in Live /\ r \in Requests /\ r \in Submitted /\ req[r].kind # "none"
      /\ OffsetsOf(r) /\ Stride(r)
      /\ stage \in {"prefill", "decode"}
  BY DEF Live, IInv, Places, TypeOK, CInv, Offsets, BInv, Submitted
<1> DEFINE n == pending[r].inputLen
           m == pending[r].outputLen
           d == req[r].deviceLen
           whole == generate_budget(n, 0)
<1>2. /\ n \in Nat /\ m \in Nat /\ d \in Nat /\ whole \in Nat
      /\ pending[r].cachedLen \in Nat /\ req[r].cachedLen \in Nat
      /\ MaxExtendTokens \in Nat \ {0}
      /\ budget(r) = whole + m
  BY <1>1, Numbers
<1>3. whole = (n + MaxExtendTokens - 1) \div MaxExtendTokens
  <2>1. n + MaxExtendTokens - 1 \in Nat
    BY <1>2
  <2>2. (n + MaxExtendTokens - 1) \div MaxExtendTokens \in Nat
    BY <1>2, <2>1, DivNat
  <2> QED
    BY <2>2 DEF generate_budget
<1>4. CASE stage = "prefill"
  <2>1. r \in InStep /\ ~finished(r) /\ reach(r) = req[r].cachedLen
    BY <1>1, <1>4 DEF InStep, finished, reach
  <2>2. PICK q \in Nat : req[r].cachedLen = pending[r].cachedLen + MaxExtendTokens * q
    BY <1>1, <2>1 DEF Stride
  <2>3. MaxExtendTokens * q \in Nat
    BY <1>2
  <2>4. spent(r) = (MaxExtendTokens * q) \div MaxExtendTokens
    <3>1. req[r].cachedLen - pending[r].cachedLen = MaxExtendTokens * q
      BY <1>2, <2>2, <2>3
    <3> QED
      BY <2>1, <3>1 DEF spent
  <2>5. spent(r) = q
    BY <1>2, <2>4, DivMultiple
  <2>6. req[r].cachedLen < d /\ d <= n /\ (req[r].kind = "full" => d = n)
    <3>1. req[r].cachedLen < d
      BY <2>1 DEF BInv, TokensInv
    <3>2. req[r].kind \in {"chunked", "full"}
      BY <1>1 DEF IInv, TypeOK, ReqRecord
    <3>3. (req[r].kind = "chunked" => d < n) /\ (req[r].kind = "full" => d = n)
      BY <1>1, <2>1 DEF OffsetsOf
    <3> QED
      BY <1>2, <3>1, <3>2, <3>3
  <2>7. MaxExtendTokens * q < n
    <3> HIDE DEF n, d, whole
    <3> QED
      BY <1>2, <2>2, <2>3, <2>6
  <2>8. q + 1 <= whole
    BY <1>2, <1>3, <2>7, OneMoreChunk
  <2> HIDE DEF whole
  <2>9. q + 1 <= budget(r) /\ (req[r].kind = "full" => q + 1 <= whole + d - n)
    BY <1>2, <2>6, <2>8
  <2> QED
    BY <1>1, <2>2, <2>5, <2>9 DEF whole
<1>5. CASE stage = "decode"
  <2>1. r \in runningReqs /\ can_decode(req[r]) /\ r \notin InStep
    BY <1>5 DEF IInv, Places, InStep
  <2>2. req[r].kind = "full" /\ finished(r)
    BY <2>1 DEF can_decode, finished
  <2>3. spent(r) = whole + d - n - 1
    BY <2>2 DEF spent
  <2>4. d > n /\ req[r].maxDeviceLen = n + m
    BY <1>1, <2>1, <2>2 DEF OffsetsOf
  <2>5. d < n + m
    BY <1>2, <2>1, <2>4 DEF can_decode
  <2> HIDE DEF n, m, d, whole
  <2>6. /\ spent(r) \in Nat /\ spent(r) + 1 <= budget(r)
        /\ spent(r) + 1 <= whole + d - n
    BY <1>2, <2>3, <2>4, <2>5
  <2> QED
    BY <1>1, <1>5, <2>6 DEF whole, d, n
<1> QED
  BY <1>1, <1>4, <1>5

\* A step that runs takes a step from every request of its batch.
LEMMA BatchStep ==
  ASSUME IInv, CInv, BInv, NEW eos \in SUBSET sampled, complete(eos), NEW r \in batch
  PROVE  /\ spent(r)' \in Nat /\ spent(r) + 1 <= spent(r)'
         /\ spent(r)' <= budget(r)'
         /\ Stride(r)'
<1>1. /\ stage \in {"prefill", "decode"} /\ stage' = "idle" /\ pending' = pending
  BY DEF complete
<1>2. InStep' = {}
  BY <1>1 DEF InStep
<1>3. /\ r \in Requests /\ spent(r) \in Nat /\ spent(r) + 1 <= budget(r)
      /\ req[r].kind = "full" =>
           spent(r) + 1 <= generate_budget(pending[r].inputLen, 0)
                             + req[r].deviceLen - pending[r].inputLen
      /\ stage = "prefill" =>
           \E q \in Nat : /\ spent(r) = q
                          /\ req[r].cachedLen = pending[r].cachedLen + MaxExtendTokens * q
  BY BatchSpends
<1> DEFINE n == pending[r].inputLen
           d == req[r].deviceLen
           whole == generate_budget(n, 0)
<1>4. /\ n \in Nat /\ pending[r].outputLen \in Nat /\ d \in Nat /\ whole \in Nat
      /\ pending[r].cachedLen \in Nat /\ req[r].cachedLen \in Nat
      /\ MaxExtendTokens \in Nat \ {0}
      /\ budget(r) \in Nat /\ budget(r) = whole + pending[r].outputLen
  BY <1>3, Numbers
<1>5. budget(r)' = budget(r)
  BY <1>1 DEF budget, generate_budget
<1>6. CASE r \in sampled
  <2>1. /\ req'[r].kind = "full" /\ req'[r].deviceLen = d + 1
        /\ IF stage = "prefill" THEN d = n
           ELSE d > n /\ d < n + pending[r].outputLen
    BY <1>6, SampledFacts
  <2>2. finished(r)'
    BY <1>2, <2>1 DEF finished
  <2>3. spent(r)' = whole + (d + 1) - n - 1
    BY <1>1, <2>1, <2>2 DEF spent, generate_budget
  <2>4. req[r].kind = "full"
    BY <1>6 DEF sampled
  <2>5. spent(r) + 1 <= whole + d - n
    BY <1>3, <2>4
  <2>6. Stride(r)'
    BY <1>2, <2>2 DEF Stride
  <2> HIDE DEF n, d, whole
  <2>7. d >= n /\ d <= n + pending[r].outputLen
    BY <1>4, <2>1
  <2>8. spent(r)' = whole + d - n
    BY <1>4, <2>3
  <2>9. spent(r)' \in Nat /\ spent(r)' <= budget(r)
    BY <1>4, <2>7, <2>8
  <2> QED
    BY <1>5, <2>5, <2>6, <2>8, <2>9
<1>7. CASE r \notin sampled
  <2>1. /\ stage = "prefill" /\ req[r].kind = "chunked" /\ req'[r] = req[r]
    BY <1>7, UnfinishedFacts
  <2>2. PICK q \in Nat :
          /\ spent(r) = q
          /\ req[r].cachedLen = pending[r].cachedLen + MaxExtendTokens * q
    BY <1>3, <2>1
  <2>3. d = req[r].cachedLen + MaxExtendTokens
    <3>1. r \in Live /\ r \in InStep
      BY <2>1 DEF Live, InStep
    <3> QED
      BY <2>1, <3>1 DEF BInv, Stride
  <2>4. MaxExtendTokens * (q + 1) = MaxExtendTokens * q + MaxExtendTokens
        /\ MaxExtendTokens * q \in Nat
    BY <1>4
  <2>5. reach(r)' = d /\ ~finished(r)'
    BY <1>2, <2>1 DEF reach, finished
  <2>6. d = pending[r].cachedLen + MaxExtendTokens * (q + 1)
    BY <1>4, <2>2, <2>3, <2>4
  <2>7. spent(r)' = q + 1
    <3>1. d - pending[r].cachedLen = MaxExtendTokens * (q + 1)
      BY <1>4, <2>4, <2>6
    <3>2. spent(r)' = (MaxExtendTokens * (q + 1)) \div MaxExtendTokens
      BY <1>1, <2>5, <3>1 DEF spent
    <3>3. q + 1 \in Nat
      OBVIOUS
    <3> QED
      BY <1>4, <3>2, <3>3, DivMultiple
  <2>8. Stride(r)'
    BY <1>1, <1>2, <2>5, <2>6 DEF Stride
  <2> QED
    BY <1>3, <1>5, <2>2, <2>7, <2>8
<1> QED
  BY <1>6, <1>7

\* complete(): a step is paid for by every request of its batch.
LEMMA CompleteBInv ==
  ASSUME IInv, CInv, BInv, NEW eos \in SUBSET sampled, complete(eos)
  PROVE  BInv'
<1>1. /\ stage \in {"prefill", "decode"} /\ stage' = "idle" /\ steps' = steps + 1
      /\ UNCHANGED <<pendingList, pending, stepBudget, counted>>
      /\ runningReqs' \subseteq runningReqs \union batch /\ batch' = {}
      /\ req' = [t \in Requests |->
                   IF t \in sampled THEN after_sample(t, eos) ELSE req[t]]
      /\ outcome' = [t \in Requests |->
                       IF t \in batch /\ req'[t].aborted THEN "done"
                                                         ELSE outcome[t]]
  BY DEF complete, filter_reqs
<1>2. /\ Live' \subseteq Live /\ Live \subseteq Requests /\ sampled \subseteq batch
      /\ batch \subseteq Live
  BY <1>1 DEF Live, IInv, Places, sampled
<1>3. InStep' = {} /\ InStep \subseteq batch
  BY <1>1 DEF InStep
<1>4. Submitted' = Submitted
  <2>1. \A t \in batch : outcome[t] = "live"
    BY <1>2 DEF IInv, Places
  <2> QED
    BY <1>1, <2>1 DEF Submitted
<1>5. \A t \in Requests \ batch :
        /\ spent(t)' = spent(t) /\ budget(t)' = budget(t)
        /\ Stride(t) => Stride(t)'
  <2> SUFFICES ASSUME NEW t \in Requests \ batch
               PROVE  /\ spent(t)' = spent(t) /\ budget(t)' = budget(t)
                      /\ Stride(t) => Stride(t)'
    OBVIOUS
  <2>1. req'[t] = req[t] /\ pending'[t] = pending[t]
    BY <1>1, <1>2
  <2> QED
    BY <1>3, <2>1, SpentSame
<1>6. \A t \in batch :
        /\ spent(t)' \in Nat /\ spent(t) + 1 <= spent(t)'
        /\ spent(t)' <= budget(t)'
        /\ Stride(t)'
  BY BatchStep
<1>7. TokensInv'
  <2>1. StepTokens' = {}
    BY <1>3 DEF StepTokens, tagged
  <2>2. IsFiniteSet({}) /\ Cardinality({}) = 0
    BY FS_EmptySet
  <2>3. MaxExtendTokens \in Nat
    BY SchedulerAssumption
  <2> QED
    BY <1>1, <1>3, <2>1, <2>2, <2>3 DEF TokensInv
<1>8. \A t \in Live' : Stride(t)'
  <2> SUFFICES ASSUME NEW t \in Live' PROVE Stride(t)'
    OBVIOUS
  <2>1. t \in Live /\ t \in Requests /\ Stride(t)
    BY <1>2 DEF BInv
  <2> QED
    BY <1>5, <1>6, <2>1
<1>9. StepsInv'
  <2>1. \A t \in Submitted : t \in Requests /\ spent(t) \in Nat /\ budget(t)' \in Nat
    <3> SUFFICES ASSUME NEW t \in Submitted
                 PROVE  t \in Requests /\ spent(t) \in Nat /\ budget(t)' \in Nat
      OBVIOUS
    <3>1. t \in Requests /\ spent(t) \in 0 .. budget(t)
      BY DEF BInv, StepsInv, Submitted
    <3>2. budget(t) \in Nat
      BY <3>1, Numbers
    <3>3. budget(t)' = budget(t)
      BY <1>1 DEF budget, generate_budget
    <3> QED
      BY <3>1, <3>2, <3>3
  <2>2. \A t \in Submitted : spent(t)' \in 0 .. budget(t)' /\ spent(t) <= spent(t)'
    <3> SUFFICES ASSUME NEW t \in Submitted
                 PROVE  spent(t)' \in 0 .. budget(t)' /\ spent(t) <= spent(t)'
      OBVIOUS
    <3>1. CASE t \in batch
      BY <1>6, <2>1, <3>1
    <3>2. CASE t \notin batch
      <4>1. spent(t) \in 0 .. budget(t)
        BY DEF BInv, StepsInv
      <4> QED
        BY <1>5, <2>1, <3>2, <4>1
    <3> QED
      BY <3>1, <3>2
  <2>3. ASSUME counted # {}
        PROVE  /\ stepBudget = Cardinality(tagged(Grants, counted)')
               /\ steps' <= Cardinality(tagged(Spends, counted)')
    <3>1. counted \subseteq Submitted /\ counted \subseteq Requests /\ batch \subseteq counted
      BY <1>2, <2>3 DEF BInv, StepsInv, Submitted
    <3>2. \A t \in counted : Grants'[t] = Grants[t]
      <4>1. \A t \in Requests : budget(t)' = budget(t)
        BY <1>1 DEF budget, generate_budget
      <4> QED
        BY <3>1, <4>1 DEF Grants
    <3>3. tagged(Grants', counted) = tagged(Grants, counted)
      BY <3>2, TaggedSame
    <3>4. \A t \in counted : Spends[t] \subseteq Spends'[t] /\ Spends'[t] \subseteq Grants'[t]
      <4> SUFFICES ASSUME NEW t \in counted
                   PROVE  Spends[t] \subseteq Spends'[t] /\ Spends'[t] \subseteq Grants'[t]
        OBVIOUS
      <4>1. Spends[t] = 1 .. spent(t) /\ Spends'[t] = 1 .. spent(t)' /\ Grants'[t] = 1 .. budget(t)'
        BY <3>1 DEF Spends, Grants
      <4>2. t \in Submitted
        BY <3>1
      <4> QED
        BY <2>1, <2>2, <4>1, <4>2
    <3>5. /\ IsFiniteSet(tagged(Grants, counted)) /\ IsFiniteSet(tagged(Spends, counted))
          /\ Cardinality(tagged(Spends, counted)) \in Nat
      BY SpendsCount DEF BInv
    <3>6. IsFiniteSet(tagged(Spends', counted))
      BY <3>3, <3>4, <3>5, TaggedGrows
    <3>7. PICK r \in batch : r \in counted
      <4>1. batch # {}
        BY <1>1 DEF BInv, StepsInv
      <4> QED
        BY <3>1, <4>1
    <3>8. spent(r) + 1 \in Spends'[r] /\ spent(r) + 1 \notin Spends[r]
      <4>1. Spends[r] = 1 .. spent(r) /\ Spends'[r] = 1 .. spent(r)' /\ r \in Submitted
        BY <3>1, <3>7 DEF Spends
      <4> QED
        BY <1>6, <2>1, <3>7, <4>1
    <3>9. Cardinality(tagged(Spends, counted)) + 1 <= Cardinality(tagged(Spends', counted))
      <4>1. \A t \in counted : Spends[t] \subseteq Spends'[t]
        BY <3>4
      <4> QED
        BY <3>6, <3>7, <3>8, <4>1, TaggedGrows
    <3>10. /\ Cardinality(tagged(Spends', counted)) \in Nat
           /\ steps \in Nat /\ steps <= Cardinality(tagged(Spends, counted))
      BY <2>3, <3>6, FS_CardinalityType DEF BInv, StepsInv, IInv, TypeOK
    <3>11. steps' <= Cardinality(tagged(Spends', counted))
      BY <1>1, <3>5, <3>9, <3>10
    <3>12. /\ tagged(Grants, counted)' = tagged(Grants, counted)
           /\ tagged(Spends, counted)' = tagged(Spends', counted)
      BY <1>1, <3>3 DEF tagged
    <3> QED
      BY <2>3, <3>11, <3>12 DEF BInv, StepsInv
  <2> QED
    BY <1>1, <1>2, <1>4, <2>2, <2>3 DEF BInv, StepsInv
<1> QED
  BY <1>7, <1>8, <1>9 DEF BInv

\* Every step of the scheduler keeps the budgets, one case per action.
LEMMA NextBInv ==
  ASSUME IInv, CInv, BInv, [Next]_vars
  PROVE  BInv'
<1>1. CASE UNCHANGED vars
  <2>1. InStep' = InStep /\ Live' = Live /\ Submitted' = Submitted
    BY <1>1 DEF vars, InStep, Live, Submitted
  <2>2. InStep \subseteq Requests
    BY InStepLive DEF IInv, Places
  <2>3. \A t : /\ spent(t)' = spent(t) /\ budget(t)' = budget(t)
               /\ Stride(t) => Stride(t)'
    BY <1>1, <2>1, SpentSame DEF vars
  <2>4. TokensInv'
    BY <1>1, <2>1, <2>2, TokensSame DEF vars, BInv
  <2>5. StepsInv'
    <3>1. stage' \in {"prefill", "decode"} => batch' # {}
      BY <1>1 DEF vars, BInv, StepsInv
    <3>2. UNCHANGED <<steps, stepBudget, counted>>
      BY <1>1 DEF vars
    <3> QED
      BY <2>1, <2>3, <3>1, <3>2, StepsSame DEF BInv
  <2> QED
    BY <2>1, <2>3, <2>4, <2>5 DEF BInv
<1>2. CASE Next
  BY <1>2, AddBInv, GenerateBInv, AbortBInv, BeginPassBInv, AdmitBInv, LoopBInv,
     DecodeOrIdleBInv, CompleteBInv DEF Next, Add, Abort, EngineStep, Complete
<1> QED
  BY <1>1, <1>2

\* The token budget of a prefill batch.
LEMMA BatchFits == IInv /\ BInv => BatchFitsStepBudget
<1> SUFFICES ASSUME IInv, BInv, stage = "prefill"
             PROVE  /\ Cardinality(UNION {{r} \X written(r) : r \in batch}) <= MaxExtendTokens
                    /\ \A r \in batch : req[r].deviceLen > req[r].cachedLen
  BY DEF BatchFitsStepBudget
<1>1. InStep = batch /\ batch \subseteq Requests
  BY DEF InStep, IInv, TypeOK
<1>2. \A r \in batch : Chunks[r] = written(r)
  BY <1>1 DEF Chunks, written
<1>3. StepTokens = UNION {{r} \X written(r) : r \in batch}
  BY <1>1, <1>2 DEF StepTokens, tagged
<1>4. \A r \in batch : req[r].cachedLen \in Nat /\ req[r].deviceLen \in Nat
  BY <1>1, Numbers
<1>5. \A r \in batch : req[r].deviceLen > req[r].cachedLen
  BY <1>1, <1>4 DEF BInv, TokensInv
<1> QED
  BY <1>3, <1>5 DEF BInv, TokensInv

\* A request of the batch has a step that is granted and not spent.
LEMMA BudgetSuffices == IInv /\ CInv /\ BInv => StepBudgetSuffices
<1> SUFFICES ASSUME IInv, CInv, BInv, counted # {}, NEW r \in batch
             PROVE  steps < stepBudget
  BY DEF StepBudgetSuffices
<1>1. r \in Requests /\ spent(r) \in Nat /\ spent(r) + 1 <= budget(r)
  BY BatchSpends
<1>2. r \in counted
  BY DEF BInv, StepsInv, Live
<1>3. spent(r) + 1 \in Grants[r] /\ spent(r) + 1 \notin Spends[r]
  <2>1. Spends[r] = 1 .. spent(r) /\ Grants[r] = 1 .. budget(r)
    BY <1>1 DEF Spends, Grants
  <2>2. budget(r) \in Nat
    BY <1>1, Numbers
  <2> QED
    BY <1>1, <2>1, <2>2
<1>4. /\ \A t \in counted : Spends[t] \subseteq Grants[t]
      /\ IsFiniteSet(tagged(Grants, counted))
      /\ Cardinality(tagged(Spends, counted)) \in Nat
      /\ Cardinality(tagged(Grants, counted)) \in Nat
  BY SpendsCount DEF BInv
<1>5. Cardinality(tagged(Spends, counted)) + 1 <= Cardinality(tagged(Grants, counted))
  BY <1>2, <1>3, <1>4, TaggedGrows
<1>6. /\ steps <= Cardinality(tagged(Spends, counted))
      /\ stepBudget = Cardinality(tagged(Grants, counted)) /\ steps \in Nat
  BY DEF BInv, StepsInv, IInv, TypeOK
<1> QED
  BY <1>4, <1>5, <1>6

\* Scheduler and Engine.generate, for any requests and any budgets: at most one
\* split prompt waits, every batch finds its history written and fits the token
\* budget of a step, the step budget generate() computes from the prompts and
\* max_tokens it finds queued is never exceeded as long as no other request
\* shares it, and no request emits more than it may.
THEOREM ChunksStaySound == Spec => []ChunksAreSound
<1>1. Init => IInv /\ CInv /\ BInv
  BY InitTypeOK, InitIInv, InitCInv, InitBInv DEF IInv
<1>2. (IInv /\ CInv /\ BInv) /\ [Next]_vars => (IInv /\ CInv /\ BInv)'
  BY NextTypeOK, NextIInv, NextCInv, NextBInv DEF IInv
<1>3. IInv /\ CInv /\ BInv => ChunksAreSound
  <2>1. IInv /\ CInv => OneContinuation /\ OutputBound
    BY DEF CInv, Queue, OneContinuation
  <2> QED
    BY <2>1, HistoryFollows, BatchFits, BudgetSuffices DEF ChunksAreSound
<1> QED
  BY <1>1, <1>2, <1>3, PTL DEF Spec
=============================================================================
