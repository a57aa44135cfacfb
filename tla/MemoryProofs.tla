----------------------------- MODULE MemoryProofs -----------------------------
(***************************************************************************)
(* Proofs about what the device memory holds, for every value of the       *)
(* constants.  First the expert slot cache: its maps, the bytes in its     *)
(* slots and the gather of the forward always agree.  Then the recurrent   *)
(* states: every request's slot holds the fold of its own tokens.          *)
(***************************************************************************)
EXTENDS MCMemory, FiniteSetTheorems, SequenceTheorems, WellFoundedInduction, TLAPS

-----------------------------------------------------------------------------
(***************************************************************************)
(* Flat ids.                                                               *)
(***************************************************************************)
\* The flat id of an expert is an index of slot_for_id.
LEMMA FlatIdRange ==
  ASSUME NEW l \in Layers, NEW e \in Experts
  PROVE  flat_id(l, e) \in Ids
<1>1. /\ l \in Int /\ 0 <= l /\ l <= NumLayers - 1
      /\ e \in Int /\ 0 <= e /\ e <= NumExperts - 1
      /\ NumLayers \in Nat /\ NumExperts \in Nat
  BY OffloadAssumption DEF Layers, Experts
<1>2. l * NumExperts >= 0 /\ l * NumExperts <= (NumLayers - 1) * NumExperts
  BY <1>1
<1>3. (NumLayers - 1) * NumExperts = NumLayers * NumExperts - NumExperts
  BY <1>1
<1> QED
  BY <1>1, <1>2, <1>3 DEF flat_id, Ids

\* Two experts of one layer have different flat ids.
LEMMA FlatIdInjective ==
  ASSUME NEW l \in Layers, NEW e \in Experts, NEW f \in Experts,
         flat_id(l, e) = flat_id(l, f)
  PROVE  e = f
<1>1. l * NumExperts \in Int
  BY OffloadAssumption DEF Layers
<1> QED
  BY <1>1 DEF flat_id, Experts, Layers

\* No flat id is the -1 that marks an empty slot, no slot the -1 of an absent
\* expert.
LEMMA Markers ==
  /\ NoId \notin Ids
  /\ NoSlot \notin Slots
  BY DEF NoId, NoSlot, Ids, Slots

-----------------------------------------------------------------------------
(***************************************************************************)
(* The pigeonhole argument: while an expert is missing, some slot is not   *)
(* used by the current call, because the pool holds at least a layer.      *)
(***************************************************************************)
LEMMA ColdSlot ==
  ASSUME IInv, pc = "misses", call.todo # {}
  PROVE  \E s \in Slots : usage[s] < step
<1> DEFINE Done == call.experts \ call.todo
           f == [s \in Slots |->
                   CHOOSE e \in Done : idOfSlot[s] = flat_id(call.layer, e)]
<1>1. SUFFICES ASSUME \A s \in Slots : usage[s] = step
               PROVE  FALSE
  BY DEF IInv, Timestamps, TypeOK
<1>2. \A s \in Slots : \E e \in Done : idOfSlot[s] = flat_id(call.layer, e)
  BY <1>1 DEF IInv, Protected, Hot
<1>3. \A s \in Slots : f[s] \in Done /\ idOfSlot[s] = flat_id(call.layer, f[s])
  BY <1>2
<1>4. f \in [Slots -> Done]
  BY <1>3
<1>5. Done \in SUBSET Experts /\ Done # Experts
  BY DEF IInv, TypeOK
<1>6. /\ IsFiniteSet(Experts) /\ Cardinality(Experts) = NumExperts
      /\ IsFiniteSet(Slots) /\ Cardinality(Slots) = cacheSize
      /\ cacheSize >= NumExperts
      /\ NumExperts \in Nat /\ cacheSize \in Nat
  <2>1. NumExperts \in Nat \ {0} /\ cacheSize \in Nat /\ cacheSize >= NumExperts
    BY OffloadAssumption DEF IInv, TypeOK
  <2>2. IsFiniteSet(Experts) /\ Cardinality(Experts) = NumExperts
    BY <2>1, FS_Interval DEF Experts
  <2>3. IsFiniteSet(Slots) /\ Cardinality(Slots) = cacheSize
    BY <2>1, FS_Interval DEF Slots
  <2> QED BY <2>1, <2>2, <2>3
<1>7. IsFiniteSet(Done) /\ Cardinality(Done) <= NumExperts
        /\ Cardinality(Done) # NumExperts /\ Cardinality(Done) \in Nat
  <2> HIDE DEF Done
  <2> QED BY <1>5, <1>6, FS_Subset, FS_CardinalityType
<1> HIDE DEF Done, f
<1>8. PICK x, y \in Slots : x # y /\ f[x] = f[y]
  BY <1>4, <1>6, <1>7, FS_PigeonHole
<1>9. idOfSlot[x] = idOfSlot[y] /\ idOfSlot[x] \in Ids
  <2>1. f[x] \in Experts /\ call.layer \in Layers
    BY <1>3, <1>5 DEF IInv, TypeOK
  <2> QED BY <1>3, <1>8, <2>1, FlatIdRange
<1> QED
  BY <1>8, <1>9 DEF IInv, MapsAgree

\* So the slot a miss takes is not one this call has hit or filled.
LEMMA VictimIsCold ==
  ASSUME IInv, pc = "misses", call.todo # {}, NEW s \in Slots, victim(s)
  PROVE  usage[s] < step
<1>1. CASE first_free_slot(s)
  BY <1>1 DEF first_free_slot, IInv, Timestamps, Protected, TypeOK
<1>2. CASE lru_slot(s)
  <2>1. PICK t \in Slots : usage[t] < step
    BY ColdSlot
  <2>2. usage[s] \in Nat /\ usage[t] \in Nat /\ step \in Nat /\ usage[s] <= usage[t]
    BY <1>2, SMTT(40) DEF lru_slot, IInv, TypeOK
  <2> QED BY <2>1, <2>2
<1> QED
  BY <1>1, <1>2 DEF victim

-----------------------------------------------------------------------------
(***************************************************************************)
(* The invariant, action by action.                                        *)
(***************************************************************************)
LEMMA InitIInv == Init => IInv
<1> SUFFICES ASSUME Init PROVE IInv
  OBVIOUS
<1> USE OffloadAssumption
<1>1. TypeOK
  <2>1. 0 \in Layers
    BY DEF Layers
  <2>2. call \in [layer : Layers, experts : SUBSET Experts, whole : BOOLEAN,
                  todo : SUBSET Experts]
    BY <2>1 DEF Init, IdleCall
  <2> QED BY <2>2 DEF Init, TypeOK
<1>2. MapsAgree
  BY Markers DEF Init, MapsAgree
<1>3. Protected /\ Timestamps /\ Plan
  BY DEF Init, Protected, Timestamps, Plan, NoId
<1> QED BY <1>1, <1>2, <1>3 DEF IInv

\* Starting a call stamps its hits and fixes its misses: the invariant holds.
LEMMA StartIInv ==
  ASSUME IInv, NEW l \in Layers, NEW X \in SUBSET Experts, NEW w \in BOOLEAN,
         start(l, X, w)
  PROVE  IInv'
<1> USE DEF start
<1>0. \A e \in X : flat_id(l, e) \in Ids
  BY FlatIdRange
<1>1. usage' \in [Slots -> Nat]
  BY DEF stamp_hits, IInv, TypeOK
<1>2. TypeOK'
  <2>1. missing(l, X) \in SUBSET Experts
    BY DEF missing
  <2>2. call' \in [layer : Layers, experts : SUBSET Experts, whole : BOOLEAN,
                   todo : SUBSET Experts]
    BY <2>1
  <2>3. step' \in Nat /\ plan' \in Seq(Row) /\ Slots' = Slots
    BY DEF IInv, TypeOK, Slots
  <2> QED BY <1>1, <2>2, <2>3 DEF IInv, TypeOK
<1>3. MapsAgree'
  BY DEF IInv, MapsAgree, Slots
<1>4. Timestamps'
  <2> SUFFICES ASSUME NEW s \in Slots
               PROVE  usage'[s] <= step + 1
                        /\ ((usage'[s] = 0) <=> (idOfSlot[s] = NoId))
    BY DEF Timestamps, Slots
  <2>1. usage[s] \in Nat /\ step \in Nat /\ usage[s] <= step
          /\ ((usage[s] = 0) <=> (idOfSlot[s] = NoId))
    BY DEF IInv, Timestamps, TypeOK
  <2>2. CASE \E e \in X : slotForId[flat_id(l, e)] = s
    <3>1. idOfSlot[s] # NoId
      BY <2>2, <1>0, Markers DEF IInv, MapsAgree
    <3>2. usage'[s] = step + 1
      BY <2>2 DEF stamp_hits
    <3> QED BY <3>1, <3>2, <2>1
  <2>3. CASE ~ \E e \in X : slotForId[flat_id(l, e)] = s
    <3>1. usage'[s] = usage[s]
      BY <2>3 DEF stamp_hits
    <3> QED BY <3>1, <2>1
  <2> QED BY <2>2, <2>3
<1>5. Protected'
  <2>1. step' > 0 /\ call'.todo \subseteq call'.experts
    BY DEF missing, IInv, TypeOK
  <2>2. ASSUME NEW s \in Slots, usage'[s] = step + 1
        PROVE  \E e \in X \ missing(l, X) : idOfSlot[s] = flat_id(l, e)
    <3>1. usage[s] # step + 1
      BY DEF IInv, Timestamps, TypeOK
    <3>2. PICK e \in X : slotForId[flat_id(l, e)] = s
      BY <2>2, <3>1 DEF stamp_hits
    <3>3. e \notin missing(l, X)
      BY <3>2, Markers DEF missing
    <3>4. idOfSlot[s] = flat_id(l, e)
      BY <3>2, <1>0 DEF IInv, MapsAgree
    <3> QED BY <3>2, <3>3, <3>4
  <2>3. ASSUME NEW e \in X \ missing(l, X)
        PROVE  slotForId[flat_id(l, e)] # NoSlot
                 /\ usage'[slotForId[flat_id(l, e)]] = step + 1
    <3>1. slotForId[flat_id(l, e)] # NoSlot /\ slotForId[flat_id(l, e)] \in Slots
      BY <1>0 DEF missing, IInv, TypeOK
    <3> QED BY <3>1 DEF stamp_hits
  <2>4. \A e \in missing(l, X) : slotForId[flat_id(l, e)] = NoSlot
    BY DEF missing
  <2> QED BY <2>1, <2>2, <2>3, <2>4 DEF Protected, Hot, Slots
<1>6. Plan'
  BY DEF IInv, Plan, Hot, Slots
<1> QED BY <1>2, <1>3, <1>4, <1>5, <1>6 DEF IInv

\* Handing a slot over keeps the two maps inverse to each other.
LEMMA MoveKeepsMaps ==
  ASSUME TypeOK, MapsAgree, NEW s \in Slots, NEW id \in Ids,
         slotForId[id] = NoSlot,
         NEW i \in Ids, NEW t \in Slots
  PROVE  moved(s, id)[i] = t <=> [idOfSlot EXCEPT ![s] = id][t] = i
<1>0. idOfSlot \in [Slots -> Ids \union {NoId}] /\ NoSlot \notin Slots
  BY Markers DEF TypeOK
<1>1. moved(s, id)[i] = IF i = id THEN s
                        ELSE IF i = idOfSlot[s] THEN NoSlot ELSE slotForId[i]
  BY DEF moved
<1>2. [idOfSlot EXCEPT ![s] = id][t] = IF t = s THEN id ELSE idOfSlot[t]
  BY <1>0
<1>3. \A j \in Ids, u \in Slots : slotForId[j] = u <=> idOfSlot[u] = j
  BY DEF MapsAgree
<1> QED
  BY <1>0, <1>1, <1>2, <1>3

\* Giving one missing expert a slot, by eviction or not, keeps the invariant.
LEMMA PlaceIInv == IInv /\ place_missing => IInv'
<1> SUFFICES ASSUME IInv, place_missing PROVE IInv'
  OBVIOUS
<1>1. PICK e \in call.todo, s \in Slots :
        /\ victim(s)
        /\ slotForId' = moved(s, flat_id(call.layer, e))
        /\ idOfSlot' = [idOfSlot EXCEPT ![s] = flat_id(call.layer, e)]
        /\ usage' = [usage EXCEPT ![s] = step]
        /\ plan' = Append(plan, [slot |-> s, row |-> e])
        /\ call' = [call EXCEPT !.todo = @ \ {e}]
  BY DEF place_missing, staged
<1> DEFINE id == flat_id(call.layer, e)
<1>2. /\ pc = "misses" /\ pc' = pc /\ step' = step /\ bank' = bank
      /\ cacheSize' = cacheSize /\ pendingLayer' = pendingLayer
      /\ Slots' = Slots
  BY DEF place_missing, Slots
<1>3. /\ e \in Experts /\ call.layer \in Layers /\ e \in call.experts
      /\ id \in Ids /\ slotForId[id] = NoSlot
  <2>1. e \in Experts /\ call.layer \in Layers /\ e \in call.experts
          /\ slotForId[id] = NoSlot
    BY <1>1, <1>2 DEF IInv, TypeOK, Protected
  <2> QED BY <2>1, FlatIdRange
<1>4. usage[s] < step
  BY <1>1, <1>2, VictimIsCold
<1>5. /\ call'.layer = call.layer /\ call'.experts = call.experts
      /\ call'.whole = call.whole /\ call'.todo = call.todo \ {e}
      /\ call' \in [layer : Layers, experts : SUBSET Experts, whole : BOOLEAN,
                    todo : SUBSET Experts]
  BY <1>1 DEF IInv, TypeOK
<1>6. \A x \in Experts : flat_id(call.layer, x) \in Ids
  BY <1>3, FlatIdRange
<1>7. \A x \in Experts : flat_id(call.layer, x) = id => x = e
  BY <1>3, FlatIdInjective
<1> HIDE DEF id
<1>8. /\ \A t \in Slots : usage'[t] = IF t = s THEN step ELSE usage[t]
      /\ \A t \in Slots : idOfSlot'[t] = IF t = s THEN id ELSE idOfSlot[t]
      /\ \A i \in Ids : slotForId'[i] =
           IF i = id THEN s ELSE IF i = idOfSlot[s] THEN NoSlot ELSE slotForId[i]
  BY <1>1 DEF id, moved, IInv, TypeOK
<1>9. TypeOK'
  <2>1. slotForId' \in [Ids -> Slots \union {NoSlot}]
    BY <1>1 DEF moved, IInv, TypeOK
  <2>2. idOfSlot' \in [Slots -> Ids \union {NoId}] /\ usage' \in [Slots -> Nat]
    BY <1>1, <1>3 DEF id, IInv, TypeOK
  <2>3. plan' \in Seq(Row)
    <3>1. s \in Nat /\ plan \in Seq(Row)
      BY OffloadAssumption DEF Slots, IInv, TypeOK
    <3>2. [slot |-> s, row |-> e] \in Row
      BY <3>1, <1>3 DEF Row
    <3> QED BY <3>1, <3>2, <1>1
  <2> QED BY <1>2, <1>5, <2>1, <2>2, <2>3 DEF IInv, TypeOK
<1>10. MapsAgree'
  <2> SUFFICES ASSUME NEW i \in Ids, NEW t \in Slots
               PROVE  slotForId'[i] = t <=> idOfSlot'[t] = i
    BY <1>2 DEF MapsAgree
  <2> QED BY <1>1, <1>3, MoveKeepsMaps DEF id, IInv
<1>11. Timestamps'
  <2>1. /\ step > 0 /\ step \in Nat
        /\ id # NoId
        /\ \A t \in Slots : usage[t] <= step
                              /\ ((usage[t] = 0) <=> (idOfSlot[t] = NoId))
    BY <1>2, <1>3, Markers DEF IInv, Timestamps, TypeOK, Protected
  <2> QED BY <1>2, <1>8, <2>1 DEF Timestamps
<1>12. Protected'
  <2>1. step' > 0 /\ call'.todo \subseteq call'.experts
    BY <1>2, <1>5 DEF IInv, Protected
  <2>2. ASSUME NEW t \in Slots, usage'[t] = step
        PROVE  \E x \in call.experts \ (call.todo \ {e}) :
                 idOfSlot'[t] = flat_id(call.layer, x)
    <3>1. CASE t = s
      BY <3>1, <1>8, <1>3 DEF id
    <3>2. CASE t # s
      <4>1. usage[t] = step /\ idOfSlot'[t] = idOfSlot[t]
        BY <3>2, <2>2, <1>8
      <4>2. PICK x \in call.experts \ call.todo :
              idOfSlot[t] = flat_id(call.layer, x)
        BY <4>1, <1>2 DEF IInv, Protected, Hot
      <4> QED BY <4>1, <4>2
    <3> QED BY <3>1, <3>2
  <2>3. ASSUME NEW x \in call.experts \ (call.todo \ {e})
        PROVE  slotForId'[flat_id(call.layer, x)] # NoSlot
                 /\ usage'[slotForId'[flat_id(call.layer, x)]] = step
    <3>1. CASE x = e
      BY <3>1, <1>8, <1>3, Markers DEF id
    <3>2. CASE x # e
      <4> DEFINE xid == flat_id(call.layer, x)
      <4>1. x \in Experts /\ xid \in Ids /\ xid # id
        BY <3>2, <1>6, <1>7 DEF IInv, TypeOK
      <4>2. slotForId[xid] # NoSlot /\ usage[slotForId[xid]] = step
        BY <3>2, <1>2 DEF IInv, Protected
      <4>3. slotForId[xid] \in Slots
        BY <4>1, <4>2 DEF IInv, TypeOK
      <4> HIDE DEF xid
      <4>4. slotForId[xid] # s
        BY <4>2, <1>4 DEF IInv, TypeOK
      <4>5. xid # idOfSlot[s]
        BY <4>1, <4>3, <4>4 DEF IInv, MapsAgree
      <4>6. slotForId'[xid] = slotForId[xid]
        BY <4>1, <4>5, <1>8
      <4>7. usage'[slotForId[xid]] = step
        BY <4>2, <4>3, <1>8
      <4> QED BY <4>2, <4>6, <4>7 DEF xid
    <3> QED BY <3>1, <3>2
  <2>4. ASSUME NEW x \in call.todo \ {e}
        PROVE  slotForId'[flat_id(call.layer, x)] = NoSlot
    <3>1. x \in Experts /\ flat_id(call.layer, x) # id
            /\ flat_id(call.layer, x) \in Ids
      BY <1>6, <1>7 DEF IInv, TypeOK
    <3>2. slotForId[flat_id(call.layer, x)] = NoSlot
      BY <1>2 DEF IInv, Protected
    <3> QED BY <3>1, <3>2, <1>8
  <2> QED
    BY <1>2, <1>5, <2>1, <2>2, <2>3, <2>4 DEF Protected, Hot
<1>13. Plan'
  <2>1. plan \in Seq(Row) /\ Len(plan') = Len(plan) + 1
          /\ plan'[Len(plan) + 1] = [slot |-> s, row |-> e]
          /\ \A i \in 1 .. Len(plan) : plan'[i] = plan[i]
    BY <1>1 DEF IInv, TypeOK
  <2>2. ASSUME NEW i \in 1 .. Len(plan)
        PROVE  /\ plan[i].slot \in Slots /\ usage'[plan[i].slot] = step
               /\ idOfSlot'[plan[i].slot] = flat_id(call.layer, plan[i].row)
    <3>1. /\ plan[i].slot \in Slots /\ usage[plan[i].slot] = step
          /\ idOfSlot[plan[i].slot] = flat_id(call.layer, plan[i].row)
      BY DEF IInv, Plan, Hot
    <3>2. plan[i].slot # s
      BY <3>1, <1>4 DEF IInv, TypeOK
    <3> QED BY <3>1, <3>2, <1>8
  <2>3. ASSUME NEW i \in 1 .. Len(plan')
        PROVE  /\ plan'[i].slot \in Slots /\ usage'[plan'[i].slot] = step
               /\ idOfSlot'[plan'[i].slot] = flat_id(call.layer, plan'[i].row)
    <3>1. CASE i \in 1 .. Len(plan)
      BY <3>1, <2>1, <2>2
    <3>2. CASE i = Len(plan) + 1
      BY <3>2, <2>1, <1>8 DEF id
    <3>3. i \in 1 .. Len(plan) \/ i = Len(plan) + 1
      BY <2>1
    <3> QED BY <3>1, <3>2, <3>3
  <2>4. ASSUME NEW t \in Slots, idOfSlot'[t] # NoId, bank[t] # idOfSlot'[t]
        PROVE  \E i \in 1 .. Len(plan') : plan'[i].slot = t
    <3>0. Len(plan) \in Nat
      BY <2>1
    <3>1. CASE t = s
      <4>1. Len(plan) + 1 \in 1 .. Len(plan')
        BY <2>1, <3>0
      <4> QED BY <3>1, <2>1, <4>1
    <3>2. CASE t # s
      <4>1. idOfSlot'[t] = idOfSlot[t]
        BY <3>2, <1>8
      <4>2. PICK i \in 1 .. Len(plan) : plan[i].slot = t
        BY <2>4, <4>1 DEF IInv, Plan
      <4>3. i \in 1 .. Len(plan')
        BY <2>1, <3>0
      <4> QED BY <4>2, <4>3, <2>1
    <3> QED BY <3>1, <3>2
  <2> QED
    BY <1>2, <1>5, <2>3, <2>4 DEF Plan, Hot
<1> QED BY <1>9, <1>10, <1>11, <1>12, <1>13 DEF IInv

\* Deriving slot_for_id again changes nothing: the clear in the miss loop has
\* already removed the entry of the evicted expert, whichever layer it is of.
LEMMA ResyncKeepsMap ==
  ASSUME TypeOK, MapsAgree
  PROVE  resync(idOfSlot) = slotForId
<1> SUFFICES ASSUME NEW id \in Ids
             PROVE  resync(idOfSlot)[id] = slotForId[id]
  BY DEF resync, TypeOK
<1> DEFINE holders == {s \in Slots : idOfSlot[s] = id}
<1>1. resync(idOfSlot)[id] = IF holders = {} THEN NoSlot ELSE Max(holders)
  BY DEF resync
<1>2. CASE holders = {}
  <2>1. slotForId[id] \notin Slots
    BY <1>2 DEF MapsAgree
  <2>2. slotForId[id] = NoSlot
    BY <2>1 DEF TypeOK
  <2> QED BY <1>1, <1>2, <2>2
<1>3. CASE holders # {}
  <2>1. PICK s \in Slots : idOfSlot[s] = id
    BY <1>3
  <2>2. slotForId[id] = s
    BY <2>1 DEF MapsAgree
  <2>3. holders = {s}
    BY <2>1, <2>2 DEF MapsAgree
  <2>4. s \in Int
    BY DEF Slots
  <2>5. Max({s}) = s
    <3>1. \A x : x \in {s} /\ (\A y \in {s} : x >= y) <=> x = s
      BY <2>4
    <3> QED BY <3>1 DEF Max
  <2> QED BY <1>1, <1>3, <2>2, <2>3, <2>5
<1> QED BY <1>2, <1>3

\* The resync after the last miss keeps the invariant.
LEMMA FinishIInv == IInv /\ finish_misses => IInv'
<1> SUFFICES ASSUME IInv, finish_misses PROVE IInv'
  OBVIOUS
<1>1. slotForId' = slotForId
  BY ResyncKeepsMap DEF finish_misses, IInv
<1>2. /\ pc = "misses" /\ call.todo = {} /\ pendingLayer' = call.layer
      /\ pc' = "copy" /\ cacheSize' = cacheSize /\ idOfSlot' = idOfSlot
      /\ usage' = usage /\ step' = step /\ plan' = plan /\ bank' = bank
      /\ call' = call /\ Slots' = Slots
  BY DEF finish_misses, Slots
<1>3. TypeOK'
  BY <1>1, <1>2 DEF IInv, TypeOK
<1>4. MapsAgree' /\ Timestamps' /\ Protected' /\ Plan'
  BY <1>1, <1>2 DEF IInv, MapsAgree, Timestamps, Protected, Plan, Hot
<1> QED BY <1>3, <1>4 DEF IInv

\* One staged row reaches its slot.
LEMMA CopyRowIInv == IInv /\ copy_row => IInv'
<1> SUFFICES ASSUME IInv, copy_row PROVE IInv'
  OBVIOUS
<1> DEFINE h == Head(plan)
<1>1. /\ pc = "copy" /\ pc' = pc /\ plan # <<>> /\ plan' = Tail(plan)
      /\ bank' = [bank EXCEPT ![h.slot] = flat_id(pendingLayer, h.row)]
      /\ cacheSize' = cacheSize /\ slotForId' = slotForId
      /\ idOfSlot' = idOfSlot /\ usage' = usage /\ step' = step
      /\ pendingLayer' = pendingLayer /\ call' = call /\ Slots' = Slots
  BY DEF copy_row, Slots
<1>2. /\ plan \in Seq(Row) /\ Len(plan) \in Nat /\ Len(plan) > 0
      /\ h = plan[1] /\ h \in Row /\ Tail(plan) \in Seq(Row)
      /\ Len(Tail(plan)) = Len(plan) - 1
      /\ \A i \in 1 .. (Len(plan) - 1) : Tail(plan)[i] = plan[i + 1]
  BY <1>1 DEF IInv, TypeOK
<1>3. 1 \in 1 .. Len(plan)
  BY <1>2
<1>4. /\ h.slot \in Slots /\ usage[h.slot] = step /\ pendingLayer = call.layer
      /\ idOfSlot[h.slot] = flat_id(pendingLayer, h.row)
  BY <1>1, <1>2, <1>3 DEF IInv, Plan, Hot
<1>5. idOfSlot[h.slot] \in Ids \union {NoId} /\ bank \in [Slots -> Ids \union {NoId}]
  BY <1>4 DEF IInv, TypeOK
<1>6. bank' = [bank EXCEPT ![h.slot] = idOfSlot[h.slot]]
  BY <1>1, <1>4
<1> HIDE DEF h
<1>7. \A t \in Slots : bank'[t] = IF t = h.slot THEN idOfSlot[t] ELSE bank[t]
  BY <1>4, <1>5, <1>6
<1>8. bank' \in [Slots -> Ids \union {NoId}]
  BY <1>4, <1>5, <1>6
<1>9. TypeOK'
  BY <1>1, <1>2, <1>8 DEF IInv, TypeOK
<1>10. MapsAgree' /\ Timestamps' /\ Protected'
  BY <1>1 DEF IInv, MapsAgree, Timestamps, Protected, Hot
<1>11. Plan'
  <2>1. ASSUME NEW i \in 1 .. Len(plan')
        PROVE  i + 1 \in 1 .. Len(plan) /\ plan'[i] = plan[i + 1]
    BY <1>1, <1>2
  <2>2. ASSUME NEW i \in 1 .. Len(plan')
        PROVE  /\ plan'[i].slot \in Slots /\ usage[plan'[i].slot] = step
               /\ idOfSlot[plan'[i].slot] = flat_id(call.layer, plan'[i].row)
    BY <2>1 DEF IInv, Plan, Hot
  <2>3. ASSUME NEW t \in Slots, idOfSlot[t] # NoId, bank'[t] # idOfSlot[t]
        PROVE  \E i \in 1 .. Len(plan') : plan'[i].slot = t
    <3>1. t # h.slot /\ bank[t] # idOfSlot[t]
      BY <2>3, <1>7
    <3>2. PICK i \in 1 .. Len(plan) : plan[i].slot = t
      BY <2>3, <3>1 DEF IInv, Plan
    <3>3. i # 1
      BY <3>1, <3>2, <1>2
    <3>4. i - 1 \in 1 .. (Len(plan) - 1) /\ (i - 1) + 1 = i
      BY <3>2, <3>3, <1>2
    <3>5. i - 1 \in 1 .. Len(plan') /\ plan'[i - 1] = plan[i]
      BY <3>4, <1>1, <1>2
    <3> QED BY <3>2, <3>5
  <2> QED BY <1>1, <1>4, <2>2, <2>3 DEF Plan, Hot
<1> QED BY <1>9, <1>10, <1>11 DEF IInv

\* Copying the staged rows makes the bytes agree with the maps again.
LEMMA CopyDoneIInv == IInv /\ copy_done => IInv'
<1> SUFFICES ASSUME IInv, copy_done PROVE IInv'
  OBVIOUS
<1> USE DEF copy_done, IInv
<1>1. Slots' = Slots
  BY DEF Slots
<1>2. TypeOK'
  BY <1>1 DEF TypeOK
<1>3. MapsAgree' /\ Timestamps' /\ Protected'
  BY <1>1 DEF MapsAgree, Timestamps, Protected, Hot
<1>4. Plan'
  BY <1>1 DEF Plan
<1> QED BY <1>2, <1>3, <1>4

\* The record of no call in progress is a well-formed call.
LEMMA IdleCallType ==
  IdleCall \in [layer : Layers, experts : SUBSET Experts, whole : BOOLEAN,
                todo : SUBSET Experts]
<1>1. 0 \in Layers
  BY OffloadAssumption DEF Layers
<1> QED BY <1>1 DEF IdleCall

\* The gather that ends a forward reads the pool and changes no map.
LEMMA GatherIInv == IInv /\ gather => IInv'
<1> SUFFICES ASSUME IInv, gather PROVE IInv'
  OBVIOUS
<1> USE DEF gather, IInv
<1>1. Slots' = Slots
  BY DEF Slots
<1>2. TypeOK'
  BY <1>1, IdleCallType DEF TypeOK
<1>3. MapsAgree' /\ Timestamps' /\ Protected'
  BY <1>1 DEF MapsAgree, Timestamps, Protected
<1>4. Plan'
  BY <1>1 DEF Plan
<1> QED BY <1>2, <1>3, <1>4

\* rebuild and reset leave an empty pool of n slots.
LEMMA EmptyIInv ==
  ASSUME IInv, NEW n \in CacheSizes, pc = "idle", cacheSize' = n, EmptyPool(n),
         plan' = <<>> \/ plan' = plan, pc' = pc, call' = call
  PROVE  IInv'
<1> USE DEF EmptyPool
<1>1. Slots' = 0 .. (n - 1)
  BY DEF Slots
<1>2. plan' = <<>>
  <2>1. plan \in Seq(Row) /\ Len(plan) \in Nat
    BY DEF IInv, TypeOK
  <2>2. ~ (1 \in 1 .. Len(plan))
    BY DEF IInv, Plan
  <2>3. Len(plan) = 0
    BY <2>1, <2>2
  <2> QED BY <2>1, <2>3
<1>3. TypeOK'
  BY <1>1, <1>2 DEF TypeOK, IInv
<1>4. MapsAgree'
  BY <1>1 DEF MapsAgree, Ids, NoId, NoSlot
<1>5. Timestamps' /\ Protected' /\ Plan'
  BY <1>1, <1>2 DEF Timestamps, Protected, Plan
<1> QED BY <1>3, <1>4, <1>5 DEF IInv

\* Every step of the cache keeps the invariant, one case per action.
LEMMA StepIInv == IInv /\ [Next]_vars => IInv'
<1> SUFFICES ASSUME IInv, [Next]_vars PROVE IInv'
  OBVIOUS
<1>1. CASE Forward
  <2>1. PICK l \in Layers :
          materialize_layer(l) \/ \E X \in SUBSET Experts : ensure_experts(l, X)
    BY <1>1 DEF Forward
  <2>2. CASE materialize_layer(l)
    BY <2>2, StartIInv DEF materialize_layer
  <2>3. CASE \E X \in SUBSET Experts : ensure_experts(l, X)
    BY <2>3, StartIInv DEF ensure_experts
  <2> QED BY <2>1, <2>2, <2>3
<1>2. CASE Rebuild
  <2>1. PICK n \in CacheSizes : rebuild(n)
    BY <1>2 DEF Rebuild
  <2> QED BY <2>1, EmptyIInv DEF rebuild
<1>3. CASE reset
  <2>1. cacheSize \in CacheSizes
    BY DEF IInv, TypeOK
  <2> QED BY <1>3, <2>1, EmptyIInv DEF reset
<1>4. CASE UNCHANGED vars
  <2>1. Slots' = Slots
    BY <1>4 DEF vars, Slots
  <2> QED
    BY <1>4, <2>1 DEF vars, IInv, TypeOK, MapsAgree, Protected, Timestamps, Plan, Hot
<1> QED
  BY <1>1, <1>2, <1>3, <1>4, PlaceIInv, FinishIInv, CopyRowIInv, CopyDoneIInv,
     GatherIInv DEF Next

-----------------------------------------------------------------------------
(***************************************************************************)
(* The theorems.                                                           *)
(***************************************************************************)
LEMMA IInvGather == IInv => GatherReadsRightExpert
<1> SUFFICES ASSUME IInv, pc = "gather", NEW e \in call.experts
             PROVE  slotForId[flat_id(call.layer, e)] # NoSlot
                      /\ bank[slotForId[flat_id(call.layer, e)]] = flat_id(call.layer, e)
  BY DEF GatherReadsRightExpert
<1> DEFINE id == flat_id(call.layer, e)
           s == slotForId[id]
<1>1. e \in Experts /\ call.layer \in Layers /\ call.todo = {}
  BY DEF IInv, TypeOK, Protected
<1>2. id \in Ids
  BY <1>1, FlatIdRange
<1>3. s # NoSlot
  BY <1>1 DEF IInv, Protected
<1> HIDE DEF id
<1>4. s \in Slots
  BY <1>2, <1>3 DEF IInv, TypeOK
<1>5. idOfSlot[s] = id /\ id # NoId
  BY <1>2, <1>4, Markers DEF IInv, MapsAgree
<1>6. ~ \E i \in 1 .. Len(plan) : plan[i].slot = s
  BY DEF IInv, Plan
<1>7. bank[s] = id
  BY <1>4, <1>5, <1>6 DEF IInv, Plan
<1> QED BY <1>3, <1>7 DEF id

\* The invariant gives ResidentBytes: it is one of its parts.
LEMMA IInvBytes == IInv => ResidentBytes
  BY DEF IInv, Plan, ResidentBytes

\* The invariant gives RoomBeforeEviction: an empty slot has usage 0, a used one more.
LEMMA IInvRoom == IInv => RoomBeforeEviction
<1> SUFFICES ASSUME IInv, NEW s \in Slots, lru_slot(s)
             PROVE  (\E t \in Slots : idOfSlot[t] = NoId) <=> idOfSlot[s] = NoId
  BY DEF RoomBeforeEviction
<1>1. \A t \in Slots : usage[t] \in Nat /\ usage[s] <= usage[t]
                         /\ ((usage[t] = 0) <=> (idOfSlot[t] = NoId))
  BY DEF lru_slot, IInv, TypeOK, Timestamps
<1> QED BY <1>1

\* The invariant holds in every reachable state of the cache.
LEMMA Inductive == Spec => []IInv
  BY InitIInv, StepIInv, PTL DEF Spec

\* Every variable of the slot cache keeps its type, for every pool size the
\* constructor accepts.
THEOREM TypeCorrect == Spec => []TypeOK
<1>1. IInv => TypeOK
  BY DEF IInv
<1> QED BY <1>1, Inductive, PTL

\* slot_for_id and id_of_slot never disagree, in the middle of a call either.
THEOREM MapsAlwaysAgree == Spec => []MapsAgree
<1>1. IInv => MapsAgree
  BY DEF IInv
<1> QED BY <1>1, Inductive, PTL

\* A resident expert's slot holds that expert's weights whenever no copy is
\* under way.
THEOREM BytesMatch == Spec => []ResidentBytes
  BY IInvBytes, Inductive, PTL

\* The forward gathers the right weights for every expert it routes to, however
\* layers share the pool, as long as the pool holds one layer.
THEOREM GatherCorrect == Spec => []GatherReadsRightExpert
  BY IInvGather, Inductive, PTL

\* Comparing timestamps is enough to use empty slots first.
THEOREM EvictsOnlyWhenFull == Spec => []RoomBeforeEviction
  BY IInvRoom, Inductive, PTL

-----------------------------------------------------------------------------
(***************************************************************************)
(* The recurrent states: the invariant.                                    *)
(***************************************************************************)
\* Where a request can be, and its record.
RequestPhases == {"new", "refused", "prefill", "decode", "finished", "aborted"}
PoolSlots == 1 .. (3 * MaxRunningReq)
RequestRecords ==
  [phase : RequestPhases, row : Linear!Rows \union {Linear!NoSlot},
   live : PoolSlots \union {Linear!NoSlot}, track : Seq(PoolSlots),
   restore : PoolSlots \union {Linear!NoSlot}, ids : Seq(Int), promptLen : Nat,
   cached : Nat, done : Nat, anchorLen : Nat, tracked : BOOLEAN]

StatesTyped ==
  /\ linear_freeSlots \in Seq(PoolSlots)
  /\ linear_state \in [Linear!Slots -> Seq(Int)]
  /\ DOMAIN linear_snapshots \subseteq Seq(Int)
  /\ \A p \in DOMAIN linear_snapshots : linear_snapshots[p] \in PoolSlots
  /\ linear_freeRows \subseteq Linear!Rows
  /\ linear_req \in [Requests -> RequestRecords]
  /\ \A r \in Requests : Linear!Live(r) =>
       /\ linear_req[r].live \in PoolSlots
       /\ linear_req[r].row \in Linear!Rows
       /\ Len(linear_req[r].track) = 2
  /\ linear_aborts \in 0 .. MaxAborts

\* What a state is folded onto.
Origins == [state : Seq(Int), at : Nat, restores : Nat]
HistoriesTyped ==
  /\ linear_origin \in [Requests -> Origins]
  /\ DOMAIN linear_frozen = DOMAIN linear_snapshots
  /\ \A p \in DOMAIN linear_frozen : linear_frozen[p] \in Origins
  /\ linear_lost \subseteq DOMAIN linear_snapshots

\* The three slots of a request.
Own(q) == {q.live, q.track[1], q.track[2]}

\* A slot of the pool is in one place: once on the free list, or one of the
\* three different slots of one live request.
SlotsApart ==
  /\ \A i, j \in 1 .. Len(linear_freeSlots) :
       linear_freeSlots[i] = linear_freeSlots[j] => i = j
  /\ \A r \in Requests : Linear!Live(r) =>
       /\ linear_req[r].live # linear_req[r].track[1]
       /\ linear_req[r].live # linear_req[r].track[2]
       /\ linear_req[r].track[1] # linear_req[r].track[2]
       /\ \A i \in 1 .. Len(linear_freeSlots) : linear_freeSlots[i] \notin Own(linear_req[r])
  /\ \A r, q \in Requests : Linear!Live(r) /\ Linear!Live(q) /\ r # q =>
       \A s \in Own(linear_req[r]) : s \notin Own(linear_req[q])

\* Unless the abort of its own request has given it away, a registered slot is
\* on no free list, and no request's but the first track slot of the one that
\* registered it.
RegisteredApart ==
  \A p \in DOMAIN linear_snapshots \ linear_lost :
    /\ \A i \in 1 .. Len(linear_freeSlots) : linear_freeSlots[i] # linear_snapshots[p]
    /\ \A r \in Requests : Linear!Live(r) =>
         /\ linear_snapshots[p] # linear_req[r].live
         /\ linear_snapshots[p] # linear_req[r].track[2]
         /\ linear_snapshots[p] = linear_req[r].track[1] => linear_req[r].tracked

\* What is remembered as the place of an opener is one.
AnchorsAreOpeners ==
  /\ \A p \in DOMAIN linear_snapshots : Len(p) > 0 /\ p[Len(p)] = Opener
  /\ \A r \in Requests :
       /\ linear_req[r].anchorLen <= Len(linear_req[r].ids)
       /\ linear_req[r].anchorLen > 0 =>
            linear_req[r].ids[linear_req[r].anchorLen] = Opener

\* How far a request is: a prompt has tokens left, and the last token is the
\* only one not forwarded while decoding.
Progress ==
  \A r \in Requests : Linear!Live(r) =>
    LET q == linear_req[r] IN
    /\ q.cached <= q.done
    /\ q.done < Len(q.ids)
    /\ q.phase = "prefill" => q.promptLen = Len(q.ids)
    /\ q.phase = "decode" => q.done = Len(q.ids) - 1

\* A request restored no more than once folds onto its cached prefix: the first
\* restore comes before anything else is folded.
OneRestore ==
  \A r \in Requests : Linear!Live(r) =>
    LET q == linear_req[r]
        o == linear_origin[r]
    IN  /\ o.restores <= 1 => o.at = q.cached
        /\ q.phase = "prefill" /\ q.restore # Linear!NoSlot /\ o.restores = 0 => q.done = q.cached

\* A state is what it came from, then the tokens after that one up to the n-th.
IsHistory(st, from, ids, n) ==
  /\ from.at <= n
  /\ st = from.state \o SubSeq(ids, from.at + 1, n)
Folded ==
  \A r \in Requests : Linear!Live(r) =>
    LET q == linear_req[r] IN
    IsHistory(linear_state[q.live], linear_origin[r], q.ids, q.done)

\* A snapshot whose slot was not given away stands for exactly its key.
SnapshotsEnd ==
  \A p \in DOMAIN linear_snapshots \ linear_lost :
    /\ linear_frozen[p].at < Len(p)
    /\ IsHistory(linear_state[linear_snapshots[p]], linear_frozen[p], p, Len(p))

StatesInv ==
  /\ StatesTyped
  /\ HistoriesTyped
  /\ OneRestore
  /\ SlotsApart
  /\ RegisteredApart
  /\ AnchorsAreOpeners
  /\ Progress
  /\ Folded
  /\ SnapshotsEnd

-----------------------------------------------------------------------------
(***************************************************************************)
(* States as sequences of tokens.                                          *)
(***************************************************************************)
\* Folding the next tokens of a request into its state.
LEMMA FoldMore ==
  ASSUME NEW st \in Seq(Int), NEW from \in Origins, NEW ids \in Seq(Int),
         NEW d \in Nat, NEW n \in Nat, d <= n, n <= Len(ids), IsHistory(st, from, ids, d)
  PROVE  IsHistory(st \o SubSeq(ids, d + 1, n), from, ids, n)
<1> DEFINE k == from.at
           u == from.state
           a == SubSeq(ids, k + 1, d)
           b == SubSeq(ids, d + 1, n)
           m == Len(ids)
<1>1. k \in Nat /\ k <= d /\ u \in Seq(Int) /\ st = u \o a
  BY DEF IsHistory, Origins
<1>2. m \in Nat /\ \A i \in 1 .. m : ids[i] \in Int
  OBVIOUS
<1> HIDE DEF k, u
<1>3. a \in Seq(Int) /\ b \in Seq(Int)
  <2>1. \A i \in (k + 1) .. d : ids[i] \in Int
    BY <1>1, <1>2
  <2>2. \A i \in (d + 1) .. n : ids[i] \in Int
    BY <1>2
  <2> HIDE DEF m
  <2> QED
    BY <1>1, <2>1, <2>2, SubSeqProperties
<1>4. a \o b = SubSeq(ids, k + 1, n)
  <2>1. k + 1 \in 1 .. m + 1 /\ d \in (k + 1) - 1 .. m /\ n \in d .. m
    BY <1>1, <1>2
  <2> HIDE DEF m
  <2> QED
    BY <2>1, ConcatAdjacentSubSeq DEF m
<1> HIDE DEF a, b
<1>5. st \o b = u \o SubSeq(ids, k + 1, n)
  <2>1. (u \o a) \o b = u \o (a \o b)
    BY <1>1, <1>3, ConcatAssociative, SMTT(40)
  <2> QED
    BY <1>1, <1>4, <2>1
<1>6. k <= n
  BY <1>1
<1> QED
  BY <1>5, <1>6 DEF IsHistory, k, u, b

\* Nothing was folded onto it yet.
LEMMA NothingFolded ==
  ASSUME NEW from \in Origins
  PROVE  \A ids : IsHistory(from.state, from, ids, from.at)
<1>1. from.at \in Nat /\ from.state \in Seq(Int)
  BY DEF Origins
<1>2. ASSUME NEW ids PROVE SubSeq(ids, from.at + 1, from.at) = <<>>
  BY <1>1, SubSeqEmpty
<1>3. from.state \o <<>> = from.state
  BY <1>1, ConcatEmptySeq
<1>4. from.at <= from.at
  BY <1>1
<1> QED
  BY <1>2, <1>3, <1>4 DEF IsHistory

\* A token appended behind them does not change the tokens before.
LEMMA TokensBefore ==
  ASSUME NEW s \in Seq(Int), NEW tok \in Int, NEW k \in Nat, k < Len(s)
  PROVE  SubSeq(Append(s, tok), k + 1, Len(s)) = SubSeq(s, k + 1, Len(s))
<1> DEFINE ids == Append(s, tok)
           n == Len(s)
           a == SubSeq(ids, k + 1, n)
           b == SubSeq(s, k + 1, n)
<1>1. n \in Nat /\ k + 1 <= n /\ \A i \in 1 .. n : s[i] \in Int
  OBVIOUS
<1>2. \A i \in 1 .. n : ids[i] = s[i]
  BY AppendProperties, SMTT(40)
<1> HIDE DEF ids, n
<1>3. \A i \in (k + 1) .. n : ids[i] = s[i] /\ s[i] \in Int
  BY <1>1, <1>2
<1>4. a \in Seq(Int) /\ Len(a) = n - k /\ \A i \in 1 .. n - (k + 1) + 1 : a[i] = ids[(k + 1) + i - 1]
  <2>1. \A i \in (k + 1) .. n : ids[i] \in Int
    BY <1>3
  <2>2. /\ a \in Seq(Int)
        /\ Len(a) = IF k + 1 <= n THEN n - (k + 1) + 1 ELSE 0
        /\ \A i \in 1 .. n - (k + 1) + 1 : a[i] = ids[(k + 1) + i - 1]
    BY <1>1, <2>1, SubSeqProperties
  <2> HIDE DEF a
  <2> QED
    BY <1>1, <2>2
<1>5. b \in Seq(Int) /\ Len(b) = n - k /\ \A i \in 1 .. n - (k + 1) + 1 : b[i] = s[(k + 1) + i - 1]
  <2>1. \A i \in (k + 1) .. n : s[i] \in Int
    BY <1>3
  <2>2. /\ b \in Seq(Int)
        /\ Len(b) = IF k + 1 <= n THEN n - (k + 1) + 1 ELSE 0
        /\ \A i \in 1 .. n - (k + 1) + 1 : b[i] = s[(k + 1) + i - 1]
    BY <1>1, <2>1, SubSeqProperties
  <2> HIDE DEF b
  <2> QED
    BY <1>1, <2>2
<1> HIDE DEF a, b
<1>6. \A i \in 1 .. Len(a) : a[i] = b[i]
  <2> TAKE i \in 1 .. Len(a)
  <2>1. i \in 1 .. n - (k + 1) + 1 /\ (k + 1) + i - 1 \in (k + 1) .. n
    BY <1>1, <1>4
  <2> QED
    BY <1>3, <1>4, <1>5, <2>1
<1>7. a = b
  BY <1>4, <1>5, <1>6, SeqEqual
<1> QED
  BY <1>7 DEF a, b, ids, n

\* The naturals are well ordered, so the row that is taken is a free one.
LEMMA RowIsFree ==
  ASSUME NEW T \in SUBSET Nat, T # {}
  PROVE  Linear!Min(T) \in T
<1> DEFINE R == {ss \in Nat \X Nat : ss[1] < ss[2]}
<1>1. IsWellFoundedOn(R, Nat)
  BY NatLessThanWellFounded DEF OpToRel
<1>2. PICK x \in T : \A y \in T : ~ (<<y, x>> \in R)
  <2> HIDE DEF R
  <2> QED
    BY <1>1, WFMin
<1>3. ASSUME NEW y \in T PROVE x <= y
  <2>1. x \in Nat /\ y \in Nat
    OBVIOUS
  <2>2. <<y, x>> \notin R
    BY <1>2
  <2> QED
    BY <2>1, <2>2
<1> QED
  BY <1>3 DEF Linear!Min

\* Whole pages are not more than there is.
LEMMA PagesOf ==
  ASSUME MemoryAssumption, NEW n \in Nat
  PROVE  Linear!align_down(n) \in 0 .. n
<1>1. PageSize \in Nat \ {0}
  BY DEF MemoryAssumption, Linear!LinearAssumption
<1> DEFINE d == n \div PageSize
           m == n % PageSize
<1>2. d \in Int /\ m \in 0 .. (PageSize - 1) /\ n = (PageSize * d) + m
  BY <1>1
<1>3. d >= 0
  <2>1. SUFFICES ASSUME d <= -1 PROVE FALSE
    BY <1>2
  <2>2. PageSize * d <= PageSize * (-1)
    <3> HIDE DEF d, m
    <3> QED
      BY <1>1, <1>2, <2>1
  <2>3. PageSize * (-1) = - PageSize
    BY <1>1
  <2> HIDE DEF d, m
  <2>4. PageSize * d \in Int
    BY <1>1, <1>2
  <2> QED
    BY <1>1, <1>2, <2>2, <2>3, <2>4
<1>4. PageSize * d >= 0
  <2> HIDE DEF d, m
  <2> QED
    BY <1>1, <1>2, <1>3
<1>5. n - m \in 0 .. n
  <2> HIDE DEF d
  <2>1. PageSize * d \in Int
    BY <1>1, <1>2
  <2> HIDE DEF m
  <2> QED
    BY <1>1, <1>2, <1>4, <2>1
<1> QED
  BY <1>5 DEF Linear!align_down

-----------------------------------------------------------------------------
(***************************************************************************)
(* Taking slots and giving them back.                                      *)
(***************************************************************************)
\* What the constants are.
LEMMA StateConstants ==
  ASSUME MemoryAssumption
  PROVE  /\ MaxRunningReq \in Nat \ {0} /\ MaxExtend \in Nat \ {0} /\ MaxAborts \in Nat
         /\ Prompts \subseteq Seq(Int) \ {<<>>} /\ Sampled \subseteq Int /\ Opener \in Int
         /\ PoolSlots \subseteq Linear!Slots \ {0}
         /\ Linear!NoSlot = -1 /\ -1 \notin PoolSlots
  BY DEF MemoryAssumption, Linear!LinearAssumption, PoolSlots, Linear!Slots, Linear!NumSlots,
     Linear!NoSlot

\* alloc(3) pops the last three slots of the free list.
LEMMA ThreeSlots ==
  ASSUME NEW f \in Seq(PoolSlots), Len(f) >= 3
  PROVE  LET rest  == SubSeq(f, 1, Len(f) - 3)
             slots == Linear!Reverse(SubSeq(f, Len(f) - 3 + 1, Len(f)))
         IN  /\ rest \in Seq(PoolSlots)
             /\ Tail(slots) \in Seq(PoolSlots) /\ Len(Tail(slots)) = 2
             /\ \E a, b, c \in 1 .. Len(f) :
                  /\ a # b /\ a # c /\ b # c
                  /\ slots[1] = f[a] /\ Tail(slots)[1] = f[b] /\ Tail(slots)[2] = f[c]
                  /\ \A i \in 1 .. Len(rest) :
                       i \in 1 .. Len(f) /\ i # a /\ i # b /\ i # c /\ rest[i] = f[i]
<1> DEFINE rest  == SubSeq(f, 1, Len(f) - 3)
           last  == SubSeq(f, Len(f) - 3 + 1, Len(f))
           slots == Linear!Reverse(last)
           n == Len(f)
<1>1. n \in Nat /\ n >= 3 /\ \A i \in 1 .. n : f[i] \in PoolSlots
  OBVIOUS
<1>2. /\ rest \in Seq(PoolSlots) /\ Len(rest) = n - 3
      /\ \A i \in 1 .. n - 3 : rest[i] = f[i]
  <2> HIDE DEF n
  <2>1. \A i \in 1 .. (n - 3) : f[i] \in PoolSlots
    BY <1>1
  <2>2. /\ SubSeq(f, 1, n - 3) \in Seq(PoolSlots)
        /\ Len(SubSeq(f, 1, n - 3)) = IF 1 <= n - 3 THEN n - 3 - 1 + 1 ELSE 0
        /\ \A i \in 1 .. (n - 3 - 1 + 1) : SubSeq(f, 1, n - 3)[i] = f[1 + i - 1]
    BY <1>1, <2>1, SubSeqProperties
  <2>3. rest = SubSeq(f, 1, n - 3)
    BY DEF n
  <2> HIDE DEF rest
  <2>4. ASSUME NEW i \in 1 .. n - 3 PROVE rest[i] = f[i]
    <3>1. i \in 1 .. (n - 3 - 1 + 1) /\ 1 + i - 1 = i
      BY <1>1
    <3> QED
      BY <2>2, <2>3, <3>1
  <2> QED
    BY <1>1, <2>2, <2>3, <2>4
<1>3. last \in Seq(PoolSlots) /\ Len(last) = 3 /\ \A i \in 1 .. 3 : last[i] = f[n - 3 + i]
  <2> HIDE DEF n
  <2>1. \A i \in (n - 3 + 1) .. n : f[i] \in PoolSlots
    BY <1>1
  <2>2. /\ SubSeq(f, n - 3 + 1, n) \in Seq(PoolSlots)
        /\ Len(SubSeq(f, n - 3 + 1, n)) = IF n - 3 + 1 <= n THEN n - (n - 3 + 1) + 1 ELSE 0
        /\ \A i \in 1 .. (n - (n - 3 + 1) + 1) : SubSeq(f, n - 3 + 1, n)[i] = f[(n - 3 + 1) + i - 1]
    BY <1>1, <2>1, SubSeqProperties
  <2>3. last = SubSeq(f, n - 3 + 1, n)
    BY DEF n
  <2> HIDE DEF last
  <2>4. ASSUME NEW i \in 1 .. 3 PROVE last[i] = f[n - 3 + i]
    <3>1. i \in 1 .. (n - (n - 3 + 1) + 1) /\ (n - 3 + 1) + i - 1 = n - 3 + i
      BY <1>1
    <3> QED
      BY <2>2, <2>3, <3>1
  <2> QED
    BY <1>1, <2>2, <2>3, <2>4
<1>4. slots \in Seq(PoolSlots) /\ Len(slots) = 3 /\ \A i \in 1 .. 3 : slots[i] = last[3 - i + 1]
  <2>1. slots = [i \in 1 .. 3 |-> last[(3 - i) + 1]]
    BY <1>3 DEF Linear!Reverse
  <2>2. \A i \in 1 .. 3 : last[(3 - i) + 1] \in PoolSlots
    BY <1>3
  <2> HIDE DEF slots, last
  <2> QED
    BY <2>1, <2>2
<1>5. slots[1] = f[n] /\ slots[2] = f[n - 1] /\ slots[3] = f[n - 2]
  <2>1. slots[1] = last[3] /\ slots[2] = last[2] /\ slots[3] = last[1]
    BY <1>4
  <2>2. last[3] = f[n - 3 + 3] /\ last[2] = f[n - 3 + 2] /\ last[1] = f[n - 3 + 1]
    BY <1>3
  <2>3. n - 3 + 3 = n /\ n - 3 + 2 = n - 1 /\ n - 3 + 1 = n - 2
    BY <1>1
  <2> HIDE DEF slots, last, n
  <2> QED
    BY <2>1, <2>2, <2>3
<1> HIDE DEF slots, rest, n
<1>6. /\ Tail(slots) \in Seq(PoolSlots) /\ Len(Tail(slots)) = 2
      /\ Tail(slots)[1] = slots[2] /\ Tail(slots)[2] = slots[3]
  <2>1. slots \in Seq(PoolSlots) /\ Len(slots) = 3
    BY <1>4
  <2>2. Len(<<>>) = 0
    BY EmptySeq
  <2>3. slots # <<>>
    BY <2>1, <2>2
  <2> DEFINE t == Tail(slots)
  <2>4. /\ t \in Seq(PoolSlots) /\ Len(t) = Len(slots) - 1
        /\ \A i \in 1 .. Len(t) : t[i] = slots[i + 1]
    BY <2>1, <2>3, HeadTailProperties
  <2> HIDE DEF t
  <2>5. Len(t) = 2
    BY <2>1, <2>4
  <2>6. 1 \in 1 .. Len(t) /\ 2 \in 1 .. Len(t)
    BY <2>5
  <2>7. t[1] = slots[1 + 1] /\ t[2] = slots[2 + 1]
    BY <2>4, <2>6
  <2>8. t[1] = slots[2] /\ t[2] = slots[3]
    BY <2>7
  <2> QED
    BY <2>4, <2>5, <2>8 DEF t
<1>7. /\ n \in 1 .. n /\ n - 1 \in 1 .. n /\ n - 2 \in 1 .. n
      /\ n # n - 1 /\ n # n - 2 /\ n - 1 # n - 2
      /\ \A i \in 1 .. Len(rest) : i \in 1 .. n /\ i # n /\ i # n - 1 /\ i # n - 2 /\ rest[i] = f[i]
  BY <1>1, <1>2
<1>8. \E a, b, c \in 1 .. n :
        /\ a # b /\ a # c /\ b # c
        /\ slots[1] = f[a] /\ Tail(slots)[1] = f[b] /\ Tail(slots)[2] = f[c]
        /\ \A i \in 1 .. Len(rest) : i \in 1 .. n /\ i # a /\ i # b /\ i # c /\ rest[i] = f[i]
  <2> DEFINE a == n
             b == n - 1
             c == n - 2
             t == Tail(slots)
  <2>1. a \in 1 .. n /\ b \in 1 .. n /\ c \in 1 .. n /\ a # b /\ a # c /\ b # c
    BY <1>7
  <2>2. slots[1] = f[a] /\ t[1] = f[b] /\ t[2] = f[c]
    BY <1>5, <1>6
  <2>3. \A i \in 1 .. Len(rest) : i \in 1 .. n /\ i # a /\ i # b /\ i # c /\ rest[i] = f[i]
    BY <1>7
  <2> HIDE DEF a, b, c, t
  <2>4. \E x, y, z \in 1 .. n :
          /\ x # y /\ x # z /\ y # z
          /\ slots[1] = f[x] /\ t[1] = f[y] /\ t[2] = f[z]
          /\ \A i \in 1 .. Len(rest) : i \in 1 .. n /\ i # x /\ i # y /\ i # z /\ rest[i] = f[i]
    <3> USE <2>1
    <3> WITNESS a \in 1 .. n, b \in 1 .. n, c \in 1 .. n
    <3> QED
      BY <2>2, <2>3
  <2> QED
    BY <2>4 DEF t
<1> QED
  BY <1>2, <1>6, <1>8 DEF rest, slots, last, n

\* A sequence and one element more, written out.
LEMMA PairAndTriple ==
  ASSUME NEW S, NEW a \in S, NEW b \in S, NEW c \in S
  PROVE  Append(<<a>>, b) = <<a, b>> /\ Append(<<a, b>>, c) = <<a, b, c>>
<1>1. Append(<<a>>, b) = <<a, b>>
  <2> DEFINE s == <<a>>
             t == <<a, b>>
             u == Append(s, b)
  <2>0. s \in Seq(S)
    OBVIOUS
  <2>1. Len(s) = 1 /\ s[1] = a
    OBVIOUS
  <2>2. t \in Seq(S) /\ Len(t) = 2 /\ t[1] = a /\ t[2] = b
    OBVIOUS
  <2> HIDE DEF s
  <2>3. /\ u \in Seq(S) /\ Len(u) = Len(s) + 1
        /\ \A i \in 1 .. Len(s) : u[i] = s[i]
        /\ u[Len(s) + 1] = b
    BY <2>0, AppendProperties
  <2> HIDE DEF t, u
  <2>4. Len(u) = 2 /\ u[1] = a /\ u[2] = b
    BY <2>1, <2>3
  <2>5. \A i \in 1 .. Len(u) : u[i] = t[i]
    BY <2>2, <2>4
  <2>6. u = t
    BY <2>2, <2>3, <2>4, <2>5, SeqEqual
  <2> QED
    BY <2>6 DEF s, t, u
<1>2. Append(<<a, b>>, c) = <<a, b, c>>
  <2> DEFINE s == <<a, b>>
             t == <<a, b, c>>
             u == Append(s, c)
  <2>0. s \in Seq(S)
    OBVIOUS
  <2>1. Len(s) = 2 /\ s[1] = a /\ s[2] = b
    OBVIOUS
  <2>2. t \in Seq(S) /\ Len(t) = 3 /\ t[1] = a /\ t[2] = b /\ t[3] = c
    OBVIOUS
  <2> HIDE DEF s
  <2>3. /\ u \in Seq(S) /\ Len(u) = Len(s) + 1
        /\ \A i \in 1 .. Len(s) : u[i] = s[i]
        /\ u[Len(s) + 1] = c
    BY <2>0, AppendProperties
  <2> HIDE DEF t, u
  <2>4. Len(u) = 3 /\ u[1] = a /\ u[2] = b /\ u[3] = c
    BY <2>1, <2>3
  <2>5. \A i \in 1 .. Len(u) : u[i] = t[i]
    BY <2>2, <2>4
  <2>6. u = t
    BY <2>2, <2>3, <2>4, <2>5, SeqEqual
  <2> QED
    BY <2>6 DEF s, t, u
<1> QED
  BY <1>1, <1>2

\* Joining sequences of at most one slot.
LEMMA JoinSlots ==
  ASSUME NEW S, NEW a \in S, NEW b \in S, NEW c \in S
  PROVE  /\ <<a>> \o <<>> \o <<c>> = <<a, c>>
         /\ <<a>> \o <<b>> \o <<>> = <<a, b>>
         /\ <<a>> \o <<b>> \o <<c>> = <<a, b, c>>
<1>1. <<a>> \in Seq(S) /\ <<a, b>> \in Seq(S)
  OBVIOUS
<1>2. <<a>> \o <<>> = <<a>> /\ <<a, b>> \o <<>> = <<a, b>>
  BY <1>1, ConcatEmptySeq
<1>3. <<a>> \o <<b>> = <<a, b>> /\ <<a>> \o <<c>> = <<a, c>>
  <2>1. Append(<<a>>, b) = <<a>> \o <<b>> /\ Append(<<a>>, c) = <<a>> \o <<c>>
    BY <1>1, AppendIsConcat
  <2>2. Append(<<a>>, b) = <<a, b>> /\ Append(<<a>>, c) = <<a, c>>
    BY PairAndTriple
  <2> QED
    BY <2>1, <2>2
<1>4. <<a, b>> \o <<c>> = <<a, b, c>>
  <2>1. Append(<<a, b>>, c) = <<a, b>> \o <<c>>
    BY <1>1, AppendIsConcat
  <2>2. Append(<<a, b>>, c) = <<a, b, c>>
    BY PairAndTriple
  <2> QED
    BY <2>1, <2>2
<1> QED
  BY <1>2, <1>3, <1>4

\* What a request that ends gives back: its own slots, each once, but for the
\* track slots that are registered.
LEMMA FreedSlots ==
  ASSUME NEW q \in RequestRecords, q.live \in PoolSlots, Len(q.track) = 2,
         q.live # q.track[1], q.live # q.track[2], q.track[1] # q.track[2], NEW snaps
  PROVE  LET f == Linear!to_free(q, snaps) IN
         /\ f \in Seq(PoolSlots)
         /\ \A i \in 1 .. Len(f) : f[i] \in Own(q)
         /\ \A i, j \in 1 .. Len(f) : f[i] = f[j] => i = j
         /\ \A i \in 1 .. Len(f), p \in DOMAIN snaps : f[i] = snaps[p] => f[i] = q.live
<1> DEFINE f == Linear!to_free(q, snaps)
           u(s) == IF s \in {snaps[p] : p \in DOMAIN snaps} THEN <<>> ELSE <<s>>
           t1 == q.track[1]
           t2 == q.track[2]
           l == q.live
<1>1. l \in PoolSlots /\ t1 \in PoolSlots /\ t2 \in PoolSlots
  BY DEF RequestRecords
<1>2. f = <<l>> \o u(t1) \o u(t2)
  BY DEF Linear!to_free
<1>3. l # t1 /\ l # t2 /\ t1 # t2 /\ Own(q) = {l, t1, t2}
  BY DEF Own
<1>4. CASE t1 \in {snaps[p] : p \in DOMAIN snaps} /\ t2 \in {snaps[p] : p \in DOMAIN snaps}
  <2>1. f = <<l>>
    BY <1>1, <1>2, <1>4
  <2> HIDE DEF f, t1, t2, l
  <2> QED
    BY <1>1, <1>3, <1>4, <2>1 DEF f, l
<1>5. CASE t1 \in {snaps[p] : p \in DOMAIN snaps} /\ t2 \notin {snaps[p] : p \in DOMAIN snaps}
  <2>0. u(t1) = <<>> /\ u(t2) = <<t2>>
    BY <1>5
  <2> HIDE DEF u, f, t1, t2, l
  <2>3. f = <<l>> \o <<>> \o <<t2>>
    BY <1>2, <2>0
  <2>1. f = <<l, t2>>
    BY <1>1, <2>3, JoinSlots
  <2>2. \A p \in DOMAIN snaps : t2 # snaps[p]
    BY <1>5
  <2> QED
    BY <1>1, <1>3, <2>1, <2>2 DEF f, l
<1>6. CASE t1 \notin {snaps[p] : p \in DOMAIN snaps} /\ t2 \in {snaps[p] : p \in DOMAIN snaps}
  <2>0. u(t1) = <<t1>> /\ u(t2) = <<>>
    BY <1>6
  <2> HIDE DEF u, f, t1, t2, l
  <2>3. f = <<l>> \o <<t1>> \o <<>>
    BY <1>2, <2>0
  <2>1. f = <<l, t1>>
    BY <1>1, <2>3, JoinSlots
  <2>2. \A p \in DOMAIN snaps : t1 # snaps[p]
    BY <1>6
  <2> QED
    BY <1>1, <1>3, <2>1, <2>2 DEF f, l
<1>7. CASE t1 \notin {snaps[p] : p \in DOMAIN snaps} /\ t2 \notin {snaps[p] : p \in DOMAIN snaps}
  <2>0. u(t1) = <<t1>> /\ u(t2) = <<t2>>
    BY <1>7
  <2> HIDE DEF u, f, t1, t2, l
  <2>3. f = <<l>> \o <<t1>> \o <<t2>>
    BY <1>2, <2>0
  <2>1. f = <<l, t1, t2>>
    BY <1>1, <2>3, JoinSlots, ZenonT(60)
  <2>2. \A p \in DOMAIN snaps : t1 # snaps[p] /\ t2 # snaps[p]
    BY <1>7
  <2> QED
    BY <1>1, <1>3, <2>1, <2>2 DEF f, l
<1> QED
  BY <1>4, <1>5, <1>6, <1>7

\* A request that no longer lives gives slots of its own back.
LEMMA GivenBack ==
  ASSUME StatesTyped, SlotsApart, NEW r \in Requests, Linear!Live(r), NEW f \in Seq(PoolSlots),
         \A i \in 1 .. Len(f) : f[i] \in Own(linear_req[r]),
         \A i, j \in 1 .. Len(f) : f[i] = f[j] => i = j,
         linear_freeSlots' = linear_freeSlots \o f,
         ~ Linear!Live(r)', \A x \in Requests \ {r} : linear_req'[x] = linear_req[x]
  PROVE  /\ SlotsApart'
         /\ linear_freeSlots' \in Seq(PoolSlots)
         /\ \A i \in 1 .. Len(linear_freeSlots') :
              \/ i \in 1 .. Len(linear_freeSlots) /\ linear_freeSlots'[i] = linear_freeSlots[i]
              \/ \E j \in 1 .. Len(f) : i = Len(linear_freeSlots) + j /\ linear_freeSlots'[i] = f[j]
<1> DEFINE old == linear_freeSlots
           new == linear_freeSlots'
<1>1. old \in Seq(PoolSlots) /\ Len(old) \in Nat /\ Len(f) \in Nat
  BY DEF StatesTyped
<1>2. /\ new \in Seq(PoolSlots) /\ Len(new) = Len(old) + Len(f)
      /\ \A i \in 1 .. Len(old) + Len(f) : new[i] = IF i <= Len(old) THEN old[i] ELSE f[i - Len(old)]
  BY <1>1, ConcatProperties
<1> HIDE DEF old, new
<1>3. \A i \in 1 .. Len(new) :
        \/ i \in 1 .. Len(old) /\ new[i] = old[i]
        \/ \E j \in 1 .. Len(f) : i = Len(old) + j /\ new[i] = f[j]
  <2> TAKE i \in 1 .. Len(new)
  <2>1. CASE i <= Len(old)
    BY <1>1, <1>2, <2>1
  <2>2. CASE i > Len(old)
    <3>1. i - Len(old) \in 1 .. Len(f) /\ i = Len(old) + (i - Len(old)) /\ new[i] = f[i - Len(old)]
      BY <1>1, <1>2, <2>2
    <3> QED
      BY <3>1
  <2> QED
    BY <1>1, <1>2, <2>1, <2>2
<1>4. \A i \in 1 .. Len(old), j \in 1 .. Len(f) : old[i] # f[j]
  BY DEF SlotsApart, old
<1>5. \A i, j \in 1 .. Len(new) : new[i] = new[j] => i = j
  <2> SUFFICES ASSUME NEW i \in 1 .. Len(new), NEW j \in 1 .. Len(new), new[i] = new[j]
               PROVE  i = j
    OBVIOUS
  <2>1. CASE i \in 1 .. Len(old) /\ new[i] = old[i] /\ j \in 1 .. Len(old) /\ new[j] = old[j]
    BY <2>1, ZenonT(60) DEF SlotsApart, old
  <2>2. CASE \E a \in 1 .. Len(f) : i = Len(old) + a /\ new[i] = f[a]
    <3>1. PICK a \in 1 .. Len(f) : i = Len(old) + a /\ new[i] = f[a]
      BY <2>2
    <3>2. PICK b \in 1 .. Len(f) : j = Len(old) + b /\ new[j] = f[b]
      BY <1>3, <1>4, <3>1
    <3> QED
      BY <3>1, <3>2
  <2>3. CASE \E a \in 1 .. Len(f) : j = Len(old) + a /\ new[j] = f[a]
    <3>1. PICK a \in 1 .. Len(f) : j = Len(old) + a /\ new[j] = f[a]
      BY <2>3
    <3>2. PICK b \in 1 .. Len(f) : i = Len(old) + b /\ new[i] = f[b]
      BY <1>3, <1>4, <3>1, ZenonT(60)
    <3> QED
      BY <3>1, <3>2
  <2> QED
    BY <1>3, <2>1, <2>2, <2>3
<1>6. \A x \in Requests : Linear!Live(x)' =>
        x # r /\ Linear!Live(x) /\ linear_req'[x] = linear_req[x]
  BY DEF Linear!Live
<1>7. ASSUME NEW x \in Requests, Linear!Live(x)', NEW i \in 1 .. Len(new)
      PROVE  new[i] \notin Own(linear_req'[x])
  <2>1. x # r /\ Linear!Live(x) /\ linear_req'[x] = linear_req[x]
    BY <1>6, <1>7
  <2>2. CASE i \in 1 .. Len(old) /\ new[i] = old[i]
    BY <2>1, <2>2 DEF SlotsApart, old
  <2>3. CASE \E a \in 1 .. Len(f) : i = Len(old) + a /\ new[i] = f[a]
    <3>1. new[i] \in Own(linear_req[r])
      BY <2>3
    <3> QED
      BY <2>1, <3>1 DEF SlotsApart
  <2> QED
    BY <1>3, <2>2, <2>3
<1>8. SlotsApart'
  <2>1. \A x \in Requests : Linear!Live(x)' =>
          /\ linear_req'[x].live # linear_req'[x].track[1]
          /\ linear_req'[x].live # linear_req'[x].track[2]
          /\ linear_req'[x].track[1] # linear_req'[x].track[2]
    BY <1>6 DEF SlotsApart
  <2>2. \A x, y \in Requests : Linear!Live(x)' /\ Linear!Live(y)' /\ x # y =>
          \A s \in Own(linear_req'[x]) : s \notin Own(linear_req'[y])
    BY <1>6 DEF SlotsApart
  <2> QED
    BY <1>5, <1>7, <2>1, <2>2 DEF SlotsApart, Own, new
<1> QED
  BY <1>2, <1>3, <1>8 DEF old, new

-----------------------------------------------------------------------------
(***************************************************************************)
(* The steps.                                                              *)
(***************************************************************************)
\* The record of a request that was not yet submitted.
LEMMA NoRequestTyped == Linear!NoRequest \in RequestRecords
<1>1. <<>> \in Seq(PoolSlots) /\ <<>> \in Seq(Int)
  OBVIOUS
<1> QED
  BY <1>1 DEF Linear!NoRequest, RequestRecords, RequestPhases

\* Nothing went before the tokens of a request that is not there.
LEMMA NoOriginTyped == Linear!NoOrigin \in Origins
  BY EmptySeq DEF Linear!NoOrigin, Origins

\* Before the first request every slot is free.
LEMMA StatesInit == MemoryAssumption /\ Linear!Init => StatesInv
<1> SUFFICES ASSUME MemoryAssumption, Linear!Init PROVE StatesInv
  OBVIOUS
<1> USE StateConstants
<1>1. \A r \in Requests : linear_req[r] = Linear!NoRequest /\ ~ Linear!Live(r)
  BY DEF Linear!Init, Linear!Live, Linear!NoRequest
<1>2. linear_freeSlots = [i \in 1 .. (3 * MaxRunningReq) |-> i]
  BY DEF Linear!Init, Linear!NumSlots
<1>3. linear_freeSlots \in Seq(PoolSlots) /\ \A i \in 1 .. Len(linear_freeSlots) : linear_freeSlots[i] = i
  <2>1. 3 * MaxRunningReq \in Nat
    OBVIOUS
  <2> QED
    BY <1>2, <2>1 DEF PoolSlots
<1>5. StatesTyped
  <2>1. linear_req \in [Requests -> RequestRecords]
    BY NoRequestTyped DEF Linear!Init
  <2>2. linear_state \in [Linear!Slots -> Seq(Int)]
    BY DEF Linear!Init
  <2>3. DOMAIN linear_snapshots = {} /\ linear_freeRows = Linear!Rows /\ linear_aborts = 0
    BY DEF Linear!Init
  <2> QED
    BY <1>1, <1>3, <2>1, <2>2, <2>3 DEF StatesTyped
<1>6. DOMAIN linear_snapshots = {}
  BY DEF Linear!Init
<1>7. SlotsApart
  BY <1>1, <1>3 DEF SlotsApart
<1>8. AnchorsAreOpeners
  BY <1>1, <1>6 DEF AnchorsAreOpeners, Linear!NoRequest
<1>9. HistoriesTyped
  <2>1. linear_origin \in [Requests -> Origins]
    BY NoOriginTyped DEF Linear!Init
  <2>2. DOMAIN linear_frozen = {} /\ linear_lost = {}
    BY DEF Linear!Init
  <2> QED
    BY <1>6, <2>1, <2>2 DEF HistoriesTyped
<1> QED
  BY <1>1, <1>5, <1>6, <1>7, <1>8, <1>9
  DEF StatesInv, RegisteredApart, OneRestore, Progress, Folded, SnapshotsEnd

\* A request that is admitted takes three free slots and starts at its cached
\* prefix.
LEMMA AddKeepsStates ==
  ASSUME MemoryAssumption, StatesInv, NEW r \in Requests, NEW p \in Prompts,
         Linear!add_request(r, p)
  PROVE  StatesInv'
<1> USE StateConstants
<1> DEFINE f == linear_freeSlots
           slots == Linear!Reverse(SubSeq(f, Len(f) - 3 + 1, Len(f)))
           rest == SubSeq(f, 1, Len(f) - 3)
           t == Tail(slots)
<1>1. PICK n \in Linear!cached_lens(p) :
        /\ linear_req' = [linear_req EXCEPT ![r] =
                            Linear!admitted(p, n, slots, Linear!Min(linear_freeRows))]
        /\ linear_origin' = [linear_origin EXCEPT ![r] =
                               [state |-> linear_state[slots[1]], at |-> n, restores |-> 0]]
  BY DEF Linear!add_request, Linear!alloc
<1>2. /\ linear_freeSlots' = rest /\ Len(f) >= 3 /\ linear_freeRows # {}
      /\ linear_freeRows' = linear_freeRows \ {Linear!Min(linear_freeRows)}
      /\ linear_state' = linear_state /\ linear_snapshots' = linear_snapshots
      /\ linear_aborts' = linear_aborts
      /\ linear_frozen' = linear_frozen /\ linear_lost' = linear_lost
  BY DEF Linear!add_request, Linear!alloc_rest
<1>3. /\ f \in Seq(PoolSlots) /\ linear_req \in [Requests -> RequestRecords]
      /\ linear_freeRows \subseteq Linear!Rows
  BY DEF StatesInv, StatesTyped
<1>4. p \in Seq(Int) /\ p # <<>> /\ Len(p) \in Nat \ {0}
  OBVIOUS
<1>5. n \in 0 .. (Len(p) - 1)
  <2>1. \A m \in 1 .. (Len(p) - 1) : Linear!align_down(m) \in 0 .. (Len(p) - 1)
    <3> TAKE m \in 1 .. (Len(p) - 1)
    <3>1. m \in Nat
      BY <1>4
    <3>2. Linear!align_down(m) \in 0 .. m
      BY <3>1, PagesOf
    <3> QED
      BY <1>4, <3>2
  <2>2. n = 0 \/ \E m \in 1 .. (Len(p) - 1) : n = Linear!align_down(m)
    BY DEF Linear!cached_lens
  <2> QED
    BY <1>4, <2>1, <2>2
<1>6. Linear!Min(linear_freeRows) \in Linear!Rows
  <2>1. linear_freeRows \in SUBSET Nat
    BY <1>3 DEF Linear!Rows
  <2> QED
    BY <1>2, <1>3, <2>1, RowIsFree
<1>7. /\ rest \in Seq(PoolSlots)
      /\ t \in Seq(PoolSlots) /\ Len(t) = 2
      /\ \E a, b, c \in 1 .. Len(f) :
           /\ a # b /\ a # c /\ b # c
           /\ slots[1] = f[a] /\ t[1] = f[b] /\ t[2] = f[c]
           /\ \A i \in 1 .. Len(rest) :
                i \in 1 .. Len(f) /\ i # a /\ i # b /\ i # c /\ rest[i] = f[i]
  BY <1>2, <1>3, ThreeSlots
<1> DEFINE q == linear_req'[r]
           src == Linear!restore_src(p, n)
<1>8. /\ q.phase = "prefill" /\ q.row = Linear!Min(linear_freeRows) /\ q.ids = p
      /\ q.promptLen = Len(p) /\ q.cached = n /\ q.done = n /\ q.live = slots[1]
      /\ q.track = t /\ q.restore = src /\ q.anchorLen = 0 /\ q.tracked = FALSE
  <2>1. q = Linear!admitted(p, n, slots, Linear!Min(linear_freeRows))
    BY <1>1, <1>3
  <2> QED
    BY <2>1 DEF Linear!admitted, Linear!NoRequest
<1>9. \A x \in Requests \ {r} : linear_req'[x] = linear_req[x]
  BY <1>1, <1>3
<1>10. \A i \in 1 .. Len(f) : f[i] \in PoolSlots
  BY <1>3
<1> HIDE DEF t, slots, rest
<1> HIDE DEF q, f
<1>30. PICK a \in 1 .. Len(f), b \in 1 .. Len(f), c \in 1 .. Len(f) :
         /\ a # b /\ a # c /\ b # c
         /\ slots[1] = f[a] /\ t[1] = f[b] /\ t[2] = f[c]
         /\ \A i \in 1 .. Len(rest) :
              i \in 1 .. Len(f) /\ i # a /\ i # b /\ i # c /\ rest[i] = f[i]
  BY <1>7
<1>11. /\ a # b /\ a # c /\ b # c
       /\ q.live = f[a] /\ q.track[1] = f[b] /\ q.track[2] = f[c]
       /\ \A i \in 1 .. Len(rest) :
            i \in 1 .. Len(f) /\ i # a /\ i # b /\ i # c /\ rest[i] = f[i]
  <2>1. q.live = slots[1] /\ q.track = t
    BY <1>8
  <2>2. q.live = f[a] /\ q.track[1] = f[b] /\ q.track[2] = f[c]
    BY <1>30, <2>1
  <2> QED
    BY <1>30, <2>2
<1> USE DEF q, f
<1>12. src \in PoolSlots \union {Linear!NoSlot}
  <2>1. CASE n > 0 /\ SubSeq(p, 1, n) \in DOMAIN linear_snapshots
    <3>1. src = linear_snapshots[SubSeq(p, 1, n)]
      BY <2>1 DEF Linear!restore_src
    <3>2. src \in PoolSlots
      BY <2>1, <3>1 DEF StatesInv, StatesTyped
    <3> QED
      BY <3>2
  <2>2. CASE ~ (n > 0 /\ SubSeq(p, 1, n) \in DOMAIN linear_snapshots)
    BY <2>2 DEF Linear!restore_src
  <2> QED
    BY <2>1, <2>2
<1> HIDE DEF f, src
<1>13. /\ q \in RequestRecords /\ q.live \in PoolSlots /\ q.row \in Linear!Rows /\ Len(q.track) = 2
  <2> DEFINE row == Linear!Min(linear_freeRows)
             l == slots[1]
             m == Len(p)
  <2>1. /\ l \in PoolSlots /\ t \in Seq(PoolSlots) /\ row \in Linear!Rows
        /\ m \in Nat /\ n \in Nat /\ p \in Seq(Int)
    BY <1>4, <1>5, <1>6, <1>7, <1>8, <1>10, <1>11
  <2>2. Linear!admitted(p, n, slots, row) =
          [Linear!NoRequest EXCEPT !.phase = "prefill", !.row = row, !.ids = p,
             !.promptLen = m, !.cached = n, !.done = n, !.live = l, !.track = t,
             !.restore = src]
    BY DEF Linear!admitted, src, t
  <2>3. q = Linear!admitted(p, n, slots, row)
    BY <1>1, <1>3
  <2> HIDE DEF row, l, m, src
  <2>4. [Linear!NoRequest EXCEPT !.phase = "prefill", !.row = row, !.ids = p,
             !.promptLen = m, !.cached = n, !.done = n, !.live = l, !.track = t,
             !.restore = src] \in RequestRecords
    BY <1>12, <2>1, NoRequestTyped DEF RequestRecords, RequestPhases
  <2>5. q \in RequestRecords
    BY <2>2, <2>3, <2>4
  <2> QED
    BY <1>6, <1>7, <1>8, <1>10, <1>11, <2>5
<1> HIDE DEF q
<1>14. \A x \in Requests : x # r => (Linear!Live(x)' <=> Linear!Live(x)) /\ linear_req'[x] = linear_req[x]
  BY <1>9 DEF Linear!Live
<1>15. linear_req' \in [Requests -> RequestRecords]
  <2>1. linear_req' = [linear_req EXCEPT ![r] = q]
    BY <1>1, <1>3 DEF q
  <2> QED
    BY <1>3, <1>13, <2>1
<1>16. StatesTyped'
  <2>1. linear_freeRows' \subseteq Linear!Rows
    BY <1>2, <1>3
  <2>2. \A x \in Requests : Linear!Live(x)' =>
          /\ linear_req'[x].live \in PoolSlots
          /\ linear_req'[x].row \in Linear!Rows
          /\ Len(linear_req'[x].track) = 2
    <3> TAKE x \in Requests
    <3>1. CASE x = r
      BY <1>13, <3>1 DEF q
    <3>2. CASE x # r
      BY <1>14, <3>2 DEF StatesInv, StatesTyped
    <3> QED
      BY <3>1, <3>2
  <2> QED
    BY <1>2, <1>7, <1>15, <2>1, <2>2 DEF StatesInv, StatesTyped
<1>17. \A i, j \in 1 .. Len(f) : f[i] = f[j] => i = j
  BY DEF StatesInv, SlotsApart, f
<1>18. \A i \in 1 .. Len(rest) : i \in 1 .. Len(f) /\ rest[i] = f[i]
  BY <1>11
<1>20. SlotsApart'
  <2>1. q.live # q.track[1] /\ q.live # q.track[2] /\ q.track[1] # q.track[2]
    BY <1>11, <1>17, SMTT(40)
  <2>2. \A i \in 1 .. Len(rest) : rest[i] # q.live /\ rest[i] # q.track[1] /\ rest[i] # q.track[2]
    BY <1>11, <1>17
  <2>3. \A i, j \in 1 .. Len(rest) : rest[i] = rest[j] => i = j
    BY <1>17, <1>18
  <2>4. \A s \in Own(q) : \E i \in 1 .. Len(f) : s = f[i]
    BY <1>11 DEF Own
  <2>5. ASSUME NEW x \in Requests, x # r, Linear!Live(x)
        PROVE  /\ \A i \in 1 .. Len(f) : f[i] \notin Own(linear_req[x])
               /\ \A s \in Own(q) : s \notin Own(linear_req[x])
    <3>1. \A i \in 1 .. Len(f) : f[i] \notin Own(linear_req[x])
      BY <2>5 DEF StatesInv, SlotsApart, f
    <3> QED
      BY <2>4, <3>1
  <2>6. \A x \in Requests : Linear!Live(x)' =>
          /\ linear_req'[x].live # linear_req'[x].track[1]
          /\ linear_req'[x].live # linear_req'[x].track[2]
          /\ linear_req'[x].track[1] # linear_req'[x].track[2]
          /\ \A i \in 1 .. Len(rest) : rest[i] \notin Own(linear_req'[x])
    <3> TAKE x \in Requests
    <3>1. CASE x = r
      BY <2>1, <2>2, <3>1 DEF Own, q
    <3>2. CASE x # r
      <4>1. Linear!Live(x)' => \A i \in 1 .. Len(rest) : rest[i] \notin Own(linear_req'[x])
        BY <1>14, <1>18, <2>5, <3>2
      <4> QED
        BY <1>14, <3>2, <4>1 DEF StatesInv, SlotsApart
    <3> QED
      BY <3>1, <3>2
  <2>7. \A x, y \in Requests : Linear!Live(x)' /\ Linear!Live(y)' /\ x # y =>
          \A s \in Own(linear_req'[x]) : s \notin Own(linear_req'[y])
    <3> SUFFICES ASSUME NEW x \in Requests, NEW y \in Requests,
                        Linear!Live(x)', Linear!Live(y)', x # y,
                        NEW s \in Own(linear_req'[x])
                 PROVE  s \notin Own(linear_req'[y])
      OBVIOUS
    <3>1. CASE x = r
      BY <1>14, <2>5, <3>1 DEF q
    <3>2. CASE y = r
      BY <1>14, <2>5, <3>2 DEF q
    <3>3. CASE x # r /\ y # r
      BY <1>14, <3>3 DEF StatesInv, SlotsApart
    <3> QED
      BY <3>1, <3>2, <3>3
  <2> QED
    BY <1>2, <2>3, <2>6, <2>7, SMTT(40) DEF SlotsApart, Own
<1>21. RegisteredApart'
  <2> SUFFICES ASSUME NEW k \in DOMAIN linear_snapshots \ linear_lost
               PROVE  /\ \A i \in 1 .. Len(rest) : rest[i] # linear_snapshots[k]
                      /\ \A x \in Requests : Linear!Live(x)' =>
                           /\ linear_snapshots[k] # linear_req'[x].live
                           /\ linear_snapshots[k] # linear_req'[x].track[2]
                           /\ linear_snapshots[k] = linear_req'[x].track[1] => linear_req'[x].tracked
    BY <1>2 DEF RegisteredApart
  <2>1. \A i \in 1 .. Len(f) : f[i] # linear_snapshots[k]
    BY DEF StatesInv, RegisteredApart, f
  <2>2. \A i \in 1 .. Len(rest) : rest[i] # linear_snapshots[k]
    BY <1>18, <2>1
  <2>3. ASSUME NEW x \in Requests, Linear!Live(x)'
        PROVE  /\ linear_snapshots[k] # linear_req'[x].live
               /\ linear_snapshots[k] # linear_req'[x].track[2]
               /\ linear_snapshots[k] = linear_req'[x].track[1] => linear_req'[x].tracked
    <3>1. CASE x = r
      BY <1>11, <2>1, <3>1 DEF q
    <3>2. CASE x # r
      BY <1>14, <2>3, <3>2, SMTT(40) DEF StatesInv, RegisteredApart
    <3> QED
      BY <3>1, <3>2
  <2> QED
    BY <2>2, <2>3
<1>22. AnchorsAreOpeners'
  <2>1. \A x \in Requests :
          /\ linear_req'[x].anchorLen <= Len(linear_req'[x].ids)
          /\ linear_req'[x].anchorLen > 0 =>
               linear_req'[x].ids[linear_req'[x].anchorLen] = Opener
    <3> TAKE x \in Requests
    <3>1. CASE x = r
      BY <1>4, <1>8, <3>1, SMTT(40) DEF q
    <3>2. CASE x # r
      BY <1>14, <3>2 DEF StatesInv, AnchorsAreOpeners
    <3> QED
      BY <3>1, <3>2
  <2> QED
    BY <1>2, <2>1 DEF StatesInv, AnchorsAreOpeners
<1>23. Progress'
  <2>1. ASSUME NEW x \in Requests, Linear!Live(x)'
        PROVE  /\ linear_req'[x].cached <= linear_req'[x].done
               /\ linear_req'[x].done < Len(linear_req'[x].ids)
               /\ linear_req'[x].phase = "prefill" => linear_req'[x].promptLen = Len(linear_req'[x].ids)
               /\ linear_req'[x].phase = "decode" => linear_req'[x].done = Len(linear_req'[x].ids) - 1
    <3>1. CASE x = r
      <4>1. n < Len(p) /\ n <= n
        BY <1>4, <1>5
      <4>2. /\ q.cached <= q.done /\ q.done < Len(q.ids) /\ q.promptLen = Len(q.ids)
            /\ q.phase # "decode"
        BY <1>8, <4>1
      <4> QED
        BY <3>1, <4>2 DEF q
    <3>2. CASE x # r
      BY <1>14, <2>1, <3>2 DEF StatesInv, Progress
    <3> QED
      BY <3>1, <3>2
  <2> QED
    BY <2>1 DEF Progress
<1>27. /\ linear_origin'[r] = [state |-> linear_state[q.live], at |-> n, restores |-> 0]
       /\ linear_origin'[r].state = linear_state[q.live] /\ linear_origin'[r].at = n
       /\ linear_origin'[r].restores = 0
  <2>1. linear_origin'[r] = [state |-> linear_state[slots[1]], at |-> n, restores |-> 0]
    BY <1>1 DEF StatesInv, HistoriesTyped
  <2>2. q.live = slots[1]
    BY <1>8
  <2> QED
    BY <2>1, <2>2
<1>28. \A x \in Requests : x # r => linear_origin'[x] = linear_origin[x]
  BY <1>1 DEF StatesInv, HistoriesTyped
<1>26. linear_origin' \in [Requests -> Origins] /\ linear_origin'[r] \in Origins
  <2>1. linear_state[q.live] \in Seq(Int) /\ n \in Nat
    BY <1>5, <1>13 DEF StatesInv, StatesTyped
  <2>2. linear_origin'[r] \in Origins
    BY <1>27, <2>1 DEF Origins
  <2>3. linear_origin' = [linear_origin EXCEPT ![r] = linear_origin'[r]]
    BY <1>1 DEF StatesInv, HistoriesTyped
  <2> QED
    BY <2>2, <2>3 DEF StatesInv, HistoriesTyped
<1>24. Folded'
  <2>1. ASSUME NEW x \in Requests, Linear!Live(x)'
        PROVE  IsHistory(linear_state[linear_req'[x].live], linear_origin'[x],
                         linear_req'[x].ids, linear_req'[x].done)
    <3>1. CASE x = r
      BY <1>8, <1>26, <1>27, <3>1, NothingFolded DEF q
    <3>2. CASE x # r
      BY <1>14, <1>28, <2>1, <3>2 DEF StatesInv, Folded
    <3> QED
      BY <3>1, <3>2
  <2> QED
    BY <1>2, <2>1 DEF Folded, IsHistory
<1>25. SnapshotsEnd'
  BY <1>2 DEF StatesInv, SnapshotsEnd, IsHistory
<1>29. HistoriesTyped'
  BY <1>2, <1>26, <1>28 DEF StatesInv, HistoriesTyped
<1>31. OneRestore'
  <2>1. ASSUME NEW x \in Requests, Linear!Live(x)'
        PROVE  /\ linear_origin'[x].restores <= 1 => linear_origin'[x].at = linear_req'[x].cached
               /\ linear_req'[x].phase = "prefill" /\ linear_req'[x].restore # Linear!NoSlot
                    /\ linear_origin'[x].restores = 0 =>
                  linear_req'[x].done = linear_req'[x].cached
    <3>1. CASE x = r
      BY <1>8, <1>27, <3>1 DEF q
    <3>2. CASE x # r
      BY <1>14, <1>28, <2>1, <3>2 DEF StatesInv, OneRestore
    <3> QED
      BY <3>1, <3>2
  <2> QED
    BY <2>1 DEF OneRestore
<1> QED
  BY <1>16, <1>20, <1>21, <1>22, <1>23, <1>24, <1>25, <1>29, <1>31 DEF StatesInv

\* A request that is refused takes nothing.
LEMMA RefuseKeepsStates ==
  ASSUME StatesInv, NEW r \in Requests, Linear!add_request_no_slots(r)
  PROVE  StatesInv'
<1>1. /\ linear_req' = [linear_req EXCEPT ![r].phase = "refused"] /\ linear_req[r].phase = "new"
      /\ UNCHANGED <<linear_freeSlots, linear_state, linear_snapshots, linear_freeRows, linear_aborts>>
      /\ UNCHANGED <<linear_origin, linear_frozen, linear_lost>>
  BY DEF Linear!add_request_no_slots, Linear!histories
<1>2. linear_req \in [Requests -> RequestRecords]
  BY DEF StatesInv, StatesTyped
<1>3. linear_req' \in [Requests -> RequestRecords]
  <2>1. [linear_req[r] EXCEPT !.phase = "refused"] \in RequestRecords
    BY <1>2 DEF RequestRecords, RequestPhases
  <2> QED
    BY <1>1, <1>2, <2>1
<1>4. \A x \in Requests : /\ Linear!Live(x)' <=> Linear!Live(x)
                          /\ Linear!Live(x) => linear_req'[x] = linear_req[x]
                          /\ linear_req'[x].ids = linear_req[x].ids
                          /\ linear_req'[x].anchorLen = linear_req[x].anchorLen
  <2> TAKE x \in Requests
  <2>1. CASE x = r
    <3>1. linear_req'[r] = [linear_req[r] EXCEPT !.phase = "refused"]
      BY <1>1, <1>2
    <3> QED
      BY <1>1, <1>2, <2>1, <3>1 DEF Linear!Live, RequestRecords
  <2>2. CASE x # r
    BY <1>1, <1>2, <2>2 DEF Linear!Live
  <2> QED
    BY <2>1, <2>2
<1>5. StatesTyped'
  BY <1>1, <1>3, <1>4, SMTT(40) DEF StatesInv, StatesTyped
<1>6. SlotsApart'
  BY <1>1, <1>4 DEF StatesInv, SlotsApart, Own
<1>7. RegisteredApart'
  BY <1>1, <1>4 DEF StatesInv, RegisteredApart
<1>8. AnchorsAreOpeners'
  BY <1>1, <1>4 DEF StatesInv, AnchorsAreOpeners
<1>9. Progress'
  BY <1>1, <1>4 DEF StatesInv, Progress
<1>10. Folded'
  <2>1. ASSUME NEW x \in Requests, Linear!Live(x)'
        PROVE  IsHistory(linear_state'[linear_req'[x].live], linear_origin'[x],
                         linear_req'[x].ids, linear_req'[x].done)
    <3>1. Linear!Live(x) /\ linear_req'[x] = linear_req[x] /\ linear_state' = linear_state
          /\ linear_origin' = linear_origin
      BY <1>1, <1>4, <2>1
    <3> QED
      BY <3>1 DEF StatesInv, Folded
  <2> QED
    BY <2>1 DEF Folded, IsHistory
<1>11. SnapshotsEnd'
  BY <1>1 DEF StatesInv, SnapshotsEnd, IsHistory
<1>12. HistoriesTyped'
  BY <1>1 DEF StatesInv, HistoriesTyped
<1>13. OneRestore'
  BY <1>1, <1>4 DEF StatesInv, OneRestore
<1> QED
  BY <1>5, <1>6, <1>7, <1>8, <1>9, <1>10, <1>11, <1>12, <1>13 DEF StatesInv

\* What the slots of a request are to the others and to the snapshots.
LEMMA OwnSlots ==
  ASSUME StatesInv, NEW r \in Requests, Linear!Live(r)
  PROVE  LET q == linear_req[r] IN
         /\ q \in RequestRecords /\ q.live \in PoolSlots /\ Len(q.track) = 2
         /\ q.track[1] \in PoolSlots /\ q.track[2] \in PoolSlots
         /\ q.live # q.track[1] /\ q.live # q.track[2] /\ q.track[1] # q.track[2]
         /\ \A x \in Requests : Linear!Live(x) /\ x # r =>
              linear_req[x].live # q.live /\ linear_req[x].live # q.track[1]
         /\ \A p \in DOMAIN linear_snapshots \ linear_lost :
              /\ linear_snapshots[p] # q.live
              /\ linear_snapshots[p] # q.track[2]
              /\ ~ q.tracked => linear_snapshots[p] # q.track[1]
<1> DEFINE q == linear_req[r]
<1>1. q \in RequestRecords /\ q.live \in PoolSlots /\ Len(q.track) = 2
  BY DEF StatesInv, StatesTyped
<1>2. q.track[1] \in PoolSlots /\ q.track[2] \in PoolSlots
  BY <1>1 DEF RequestRecords
<1>3. q.live # q.track[1] /\ q.live # q.track[2] /\ q.track[1] # q.track[2]
  BY DEF StatesInv, SlotsApart
<1>4. \A x \in Requests : Linear!Live(x) /\ x # r =>
        linear_req[x].live # q.live /\ linear_req[x].live # q.track[1]
  BY DEF StatesInv, SlotsApart, Own
<1>5. \A p \in DOMAIN linear_snapshots \ linear_lost :
        /\ linear_snapshots[p] # q.live
        /\ linear_snapshots[p] # q.track[2]
        /\ ~ q.tracked => linear_snapshots[p] # q.track[1]
  BY DEF StatesInv, RegisteredApart
<1> QED
  BY <1>1, <1>2, <1>3, <1>4, <1>5

\* Where a live request is in its tokens.
LEMMA WhereItIs ==
  ASSUME StatesInv, NEW r \in Requests, Linear!Live(r)
  PROVE  LET q == linear_req[r]
             n == Len(q.ids)
         IN  /\ q.ids \in Seq(Int) /\ n \in Nat /\ q.cached \in Nat /\ q.done \in Nat
             /\ q.cached <= q.done /\ q.done < n /\ q.cached < n
             /\ \A i \in 1 .. n : q.ids[i] \in Int
<1> DEFINE q == linear_req[r]
           ids == q.ids
           n == Len(ids)
           c == q.cached
           d == q.done
<1>1. q \in RequestRecords
  BY DEF StatesInv, StatesTyped
<1>2. ids \in Seq(Int) /\ c \in Nat /\ d \in Nat
  BY <1>1 DEF RequestRecords
<1>3. c <= d /\ d < n
  BY DEF StatesInv, Progress
<1> HIDE DEF ids, c, d
<1>4. n \in Nat /\ \A i \in 1 .. n : ids[i] \in Int
  BY <1>2
<1> HIDE DEF n
<1>5. c < n
  BY <1>2, <1>3, <1>4
<1> QED
  BY <1>2, <1>3, <1>4, <1>5 DEF ids, n, c, d

\* The part of a step after the forward, whatever the forward made of the state
\* of the slot, if that is a state with its tokens up to the last one.
LEMMA SampleKeepsStates ==
  ASSUME MemoryAssumption, StatesInv, NEW r \in Requests, Linear!Live(r),
         NEW st \in [Linear!Slots -> Seq(Int)],
         \A s \in Linear!Slots : s # linear_req[r].live => st[s] = linear_state[s],
         NEW from \in Origins, from.at < Len(linear_req[r].ids),
         from.restores <= 1 => from.at = linear_req[r].cached,
         IsHistory(st[linear_req[r].live], from, linear_req[r].ids, Len(linear_req[r].ids)),
         NEW tok \in Sampled, Linear!sample(r, st, from, tok), linear_aborts' = linear_aborts
  PROVE  /\ StatesInv'
         /\ \A p \in DOMAIN linear_snapshots \ linear_lost : linear_snapshots'[p] = linear_snapshots[p] =>
                linear_state'[linear_snapshots[p]] = linear_state[linear_snapshots[p]]
<1> USE StateConstants
<1> DEFINE q == linear_req[r]
           ids == Append(q.ids, tok)
           len == Linear!anchor_len(q, tok)
           due == Linear!snapshot_due(q, len, ids)
           key == SubSeq(ids, 1, len)
           snaps == IF due THEN [p \in DOMAIN linear_snapshots \union {key} |->
                                   IF p = key THEN q.track[1] ELSE linear_snapshots[p]]
                    ELSE linear_snapshots
           stop == Linear!stops(q, ids, tok)
           next == [q EXCEPT !.phase = IF stop THEN "finished" ELSE "decode",
                             !.ids = ids, !.done = Len(q.ids), !.restore = Linear!NoSlot,
                             !.anchorLen = len, !.tracked = q.tracked \/ due]
           f == Linear!to_free(q, snaps)
<1>1. /\ linear_state' = IF due THEN [st EXCEPT ![q.track[1]] = st[q.live]] ELSE st
      /\ linear_snapshots' = snaps
      /\ linear_req' = [linear_req EXCEPT ![r] = next]
      /\ linear_freeSlots' = IF stop THEN linear_freeSlots \o f ELSE linear_freeSlots
      /\ linear_freeRows' = IF stop THEN linear_freeRows \union {q.row} ELSE linear_freeRows
  BY DEF Linear!sample
<1>30. /\ linear_origin' = [linear_origin EXCEPT ![r] = IF stop THEN Linear!NoOrigin ELSE from]
       /\ linear_frozen' = IF due THEN [p \in DOMAIN snaps |-> IF p = key THEN from ELSE linear_frozen[p]]
                           ELSE linear_frozen
       /\ linear_lost' = IF due THEN linear_lost \ {key} ELSE linear_lost
  BY DEF Linear!sample
<1>2. /\ q \in RequestRecords /\ q.live \in PoolSlots /\ Len(q.track) = 2
      /\ q.track[1] \in PoolSlots /\ q.track[2] \in PoolSlots
      /\ q.live # q.track[1] /\ q.live # q.track[2] /\ q.track[1] # q.track[2]
      /\ \A x \in Requests : Linear!Live(x) /\ x # r =>
           linear_req[x].live # q.live /\ linear_req[x].live # q.track[1]
      /\ \A p \in DOMAIN linear_snapshots \ linear_lost :
           /\ linear_snapshots[p] # q.live
           /\ ~ q.tracked => linear_snapshots[p] # q.track[1]
  BY OwnSlots
<1>3. /\ q.ids \in Seq(Int) /\ Len(q.ids) \in Nat /\ tok \in Int
      /\ q.cached \in Nat /\ q.done \in Nat /\ q.anchorLen \in Nat /\ q.tracked \in BOOLEAN
      /\ q.cached <= q.done /\ q.done < Len(q.ids)
      /\ q.anchorLen <= Len(q.ids) /\ (q.anchorLen > 0 => q.ids[q.anchorLen] = Opener)
  <2>1. /\ q.ids \in Seq(Int) /\ q.cached \in Nat /\ q.done \in Nat /\ q.anchorLen \in Nat
        /\ q.tracked \in BOOLEAN
    BY <1>2 DEF RequestRecords
  <2>2. q.cached <= q.done /\ q.done < Len(q.ids)
    BY DEF StatesInv, Progress
  <2>3. q.anchorLen <= Len(q.ids) /\ (q.anchorLen > 0 => q.ids[q.anchorLen] = Opener)
    BY DEF StatesInv, AnchorsAreOpeners
  <2> HIDE DEF q
  <2>4. Len(q.ids) \in Nat /\ tok \in Int
    BY <2>1
  <2> QED
    BY <2>1, <2>2, <2>3, <2>4
<1>4. /\ ids \in Seq(Int) /\ Len(ids) = Len(q.ids) + 1 /\ ids[Len(q.ids) + 1] = tok
      /\ \A i \in 1 .. Len(q.ids) : ids[i] = q.ids[i]
  <2>1. q.ids \in Seq(Int) /\ tok \in Int
    BY <1>3
  <2> HIDE DEF q
  <2> QED
    BY <2>1, AppendProperties, SMTT(40)
<1>5. len \in Nat /\ len <= Len(ids) /\ (len > 0 => ids[len] = Opener)
  <2>1. CASE tok = Opener /\ q.anchorLen = 0
    <3>1. len = Len(q.ids) + 1
      BY <2>1 DEF Linear!anchor_len
    <3> QED
      BY <1>3, <1>4, <2>1, <3>1
  <2>2. CASE ~ (tok = Opener /\ q.anchorLen = 0)
    <3>1. len = q.anchorLen
      BY <2>2 DEF Linear!anchor_len
    <3>2. len > 0 => len \in 1 .. Len(q.ids)
      BY <1>3, <3>1
    <3>3. len > 0 => ids[len] = Opener
      BY <1>3, <1>4, <3>1, <3>2
    <3>4. len \in Nat /\ len <= Len(ids)
      <4> DEFINE m == Len(q.ids)
                 a == q.anchorLen
                 g == Len(ids)
      <4>1. m \in Nat /\ a \in Nat /\ a <= m
        BY <1>3
      <4>2. g = m + 1 /\ len = a
        BY <1>4, <3>1
      <4> HIDE DEF m, a, g, len
      <4>3. len \in Nat /\ len <= g
        BY <4>1, <4>2
      <4> QED
        BY <4>3 DEF g
    <3> QED
      BY <3>3, <3>4
  <2> QED
    BY <2>1, <2>2
<1>6. due => ~ q.tracked /\ len = Len(q.ids) /\ len > 0
  BY <1>3, <1>4, <1>5, SMTT(40) DEF Linear!snapshot_due
<1>31. q.ids \in Seq(Int) /\ tok \in Int /\ SubSeq(ids, 1, Len(q.ids)) = q.ids
  <2> DEFINE a == q.ids
  <2>1. a \in Seq(Int) /\ tok \in Int /\ 0 < Len(a)
    BY <1>3
  <2> HIDE DEF a
  <2>2. SubSeq(Append(a, tok), 0 + 1, Len(a)) = SubSeq(a, 0 + 1, Len(a))
    BY <2>1, TokensBefore
  <2>3. SubSeq(a, 1, Len(a)) = a
    BY <2>1, SubSeqFull
  <2>4. SubSeq(Append(a, tok), 1, Len(a)) = a
    BY <2>2, <2>3
  <2> QED
    BY <2>1, <2>4 DEF a
<1>7. due => key = q.ids /\ key \in Seq(Int) /\ Len(key) > 0 /\ key[Len(key)] = Opener
  <2> SUFFICES ASSUME due
               PROVE  key = q.ids /\ key \in Seq(Int) /\ Len(key) > 0 /\ key[Len(key)] = Opener
    OBVIOUS
  <2>1. len = Len(q.ids) /\ len > 0
    BY <1>6
  <2>2. ids[len] = Opener
    BY <1>5, <2>1
  <2> HIDE DEF ids, len, due
  <2>3. key = q.ids
    BY <1>31, <2>1
  <2>4. Len(q.ids) \in 1 .. Len(q.ids)
    BY <1>3, <2>1
  <2>5. ids[Len(q.ids)] = q.ids[Len(q.ids)]
    BY <1>4, <2>4
  <2> HIDE DEF key
  <2> QED
    BY <1>3, <2>1, <2>2, <2>3, <2>5
<1> HIDE DEF due, key, len, stop, ids
<1>8. \A p \in DOMAIN snaps :
        \/ due /\ p = key /\ snaps[p] = q.track[1]
        \/ ~ (due /\ p = key) /\ p \in DOMAIN linear_snapshots /\ snaps[p] = linear_snapshots[p]
  BY DEF snaps
<1>32. \A p \in DOMAIN snaps :
         \/ due /\ p = key /\ linear_frozen'[p] = from
         \/ ~ (due /\ p = key) /\ p \in DOMAIN linear_snapshots /\ linear_frozen'[p] = linear_frozen[p]
            /\ (p \in linear_lost' <=> p \in linear_lost)
  <2> TAKE p \in DOMAIN snaps
  <2>1. CASE due
    <3>1. linear_frozen'[p] = IF p = key THEN from ELSE linear_frozen[p]
      <4> HIDE DEF snaps
      <4> QED
        BY <1>30, <2>1
    <3> QED
      BY <1>8, <1>30, <2>1, <3>1
  <2>2. CASE ~ due
    BY <1>8, <1>30, <2>2
  <2> QED
    BY <2>1, <2>2
<1>33. DOMAIN linear_frozen' = DOMAIN snaps /\ linear_lost' \subseteq DOMAIN snaps
  <2>1. DOMAIN linear_frozen = DOMAIN linear_snapshots /\ linear_lost \subseteq DOMAIN linear_snapshots
    BY DEF StatesInv, HistoriesTyped
  <2>2. CASE due
    <3>1. DOMAIN snaps = DOMAIN linear_snapshots \union {key}
      BY <2>2 DEF snaps
    <3> HIDE DEF snaps
    <3>2. DOMAIN linear_frozen' = DOMAIN snaps
      BY <1>30, <2>2
    <3> QED
      BY <1>30, <2>1, <2>2, <3>1, <3>2
  <2>3. CASE ~ due
    BY <1>30, <2>1, <2>3
  <2> QED
    BY <2>2, <2>3
<1>9. \A p \in DOMAIN linear_snapshots : p \in DOMAIN snaps
  BY DEF snaps
<1>10. due => \A p \in DOMAIN linear_snapshots : snaps[p] = IF p = key THEN q.track[1] ELSE linear_snapshots[p]
  BY DEF snaps
<1> HIDE DEF snaps
<1> DEFINE q2 == linear_req'[r]
<1>11. linear_req \in [Requests -> RequestRecords]
  BY DEF StatesInv, StatesTyped
<1>12. q2 = next /\ \A x \in Requests \ {r} : linear_req'[x] = linear_req[x]
  BY <1>1, <1>11
<1>13. /\ q2.phase = (IF stop THEN "finished" ELSE "decode")
       /\ q2.row = q.row /\ q2.live = q.live /\ q2.track = q.track
       /\ q2.restore = Linear!NoSlot /\ q2.ids = ids /\ q2.promptLen = q.promptLen
       /\ q2.cached = q.cached /\ q2.done = Len(q.ids) /\ q2.anchorLen = len
       /\ q2.tracked = (q.tracked \/ due)
  <2> HIDE DEF q2
  <2> QED
    BY <1>2, <1>12 DEF RequestRecords
<1>14. q2 \in RequestRecords
  <2>1. next \in RequestRecords
    <3>1. (IF stop THEN "finished" ELSE "decode") \in RequestPhases
      BY DEF RequestPhases
    <3>2. (q.tracked \/ due) \in BOOLEAN
      OBVIOUS
    <3> DEFINE phase == IF stop THEN "finished" ELSE "decode"
               tracked == q.tracked \/ due
    <3> HIDE DEF phase, tracked
    <3>3. [q EXCEPT !.phase = phase, !.ids = ids, !.done = Len(q.ids), !.restore = Linear!NoSlot,
                    !.anchorLen = len, !.tracked = tracked] \in RequestRecords
      <4>1. phase \in RequestPhases /\ tracked \in BOOLEAN
        BY <3>1, <3>2 DEF phase, tracked
      <4> QED
        BY <1>2, <1>3, <1>4, <1>5, <4>1 DEF RequestRecords
    <3> QED
      BY <3>3 DEF phase, tracked
  <2> QED
    BY <1>12, <2>1
<1>15. linear_req' \in [Requests -> RequestRecords]
  BY <1>1, <1>11, <1>12, <1>14
<1> HIDE DEF q2, next
<1>16. \A x \in Requests : x # r => (Linear!Live(x)' <=> Linear!Live(x)) /\ linear_req'[x] = linear_req[x]
  BY <1>12 DEF Linear!Live
<1>17. Linear!Live(r)' <=> ~ stop
  BY <1>13 DEF Linear!Live, q2
<1>18. /\ f \in Seq(PoolSlots)
       /\ \A i \in 1 .. Len(f) : f[i] \in Own(q)
       /\ \A i, j \in 1 .. Len(f) : f[i] = f[j] => i = j
       /\ \A i \in 1 .. Len(f), p \in DOMAIN snaps : f[i] = snaps[p] => f[i] = q.live
  BY <1>2, FreedSlots
<1> HIDE DEF f
<1>19. linear_freeSlots' \in Seq(PoolSlots) /\ SlotsApart'
       /\ \A i \in 1 .. Len(linear_freeSlots'), p \in DOMAIN snaps :
            linear_freeSlots'[i] = snaps[p] =>
              \/ \E j \in 1 .. Len(linear_freeSlots) : linear_freeSlots[j] = snaps[p]
              \/ snaps[p] = q.live
  <2>1. CASE stop
    <3>1. linear_freeSlots' = linear_freeSlots \o f
      BY <1>1, <2>1
    <3>2. /\ SlotsApart'
          /\ linear_freeSlots' \in Seq(PoolSlots)
          /\ \A i \in 1 .. Len(linear_freeSlots') :
               \/ i \in 1 .. Len(linear_freeSlots) /\ linear_freeSlots'[i] = linear_freeSlots[i]
               \/ \E j \in 1 .. Len(f) : i = Len(linear_freeSlots) + j /\ linear_freeSlots'[i] = f[j]
      BY <1>12, <1>17, <1>18, <2>1, <3>1, GivenBack DEF StatesInv
    <3>3. ASSUME NEW i \in 1 .. Len(linear_freeSlots'), NEW p \in DOMAIN snaps,
                 linear_freeSlots'[i] = snaps[p]
          PROVE  \/ \E j \in 1 .. Len(linear_freeSlots) : linear_freeSlots[j] = snaps[p]
                 \/ snaps[p] = q.live
      <4>1. CASE i \in 1 .. Len(linear_freeSlots) /\ linear_freeSlots'[i] = linear_freeSlots[i]
        BY <3>3, <4>1
      <4>2. CASE \E j \in 1 .. Len(f) : linear_freeSlots'[i] = f[j]
        BY <1>18, <3>3, <4>2
      <4> QED
        BY <3>2, <4>1, <4>2
    <3> QED
      BY <3>2, <3>3
  <2>2. CASE ~ stop
    <3>1. linear_freeSlots' = linear_freeSlots
      BY <1>1, <2>2
    <3>2. \A x \in Requests : Linear!Live(x)' =>
            Linear!Live(x) /\ linear_req'[x].live = linear_req[x].live
            /\ linear_req'[x].track = linear_req[x].track
      BY <1>13, <1>16 DEF q2
    <3>3. \A x \in Requests : Linear!Live(x)' => Own(linear_req'[x]) = Own(linear_req[x])
      BY <3>2 DEF Own
    <3>4. \A x \in Requests : Linear!Live(x)' =>
            /\ linear_req'[x].live # linear_req'[x].track[1]
            /\ linear_req'[x].live # linear_req'[x].track[2]
            /\ linear_req'[x].track[1] # linear_req'[x].track[2]
            /\ \A i \in 1 .. Len(linear_freeSlots) : linear_freeSlots[i] \notin Own(linear_req'[x])
      BY <3>2, <3>3 DEF StatesInv, SlotsApart
    <3>5. \A x, y \in Requests : Linear!Live(x)' /\ Linear!Live(y)' /\ x # y =>
            \A s \in Own(linear_req'[x]) : s \notin Own(linear_req'[y])
      BY <3>2, <3>3 DEF StatesInv, SlotsApart
    <3>6. \A i, j \in 1 .. Len(linear_freeSlots) :
            linear_freeSlots[i] = linear_freeSlots[j] => i = j
      BY SMTT(40) DEF StatesInv, SlotsApart
    <3>7. SlotsApart'
      BY <3>1, <3>4, <3>5, <3>6 DEF SlotsApart, Own
    <3> QED
      BY <3>1, <3>7 DEF StatesInv, StatesTyped
  <2> QED
    BY <2>1, <2>2
<1>20. StatesTyped'
  <2>1. linear_state' \in [Linear!Slots -> Seq(Int)]
    BY <1>1, <1>2
  <2>2. DOMAIN linear_snapshots' \subseteq Seq(Int)
    BY <1>1, <1>7, <1>8 DEF StatesInv, StatesTyped
  <2>3. \A p \in DOMAIN linear_snapshots' : linear_snapshots'[p] \in PoolSlots
    BY <1>1, <1>2, <1>8 DEF StatesInv, StatesTyped
  <2>4. q.row \in Linear!Rows
    BY DEF StatesInv, StatesTyped
  <2>5. linear_freeRows' \subseteq Linear!Rows
    BY <1>1, <2>4 DEF StatesInv, StatesTyped
  <2>6. \A x \in Requests : Linear!Live(x)' =>
          /\ linear_req'[x].live \in PoolSlots
          /\ linear_req'[x].row \in Linear!Rows
          /\ Len(linear_req'[x].track) = 2
    <3> TAKE x \in Requests
    <3>1. CASE x = r
      BY <1>2, <1>13, <2>4, <3>1 DEF q2
    <3>2. CASE x # r
      BY <1>16, <3>2 DEF StatesInv, StatesTyped
    <3> QED
      BY <3>1, <3>2
  <2>7. linear_aborts' \in 0 .. MaxAborts
    BY DEF StatesInv, StatesTyped
  <2> QED
    BY <1>15, <1>19, <2>1, <2>2, <2>3, <2>5, <2>6, <2>7 DEF StatesTyped
<1>21. RegisteredApart'
  <2> SUFFICES ASSUME NEW p \in DOMAIN snaps, p \notin linear_lost'
               PROVE  /\ \A i \in 1 .. Len(linear_freeSlots') : linear_freeSlots'[i] # snaps[p]
                      /\ \A x \in Requests : Linear!Live(x)' =>
                           /\ snaps[p] # linear_req'[x].live
                           /\ snaps[p] # linear_req'[x].track[2]
                           /\ snaps[p] = linear_req'[x].track[1] => linear_req'[x].tracked
    BY <1>1 DEF RegisteredApart
  <2>1. CASE due /\ p = key /\ snaps[p] = q.track[1]
    <3>1. \A i \in 1 .. Len(linear_freeSlots) : linear_freeSlots[i] # q.track[1]
      BY DEF StatesInv, SlotsApart, Own
    <3>2. \A i \in 1 .. Len(linear_freeSlots') : linear_freeSlots'[i] # snaps[p]
      <4>1. snaps[p] # q.live /\ \A j \in 1 .. Len(linear_freeSlots) : linear_freeSlots[j] # snaps[p]
        BY <1>2, <2>1, <3>1
      <4> QED
        BY <1>19, <4>1
    <3>3. ASSUME NEW x \in Requests, Linear!Live(x)', x # r
          PROVE  q.track[1] # linear_req'[x].live /\ q.track[1] # linear_req'[x].track[1]
                 /\ q.track[1] # linear_req'[x].track[2]
      BY <1>16, <3>3, SMTT(40) DEF StatesInv, SlotsApart, Own
    <3>4. /\ snaps[p] # q2.live /\ snaps[p] # q2.track[2] /\ q2.tracked
      BY <1>2, <1>13, <2>1
    <3> QED
      BY <2>1, <3>2, <3>3, <3>4 DEF q2
  <2>2. CASE ~ (due /\ p = key) /\ p \in DOMAIN linear_snapshots /\ snaps[p] = linear_snapshots[p]
    <3>0. p \in DOMAIN linear_snapshots \ linear_lost
      BY <1>32, <2>2
    <3>1. /\ \A i \in 1 .. Len(linear_freeSlots) : linear_freeSlots[i] # snaps[p]
          /\ \A x \in Requests : Linear!Live(x) =>
               /\ snaps[p] # linear_req[x].live
               /\ snaps[p] # linear_req[x].track[2]
               /\ snaps[p] = linear_req[x].track[1] => linear_req[x].tracked
      BY <2>2, <3>0 DEF StatesInv, RegisteredApart
    <3>2. \A i \in 1 .. Len(linear_freeSlots') : linear_freeSlots'[i] # snaps[p]
      BY <1>19, <3>1
    <3>3. /\ snaps[p] # q2.live /\ snaps[p] # q2.track[2]
          /\ snaps[p] = q2.track[1] => q2.tracked
      BY <1>13, <3>1, ZenonT(60)
    <3> QED
      BY <1>16, <3>1, <3>2, <3>3 DEF q2
  <2> QED
    BY <1>8, <2>1, <2>2
<1>22. AnchorsAreOpeners'
  <2>1. \A p \in DOMAIN snaps : Len(p) > 0 /\ p[Len(p)] = Opener
    <3> TAKE p \in DOMAIN snaps
    <3>1. CASE due /\ p = key
      BY <1>7, <3>1
    <3>2. CASE p \in DOMAIN linear_snapshots
      BY <3>2 DEF StatesInv, AnchorsAreOpeners
    <3> QED
      BY <1>8, <3>1, <3>2
  <2>2. \A x \in Requests :
          /\ linear_req'[x].anchorLen <= Len(linear_req'[x].ids)
          /\ linear_req'[x].anchorLen > 0 =>
               linear_req'[x].ids[linear_req'[x].anchorLen] = Opener
    <3> TAKE x \in Requests
    <3>1. CASE x = r
      BY <1>5, <1>13, <3>1 DEF q2
    <3>2. CASE x # r
      BY <1>16, <3>2 DEF StatesInv, AnchorsAreOpeners
    <3> QED
      BY <3>1, <3>2
  <2> QED
    BY <1>1, <2>1, <2>2 DEF AnchorsAreOpeners
<1>23. Progress'
  <2>1. ASSUME NEW x \in Requests, Linear!Live(x)'
        PROVE  /\ linear_req'[x].cached <= linear_req'[x].done
               /\ linear_req'[x].done < Len(linear_req'[x].ids)
               /\ linear_req'[x].phase = "prefill" => linear_req'[x].promptLen = Len(linear_req'[x].ids)
               /\ linear_req'[x].phase = "decode" => linear_req'[x].done = Len(linear_req'[x].ids) - 1
    <3>1. CASE x = r
      <4>1. q.cached <= Len(q.ids) /\ Len(q.ids) < Len(ids) /\ Len(q.ids) = Len(ids) - 1
        <5> DEFINE m == Len(q.ids)
                   c == q.cached
                   g == Len(ids)
        <5>1. m \in Nat /\ c \in Nat /\ c < m
          BY WhereItIs
        <5>2. g = m + 1
          BY <1>4
        <5> HIDE DEF m, c, g
        <5>3. c <= m /\ m < g /\ m = g - 1
          BY <5>1, <5>2
        <5> QED
          BY <5>3 DEF m, c, g
      <4>2. q2.phase # "prefill"
        BY <1>13
      <4>3. q2.cached = q.cached /\ q2.done = Len(q.ids) /\ q2.ids = ids
        BY <1>13
      <4>4. q2.cached <= q2.done /\ q2.done < Len(q2.ids) /\ q2.done = Len(q2.ids) - 1
        BY <4>1, <4>3
      <4> QED
        BY <3>1, <4>2, <4>4 DEF q2
    <3>2. CASE x # r
      BY <1>16, <2>1, <3>2 DEF StatesInv, Progress
    <3> QED
      BY <3>1, <3>2
  <2> QED
    BY <2>1 DEF Progress
<1>24. \A s \in Linear!Slots : s # q.track[1] => linear_state'[s] = st[s]
  BY <1>1, <1>2
<1>25. due => linear_state'[q.track[1]] = st[q.live]
  BY <1>1, <1>2, SMTT(40)
<1>34. IsHistory(st[q.live], from, ids, Len(q.ids))
  <2> DEFINE a == q.ids
             k == from.at
             w == st[q.live]
  <2>1. a \in Seq(Int) /\ tok \in Int /\ k \in Nat /\ k < Len(a) /\ ids = Append(a, tok)
    BY <1>3 DEF Origins, ids
  <2>2. k <= Len(a) /\ w = from.state \o SubSeq(a, k + 1, Len(a))
    BY DEF IsHistory
  <2> HIDE DEF a, k, w
  <2>3. SubSeq(ids, k + 1, Len(a)) = SubSeq(a, k + 1, Len(a))
    BY <2>1, TokensBefore
  <2> QED
    BY <2>2, <2>3 DEF IsHistory, a, k, w
<1>35. /\ linear_origin'[r] = IF stop THEN Linear!NoOrigin ELSE from
       /\ \A x \in Requests : x # r => linear_origin'[x] = linear_origin[x]
  BY <1>30 DEF StatesInv, HistoriesTyped
<1>26. Folded'
  <2>1. ASSUME NEW x \in Requests, Linear!Live(x)'
        PROVE  IsHistory(linear_state'[linear_req'[x].live], linear_origin'[x],
                         linear_req'[x].ids, linear_req'[x].done)
    <3>1. CASE x = r
      <4>1. linear_state'[q.live] = st[q.live]
        BY <1>2, <1>24
      <4>2. IsHistory(st[q.live], from, ids, Len(q.ids))
        BY <1>34
      <4>3. linear_origin'[r] = from
        BY <1>17, <1>35, <2>1, <3>1
      <4>4. q2.live = q.live /\ q2.ids = ids /\ q2.done = Len(q.ids)
        BY <1>13
      <4> QED
        BY <3>1, <4>1, <4>2, <4>3, <4>4 DEF q2
    <3>2. CASE x # r
      <4>1. Linear!Live(x) /\ linear_req'[x] = linear_req[x] /\ linear_origin'[x] = linear_origin[x]
        BY <1>16, <1>35, <2>1, <3>2
      <4>2. linear_req[x].live \in Linear!Slots
            /\ linear_req[x].live # q.live /\ linear_req[x].live # q.track[1]
        BY <1>2, <3>2, <4>1 DEF StatesInv, StatesTyped
      <4>3. linear_state'[linear_req[x].live] = linear_state[linear_req[x].live]
        BY <1>24, <4>2
      <4> QED
        BY <4>1, <4>3 DEF StatesInv, Folded
    <3> QED
      BY <3>1, <3>2
  <2> QED
    BY <2>1 DEF Folded, IsHistory
<1>27. ASSUME NEW p \in DOMAIN linear_snapshots \ linear_lost, snaps[p] = linear_snapshots[p]
       PROVE  linear_state'[linear_snapshots[p]] = linear_state[linear_snapshots[p]]
  <2>1. linear_snapshots[p] # q.live /\ linear_snapshots[p] \in Linear!Slots
    BY <1>2, <1>27 DEF StatesInv, StatesTyped
  <2>2. CASE due
    <3>1. linear_snapshots[p] # q.track[1]
      BY <1>2, <1>6, <1>27, <2>2
    <3> QED
      BY <1>24, <2>1, <3>1
  <2>3. CASE ~ due
    BY <1>1, <2>1, <2>3
  <2> QED
    BY <2>2, <2>3
<1>28. SnapshotsEnd'
  <2>0. ASSUME NEW p \in DOMAIN snaps, p \notin linear_lost'
        PROVE  /\ linear_frozen'[p].at < Len(p)
               /\ IsHistory(linear_state'[snaps[p]], linear_frozen'[p], p, Len(p))
    <3>1. CASE due /\ p = key
      <4>1. snaps[p] = q.track[1] /\ linear_frozen'[p] = from
        BY <1>8, <1>32, <3>1
      <4>2. p = q.ids /\ linear_state'[snaps[p]] = st[q.live]
        BY <1>7, <1>25, <3>1, <4>1
      <4> QED
        BY <4>1, <4>2
    <3>2. CASE ~ (due /\ p = key)
      <4>1. /\ p \in DOMAIN linear_snapshots \ linear_lost /\ snaps[p] = linear_snapshots[p]
            /\ linear_frozen'[p] = linear_frozen[p]
        BY <1>8, <1>32, <2>0, <3>2
      <4>2. linear_state'[snaps[p]] = linear_state[linear_snapshots[p]]
        BY <1>27, <4>1
      <4> QED
        BY <4>1, <4>2 DEF StatesInv, SnapshotsEnd
    <3> QED
      BY <3>1, <3>2
  <2> QED
    BY <1>1, <2>0 DEF SnapshotsEnd, IsHistory
<1>36. HistoriesTyped'
  <2>1. linear_origin' \in [Requests -> Origins]
    BY <1>30, NoOriginTyped DEF StatesInv, HistoriesTyped
  <2>2. \A p \in DOMAIN linear_frozen' : linear_frozen'[p] \in Origins
    BY <1>32, <1>33 DEF StatesInv, HistoriesTyped
  <2> QED
    BY <1>1, <1>33, <2>1, <2>2 DEF HistoriesTyped
<1>37. OneRestore'
  <2>1. ASSUME NEW x \in Requests, Linear!Live(x)'
        PROVE  /\ linear_origin'[x].restores <= 1 => linear_origin'[x].at = linear_req'[x].cached
               /\ linear_req'[x].phase = "prefill" /\ linear_req'[x].restore # Linear!NoSlot
                    /\ linear_origin'[x].restores = 0 =>
                  linear_req'[x].done = linear_req'[x].cached
    <3>1. CASE x = r
      <4>1. linear_origin'[r] = from /\ q2.cached = q.cached /\ q2.restore = Linear!NoSlot
        BY <1>13, <1>17, <1>35, <2>1, <3>1
      <4> QED
        BY <3>1, <4>1 DEF q2
    <3>2. CASE x # r
      BY <1>16, <1>35, <2>1, <3>2 DEF StatesInv, OneRestore
    <3> QED
      BY <3>1, <3>2
  <2> QED
    BY <2>1 DEF OneRestore
<1>29. StatesInv'
  BY <1>19, <1>20, <1>21, <1>22, <1>23, <1>26, <1>28, <1>36, <1>37 DEF StatesInv
<1> QED
  BY <1>1, <1>27, <1>29

\* The states once the tokens are folded into the one of a slot.
IsFold(st, base, slot, toks) ==
  /\ st \in [Linear!Slots -> Seq(Int)]
  /\ st[slot] = base[slot] \o toks
  /\ \A s \in Linear!Slots : s # slot => st[s] = base[s]

\* The forward of the linear layers folds its tokens into one slot's state.
LEMMA FoldedInto ==
  ASSUME NEW base \in [Linear!Slots -> Seq(Int)], NEW slot \in Linear!Slots, NEW toks \in Seq(Int)
  PROVE  IsFold(Linear!gated_delta_net(base, slot, toks), base, slot, toks)
<1> DEFINE w == base[slot] \o toks
<1>1. base[slot] \in Seq(Int)
  OBVIOUS
<1>2. w \in Seq(Int)
  BY <1>1, ConcatProperties
<1>3. Linear!gated_delta_net(base, slot, toks) = [base EXCEPT ![slot] = w]
  BY DEF Linear!gated_delta_net
<1> HIDE DEF w
<1>4. [base EXCEPT ![slot] = w] \in [Linear!Slots -> Seq(Int)]
  BY <1>2, Zenon
<1>5. [base EXCEPT ![slot] = w][slot] = w
  BY Zenon
<1>6. \A s \in Linear!Slots : s # slot => [base EXCEPT ![slot] = w][s] = base[s]
  BY ZenonT(60)
<1> QED
  BY <1>3, <1>4, <1>5, <1>6 DEF IsFold, w

\* What the forward of a prompt's next tokens makes of the state.
LEMMA ForwardFolds ==
  ASSUME MemoryAssumption, StatesInv, NEW r \in Requests, linear_req[r].phase = "prefill",
         NEW n \in Nat, linear_req[r].done < n, n <= Len(linear_req[r].ids)
  PROVE  LET q  == linear_req[r]
             st == Linear!gated_delta_net(Linear!restored(r), q.live, SubSeq(q.ids, q.done + 1, n))
             w  == st[q.live]
         IN  /\ st \in [Linear!Slots -> Seq(Int)]
             /\ \A s \in Linear!Slots : s # q.live => st[s] = linear_state[s]
             /\ IsHistory(w, Linear!origin_of(r), q.ids, n)
             /\ Linear!origin_of(r) \in Origins /\ Linear!origin_of(r).at <= q.done
             /\ Linear!origin_of(r).restores <= 1 => Linear!origin_of(r).at = q.cached
             /\ q.restore # Linear!NoSlot => Linear!origin_of(r).restores > 0
<1> USE StateConstants
<1> DEFINE q == linear_req[r]
           from == Linear!origin_of(r)
           base == Linear!restored(r)
           more == SubSeq(q.ids, q.done + 1, n)
           st == Linear!gated_delta_net(base, q.live, more)
<1>1. Linear!Live(r)
  BY DEF Linear!Live
<1>2. /\ q \in RequestRecords /\ q.live \in Linear!Slots
      /\ linear_state \in [Linear!Slots -> Seq(Int)]
  BY <1>1 DEF StatesInv, StatesTyped
<1>3. /\ q.ids \in Seq(Int) /\ q.cached \in Nat /\ q.done \in Nat /\ q.cached <= q.done
      /\ q.restore \in PoolSlots \union {Linear!NoSlot}
  <2>1. q.ids \in Seq(Int) /\ q.cached \in Nat /\ q.done \in Nat /\ q.cached <= q.done
    BY <1>1, WhereItIs
  <2>2. q.restore \in PoolSlots \union {Linear!NoSlot}
    BY <1>2 DEF RequestRecords
  <2> QED
    BY <2>1, <2>2
<1>4. more \in Seq(Int)
  <2> DEFINE ids == q.ids
             d == q.done
             m == Len(ids)
  <2>1. ids \in Seq(Int) /\ m \in Nat /\ d \in Nat /\ n <= m /\ \A i \in 1 .. m : ids[i] \in Int
    BY <1>1, WhereItIs
  <2> HIDE DEF ids, d, m
  <2>2. \A i \in (d + 1) .. n : ids[i] \in Int
    BY <2>1
  <2>3. SubSeq(ids, d + 1, n) \in Seq(Int)
    BY <2>1, <2>2, SubSeqProperties
  <2> QED
    BY <2>3 DEF ids, d
<1>5. /\ base \in [Linear!Slots -> Seq(Int)]
      /\ \A s \in Linear!Slots : s # q.live => base[s] = linear_state[s]
      /\ IsHistory(base[q.live], from, q.ids, q.done)
      /\ from \in Origins /\ from.at <= q.done
      /\ from.restores <= 1 => from.at = q.cached
      /\ q.restore # Linear!NoSlot => from.restores > 0
  <2>1. CASE q.restore = Linear!NoSlot
    <3>1. base = linear_state /\ from = linear_origin[r]
      BY <2>1 DEF Linear!restored, Linear!origin_of
    <3>2. linear_origin[r] \in Origins
      BY DEF StatesInv, HistoriesTyped
    <3>3. IsHistory(linear_state[q.live], linear_origin[r], q.ids, q.done)
      BY <1>1 DEF StatesInv, Folded
    <3>4. linear_origin[r].restores <= 1 => linear_origin[r].at = q.cached
      BY <1>1 DEF StatesInv, OneRestore
    <3>5. linear_origin[r].at <= q.done
      BY <3>3 DEF IsHistory
    <3> HIDE DEF base, from
    <3> QED
      BY <1>2, <2>1, <3>1, <3>2, <3>3, <3>4, <3>5
  <2>2. CASE q.restore # Linear!NoSlot
    <3>1. q.restore \in Linear!Slots
      BY <1>3, <2>2
    <3>2. base = [linear_state EXCEPT ![q.live] = linear_state[q.restore]]
      BY <2>2 DEF Linear!restored
    <3>3. from = [state |-> linear_state[q.restore], at |-> q.done,
                  restores |-> linear_origin[r].restores + 1]
      BY <2>2 DEF Linear!origin_of
    <3>4. base \in [Linear!Slots -> Seq(Int)] /\ base[q.live] = linear_state[q.restore]
          /\ linear_state[q.restore] \in Seq(Int)
      BY <1>2, <3>1, <3>2
    <3>5. \A s \in Linear!Slots : s # q.live => base[s] = linear_state[s]
      BY <1>2, <3>2
    <3>6. linear_origin[r].restores \in Nat
      BY DEF StatesInv, HistoriesTyped, Origins
    <3>7. linear_origin[r].restores = 0 => q.done = q.cached
      BY <1>1, <2>2 DEF StatesInv, OneRestore
    <3>8. /\ from \in Origins /\ from.at = q.done /\ from.state = linear_state[q.restore]
          /\ from.restores = linear_origin[r].restores + 1
      <4> DEFINE w == linear_state[q.restore]
                 d == q.done
                 k == linear_origin[r].restores + 1
      <4>1. w \in Seq(Int) /\ d \in Nat /\ k \in Nat
        BY <1>3, <3>4, <3>6
      <4> HIDE DEF w, d, k, from
      <4>2. from = [state |-> w, at |-> d, restores |-> k]
        BY <3>3 DEF w, d, k
      <4>3. from \in Origins /\ from.at = d /\ from.state = w /\ from.restores = k
        BY <4>1, <4>2 DEF Origins
      <4> QED
        BY <4>3 DEF w, d, k
    <3> HIDE DEF base, from
    <3>9. IsHistory(base[q.live], from, q.ids, q.done)
      BY <3>4, <3>8, NothingFolded
    <3>10. from.restores > 0 /\ (from.restores <= 1 => from.at = q.cached) /\ from.at <= q.done
      BY <1>3, <3>6, <3>7, <3>8
    <3> QED
      BY <3>4, <3>5, <3>8, <3>9, <3>10
  <2> QED
    BY <2>1, <2>2
<1> HIDE DEF base
<1>6. /\ st \in [Linear!Slots -> Seq(Int)]
      /\ st[q.live] = base[q.live] \o more
      /\ \A s \in Linear!Slots : s # q.live => st[s] = base[s]
  <2> DEFINE l == q.live
  <2>1. base \in [Linear!Slots -> Seq(Int)] /\ l \in Linear!Slots /\ more \in Seq(Int)
    BY <1>2, <1>4, <1>5
  <2> HIDE DEF l, more
  <2>2. IsFold(Linear!gated_delta_net(base, l, more), base, l, more)
    BY <2>1, FoldedInto
  <2> QED
    BY <2>2 DEF IsFold, l, more
<1> HIDE DEF from
<1>7. IsHistory(base[q.live] \o more, from, q.ids, n)
  <2> DEFINE w == base[q.live]
             ids == q.ids
             d == q.done
  <2>1. w \in Seq(Int) /\ IsHistory(w, from, ids, d) /\ from \in Origins
    BY <1>2, <1>5
  <2>2. ids \in Seq(Int) /\ d \in Nat /\ d < n /\ n <= Len(ids)
    BY <1>3
  <2> HIDE DEF w, ids, d
  <2>3. d <= n
    BY <2>2
  <2>4. IsHistory(w \o SubSeq(ids, d + 1, n), from, ids, n)
    BY <2>1, <2>2, <2>3, FoldMore
  <2> QED
    BY <2>4 DEF w, ids, d
<1>8. IsHistory(st[q.live], from, q.ids, n)
  BY <1>6, <1>7
<1> HIDE DEF st
<1>9. \A s \in Linear!Slots : s # q.live => st[s] = linear_state[s]
  BY <1>5, <1>6
<1> QED
  BY <1>5, <1>6, <1>8, <1>9 DEF st, base, from

\* Slots stay apart while no request and no free list changes hands.
LEMMA SlotsStay ==
  ASSUME SlotsApart, linear_freeSlots' = linear_freeSlots,
         \A x \in Requests :
           /\ Linear!Live(x)' <=> Linear!Live(x)
           /\ linear_req'[x].live = linear_req[x].live
           /\ linear_req'[x].track = linear_req[x].track
  PROVE  SlotsApart'
<1>1. \A x \in Requests : Own(linear_req'[x]) = Own(linear_req[x])
  BY DEF Own
<1>2. \A i, j \in 1 .. Len(linear_freeSlots') :
        linear_freeSlots'[i] = linear_freeSlots'[j] => i = j
  BY DEF SlotsApart
<1>3. ASSUME NEW x \in Requests, Linear!Live(x)'
      PROVE  /\ linear_req'[x].live # linear_req'[x].track[1]
             /\ linear_req'[x].live # linear_req'[x].track[2]
             /\ linear_req'[x].track[1] # linear_req'[x].track[2]
             /\ \A i \in 1 .. Len(linear_freeSlots') : linear_freeSlots'[i] \notin Own(linear_req'[x])
  BY <1>1, <1>3 DEF SlotsApart
<1>4. ASSUME NEW x \in Requests, NEW y \in Requests, Linear!Live(x)', Linear!Live(y)', x # y
      PROVE  \A s \in Own(linear_req'[x]) : s \notin Own(linear_req'[y])
  BY <1>1, <1>4 DEF SlotsApart
<1> QED
  BY <1>2, <1>3, <1>4 DEF SlotsApart

\* A chunk that leaves some of the prompt for the next one: a snapshot that was
\* restored before it will be restored again.
LEMMA ChunkKeepsStates ==
  ASSUME MemoryAssumption, StatesInv, NEW r \in Requests, Linear!prefill_chunk(r)
  PROVE  /\ StatesInv'
         /\ \A p \in DOMAIN linear_snapshots \ linear_lost :
                linear_state'[linear_snapshots[p]] = linear_state[linear_snapshots[p]]
<1> USE StateConstants
<1> DEFINE q == linear_req[r]
           n == q.done + MaxExtend
           from == Linear!origin_of(r)
           st == linear_state'
           q2 == linear_req'[r]
<1>1. /\ q.phase = "prefill" /\ n < q.promptLen
      /\ st = Linear!gated_delta_net(Linear!restored(r), q.live, SubSeq(q.ids, q.done + 1, n))
      /\ linear_req' = [linear_req EXCEPT ![r].done = @ + MaxExtend]
      /\ linear_origin' = [linear_origin EXCEPT ![r] = Linear!origin_of(r)]
      /\ UNCHANGED <<linear_freeSlots, linear_snapshots, linear_freeRows, linear_aborts>>
      /\ UNCHANGED <<linear_frozen, linear_lost>>
  BY DEF Linear!prefill_chunk
<1>2. Linear!Live(r)
  BY <1>1 DEF Linear!Live
<1>3. linear_req \in [Requests -> RequestRecords] /\ q \in RequestRecords
  BY DEF StatesInv, StatesTyped
<1>4. q.done \in Nat /\ n \in Nat /\ q.done < n /\ q.cached \in Nat /\ q.cached <= q.done
      /\ n < Len(q.ids) /\ q.promptLen = Len(q.ids) /\ q.ids \in Seq(Int)
      /\ q.cached <= n /\ n <= Len(q.ids)
  <2> DEFINE d == q.done
             c == q.cached
             m == Len(q.ids)
             k == d + MaxExtend
  <2>1. c \in Nat /\ d \in Nat /\ m \in Nat /\ c <= d /\ q.ids \in Seq(Int)
    BY <1>2, WhereItIs
  <2>2. q.promptLen = m
    BY <1>1, <1>2 DEF StatesInv, Progress
  <2>3. k < m
    BY <1>1, <2>2
  <2> HIDE DEF d, c, m
  <2>4. k \in Nat /\ d < k /\ c <= k /\ k <= m
    BY <2>1, <2>3
  <2> QED
    BY <2>1, <2>2, <2>3, <2>4 DEF d, c, m
<1>20. MaxExtend \in Nat \ {0}
  OBVIOUS
<1>5. /\ st \in [Linear!Slots -> Seq(Int)]
      /\ \A s \in Linear!Slots : s # q.live => st[s] = linear_state[s]
      /\ IsHistory(st[q.live], from, q.ids, n)
      /\ from \in Origins /\ (from.restores <= 1 => from.at = q.cached)
      /\ (q.restore # Linear!NoSlot => from.restores > 0)
  <2>1. n \in Nat /\ q.done < n /\ n <= Len(q.ids) /\ q.phase = "prefill"
    BY <1>1, <1>4
  <2> DEFINE g == Linear!gated_delta_net(Linear!restored(r), q.live, SubSeq(q.ids, q.done + 1, n))
  <2> HIDE DEF n
  <2>2. /\ g \in [Linear!Slots -> Seq(Int)]
        /\ \A s \in Linear!Slots : s # q.live => g[s] = linear_state[s]
        /\ IsHistory(g[q.live], from, q.ids, n)
        /\ from \in Origins /\ (from.restores <= 1 => from.at = q.cached)
        /\ (q.restore # Linear!NoSlot => from.restores > 0)
    BY <2>1, ForwardFolds
  <2>3. st = g
    BY <1>1 DEF n
  <2> HIDE DEF st, g, from
  <2> QED
    BY <2>2, <2>3
<1>6. q2 = [q EXCEPT !.done = n] /\ \A x \in Requests \ {r} : linear_req'[x] = linear_req[x]
  BY <1>1, <1>3
<1>7. /\ q2 \in RequestRecords /\ q2.done = n /\ q2.phase = q.phase /\ q2.live = q.live
      /\ q2.track = q.track /\ q2.row = q.row /\ q2.ids = q.ids /\ q2.cached = q.cached
      /\ q2.promptLen = q.promptLen /\ q2.restore = q.restore /\ q2.anchorLen = q.anchorLen
      /\ q2.tracked = q.tracked
  <2> HIDE DEF q2, n
  <2> QED
    BY <1>3, <1>4, <1>6 DEF RequestRecords
<1>8. linear_req' \in [Requests -> RequestRecords]
  <2>1. linear_req' = [linear_req EXCEPT ![r] = q2]
    BY <1>1, <1>3
  <2> QED
    BY <1>3, <1>7, <2>1
<1> HIDE DEF q2, st, from
<1>21. linear_origin'[r] = from /\ \A x \in Requests \ {r} : linear_origin'[x] = linear_origin[x]
  BY <1>1 DEF StatesInv, HistoriesTyped, from
<1>22. HistoriesTyped'
  <2>1. linear_origin' = [linear_origin EXCEPT ![r] = from]
    BY <1>1 DEF from
  <2>2. linear_origin' \in [Requests -> Origins]
    BY <1>5, <2>1 DEF StatesInv, HistoriesTyped
  <2> QED
    BY <1>1, <2>2 DEF StatesInv, HistoriesTyped
<1>9. \A x \in Requests :
        /\ Linear!Live(x)' <=> Linear!Live(x)
        /\ linear_req'[x].live = linear_req[x].live /\ linear_req'[x].track = linear_req[x].track
        /\ linear_req'[x].row = linear_req[x].row /\ linear_req'[x].ids = linear_req[x].ids
        /\ linear_req'[x].anchorLen = linear_req[x].anchorLen
        /\ linear_req'[x].tracked = linear_req[x].tracked
  BY <1>6, <1>7 DEF q2, Linear!Live
<1>10. StatesTyped'
  BY <1>1, <1>5, <1>8, <1>9, SMTT(40) DEF StatesInv, StatesTyped, st
<1>11. SlotsApart'
  BY <1>1, <1>9, SlotsStay DEF StatesInv
<1>12. RegisteredApart'
  BY <1>1, <1>9 DEF StatesInv, RegisteredApart
<1>13. AnchorsAreOpeners'
  BY <1>1, <1>9 DEF StatesInv, AnchorsAreOpeners
<1>14. Progress'
  <2>1. ASSUME NEW x \in Requests, Linear!Live(x)'
        PROVE  /\ linear_req'[x].cached <= linear_req'[x].done
               /\ linear_req'[x].done < Len(linear_req'[x].ids)
               /\ linear_req'[x].phase = "prefill" => linear_req'[x].promptLen = Len(linear_req'[x].ids)
               /\ linear_req'[x].phase = "decode" => linear_req'[x].done = Len(linear_req'[x].ids) - 1
    <3>1. CASE x = r
      <4>2. q2.phase = "prefill" /\ q2.done = n
            /\ q2.cached = q.cached /\ q2.ids = q.ids /\ q2.promptLen = q.promptLen
        BY <1>1, <1>7
      <4> HIDE DEF q, n
      <4>3. /\ q2.cached <= q2.done /\ q2.done < Len(q2.ids) /\ q2.promptLen = Len(q2.ids)
            /\ q2.phase = "prefill"
        BY <1>4, <4>2
      <4> QED
        BY <3>1, <4>3 DEF q2
    <3>2. CASE x # r
      BY <1>6, <1>9, <2>1, <3>2 DEF StatesInv, Progress
    <3> QED
      BY <3>1, <3>2
  <2> QED
    BY <2>1 DEF Progress
<1>15. Folded'
  <2>1. ASSUME NEW x \in Requests, Linear!Live(x)'
        PROVE  IsHistory(st[linear_req'[x].live], linear_origin'[x],
                         linear_req'[x].ids, linear_req'[x].done)
    <3>1. CASE x = r
      <4>1. q2.live = q.live /\ q2.ids = q.ids /\ q2.done = n
        BY <1>7
      <4>2. IsHistory(st[q.live], from, q.ids, n)
        BY <1>5
      <4> QED
        BY <1>21, <3>1, <4>1, <4>2 DEF q2
    <3>2. CASE x # r
      <4>1. Linear!Live(x) /\ linear_req'[x] = linear_req[x] /\ linear_origin'[x] = linear_origin[x]
        BY <1>6, <1>9, <1>21, <2>1, <3>2
      <4>2. linear_req[x].live \in Linear!Slots /\ linear_req[x].live # q.live
        BY <1>2, <3>2, <4>1, OwnSlots DEF StatesInv, StatesTyped
      <4> QED
        BY <1>5, <4>1, <4>2 DEF StatesInv, Folded
    <3> QED
      BY <3>1, <3>2
  <2> QED
    BY <2>1 DEF Folded, IsHistory, st
<1>16. \A p \in DOMAIN linear_snapshots \ linear_lost :
         st[linear_snapshots[p]] = linear_state[linear_snapshots[p]]
  <2> SUFFICES ASSUME NEW p \in DOMAIN linear_snapshots \ linear_lost
               PROVE  st[linear_snapshots[p]] = linear_state[linear_snapshots[p]]
    OBVIOUS
  <2>1. linear_snapshots[p] \in Linear!Slots
    BY DEF StatesInv, StatesTyped
  <2>2. linear_snapshots[p] # q.live
    BY <1>2, OwnSlots
  <2> QED
    BY <1>5, <2>1, <2>2
<1>17. SnapshotsEnd'
  <2>1. ASSUME NEW p \in DOMAIN linear_snapshots \ linear_lost
        PROVE  /\ linear_frozen[p].at < Len(p)
               /\ IsHistory(st[linear_snapshots[p]], linear_frozen[p], p, Len(p))
    BY <1>16 DEF StatesInv, SnapshotsEnd
  <2> QED
    BY <1>1, <2>1 DEF SnapshotsEnd, IsHistory, st
<1>18. OneRestore'
  <2>1. ASSUME NEW x \in Requests, Linear!Live(x)'
        PROVE  /\ linear_origin'[x].restores <= 1 => linear_origin'[x].at = linear_req'[x].cached
               /\ linear_req'[x].phase = "prefill" /\ linear_req'[x].restore # Linear!NoSlot
                    /\ linear_origin'[x].restores = 0 =>
                  linear_req'[x].done = linear_req'[x].cached
    <3>1. CASE x = r
      <4>1. q2.cached = q.cached /\ q2.restore = q.restore
        BY <1>7
      <4>2. from.restores \in Nat
        BY <1>5 DEF Origins
      <4>3. /\ from.restores <= 1 => from.at = q.cached
            /\ q.restore # Linear!NoSlot => from.restores # 0
        BY <1>5, <4>2
      <4> QED
        BY <1>21, <3>1, <4>1, <4>3 DEF q2
    <3>2. CASE x # r
      BY <1>6, <1>9, <1>21, <2>1, <3>2 DEF StatesInv, OneRestore
    <3> QED
      BY <3>1, <3>2
  <2> QED
    BY <2>1 DEF OneRestore
<1> QED
  BY <1>10, <1>11, <1>12, <1>13, <1>14, <1>15, <1>16, <1>17, <1>18, <1>22 DEF StatesInv, st

\* The chunk that completes a prompt.
LEMMA LastKeepsStates ==
  ASSUME MemoryAssumption, StatesInv, NEW r \in Requests, NEW tok \in Sampled,
         Linear!prefill_last(r, tok)
  PROVE  /\ StatesInv'
         /\ \A p \in DOMAIN linear_snapshots \ linear_lost : linear_snapshots'[p] = linear_snapshots[p] =>
                linear_state'[linear_snapshots[p]] = linear_state[linear_snapshots[p]]
<1> DEFINE q == linear_req[r]
           n == Len(q.ids)
           from == Linear!origin_of(r)
           st == Linear!gated_delta_net(Linear!restored(r), q.live, SubSeq(q.ids, q.done + 1, n))
<1>1. q.phase = "prefill" /\ Linear!Live(r)
  BY DEF Linear!prefill_last, Linear!Live
<1>2. q.promptLen = n /\ q.done < n /\ n \in Nat
  <2>1. q.promptLen = n
    BY <1>1 DEF StatesInv, Progress
  <2> QED
    BY <1>1, <2>1, WhereItIs
<1>3. Linear!sample(r, st, from, tok) /\ linear_aborts' = linear_aborts
  BY <1>2 DEF Linear!prefill_last
<1>4. /\ st \in [Linear!Slots -> Seq(Int)]
      /\ \A s \in Linear!Slots : s # q.live => st[s] = linear_state[s]
      /\ IsHistory(st[q.live], from, q.ids, n)
      /\ from \in Origins /\ from.at <= q.done /\ (from.restores <= 1 => from.at = q.cached)
  BY <1>1, <1>2, ForwardFolds, SMTT(40)
<1> HIDE DEF st, from
<1>5. from.at < n
  <2> DEFINE k == from.at
             d == q.done
  <2>1. k \in Nat /\ d \in Nat /\ k <= d /\ d < n
    BY <1>1, <1>2, <1>4, WhereItIs DEF Origins
  <2> HIDE DEF k, d, n
  <2>2. n \in Nat
    BY <1>2
  <2>3. k < n
    BY <2>1, <2>2
  <2> QED
    BY <2>3 DEF k
<1> QED
  BY <1>1, <1>3, <1>4, <1>5, SampleKeepsStates

\* A decode step: the last token is folded.
LEMMA DecodeKeepsStates ==
  ASSUME MemoryAssumption, StatesInv, NEW r \in Requests, NEW tok \in Sampled,
         Linear!decode(r, tok)
  PROVE  /\ StatesInv'
         /\ \A p \in DOMAIN linear_snapshots \ linear_lost : linear_snapshots'[p] = linear_snapshots[p] =>
                linear_state'[linear_snapshots[p]] = linear_state[linear_snapshots[p]]
<1> DEFINE q == linear_req[r]
           n == Len(q.ids)
           from == linear_origin[r]
           toks == <<Linear!Last(q.ids)>>
           st == Linear!gated_delta_net(linear_state, q.live, toks)
<1>1. q.phase = "decode" /\ Linear!Live(r)
  BY DEF Linear!decode, Linear!Live
<1>2. Linear!sample(r, st, from, tok) /\ linear_aborts' = linear_aborts
  BY DEF Linear!decode
<1>3. /\ q \in RequestRecords /\ q.live \in Linear!Slots
      /\ linear_state \in [Linear!Slots -> Seq(Int)]
  <2>1. q \in RequestRecords /\ q.live \in PoolSlots /\ linear_state \in [Linear!Slots -> Seq(Int)]
    BY <1>1 DEF StatesInv, StatesTyped
  <2> QED
    BY <2>1, StateConstants
<1>4. /\ q.ids \in Seq(Int) /\ q.cached \in Nat /\ q.done \in Nat /\ q.cached <= q.done
      /\ q.done = n - 1 /\ n \in Nat /\ q.done < n
  <2>1. q.done = n - 1
    BY <1>1 DEF StatesInv, Progress
  <2> QED
    BY <1>1, <2>1, WhereItIs
<1>5. toks = SubSeq(q.ids, q.done + 1, n) /\ toks \in Seq(Int)
  <2> DEFINE m == SubSeq(q.ids, q.done + 1, n)
  <2>1. \A i \in (q.done + 1) .. n : q.ids[i] \in Int
    BY <1>4
  <2>2. /\ m \in Seq(Int)
        /\ Len(m) = IF q.done + 1 <= n THEN n - (q.done + 1) + 1 ELSE 0
        /\ \A i \in 1 .. (n - (q.done + 1) + 1) : m[i] = q.ids[(q.done + 1) + i - 1]
    BY <1>4, <2>1, SubSeqProperties
  <2>3. m \in Seq(Int) /\ Len(m) = 1 /\ m[1] = q.ids[n]
    <3> HIDE DEF m, q
    <3>1. q.done + 1 = n /\ n - n + 1 = 1
      BY <1>4
    <3> QED
      BY <1>4, <2>2, <3>1
  <2> HIDE DEF m
  <2>4. toks = <<q.ids[n]>> /\ q.ids[n] \in Int
    BY <1>4 DEF Linear!Last
  <2>5. toks = m
    BY <2>3, <2>4
  <2> QED
    BY <2>3, <2>5 DEF m
<1> HIDE DEF toks
<1>6. /\ st \in [Linear!Slots -> Seq(Int)]
      /\ st[q.live] = linear_state[q.live] \o toks
      /\ \A s \in Linear!Slots : s # q.live => st[s] = linear_state[s]
  <2> DEFINE base == linear_state
             l == q.live
  <2>1. base \in [Linear!Slots -> Seq(Int)] /\ l \in Linear!Slots /\ toks \in Seq(Int)
    BY <1>3, <1>5
  <2> HIDE DEF base, l
  <2>2. IsFold(Linear!gated_delta_net(base, l, toks), base, l, toks)
    BY <2>1, FoldedInto
  <2> QED
    BY <2>2 DEF IsFold, base, l
<1> HIDE DEF st
<1>7. /\ from \in Origins /\ IsHistory(linear_state[q.live], from, q.ids, q.done)
      /\ from.restores <= 1 => from.at = q.cached
  BY <1>1 DEF StatesInv, HistoriesTyped, OneRestore, Folded
<1> HIDE DEF from
<1>8. IsHistory(st[q.live], from, q.ids, n) /\ from.at < n
  <2> DEFINE w == linear_state[q.live]
             d == q.done
             ids == q.ids
             k == from.at
  <2>1. w \in Seq(Int) /\ IsHistory(w, from, ids, d) /\ from \in Origins
    BY <1>3, <1>7
  <2>2. toks = SubSeq(ids, d + 1, n)
    BY <1>5
  <2>3. d \in Nat /\ d < n /\ n = Len(ids) /\ ids \in Seq(Int) /\ n \in Nat
    BY <1>4
  <2>4. k \in Nat /\ k <= d
    BY <2>1 DEF Origins, IsHistory
  <2> HIDE DEF w, d, ids, n, k
  <2>5. n <= Len(ids) /\ d <= n /\ k < n
    BY <2>3, <2>4
  <2>6. IsHistory(w \o SubSeq(ids, d + 1, n), from, ids, n)
    BY <2>1, <2>3, <2>5, FoldMore
  <2>7. IsHistory(w \o toks, from, ids, n)
    BY <2>2, <2>6
  <2> QED
    BY <1>6, <2>5, <2>7 DEF w, ids, k
<1> QED
  BY <1>1, <1>2, <1>6, <1>7, <1>8, SampleKeepsStates

\* One slot before two others.
LEMMA OneAndTwo ==
  ASSUME NEW S, NEW l \in S, NEW t \in Seq(S), Len(t) = 2
  PROVE  <<l>> \o t = <<l, t[1], t[2]>>
<1> DEFINE s == <<l>>
           w == s \o t
           v == <<l, t[1], t[2]>>
<1>1. s \in Seq(S) /\ Len(s) = 1 /\ s[1] = l
  OBVIOUS
<1>2. t[1] \in S /\ t[2] \in S
  OBVIOUS
<1>3. v \in Seq(S) /\ Len(v) = 3 /\ v[1] = l /\ v[2] = t[1] /\ v[3] = t[2]
  BY <1>2
<1> HIDE DEF s
<1>4. /\ w \in Seq(S) /\ Len(w) = Len(s) + Len(t)
      /\ \A i \in 1 .. Len(s) + Len(t) : w[i] = IF i <= Len(s) THEN s[i] ELSE t[i - Len(s)]
  BY <1>1, ConcatProperties
<1> HIDE DEF w, v
<1>5. Len(w) = 3 /\ w[1] = s[1] /\ w[2] = t[2 - 1] /\ w[3] = t[3 - 1]
  BY <1>1, <1>4
<1>6. w[1] = l /\ w[2] = t[1] /\ w[3] = t[2]
  BY <1>1, <1>5
<1>7. \A i \in 1 .. Len(w) : w[i] = v[i]
  BY <1>3, <1>5, <1>6
<1>8. w = v
  BY <1>3, <1>4, <1>5, <1>7, SeqEqual
<1> QED
  BY <1>8 DEF s, w, v

\* An abort gives all three slots back; what is registered of them is lost, and
\* what others registered stays.
LEMMA AbortKeepsStates ==
  ASSUME MemoryAssumption, StatesInv, NEW r \in Requests, Linear!abort_request(r)
  PROVE  StatesInv'
<1> USE StateConstants
<1> DEFINE q == linear_req[r]
           f == <<q.live, q.track[1], q.track[2]>>
           q2 == linear_req'[r]
<1>1. /\ Linear!Live(r) /\ linear_aborts < MaxAborts
      /\ linear_req' = [linear_req EXCEPT ![r].phase = "aborted"]
      /\ linear_freeSlots' = (linear_freeSlots \o <<q.live>>) \o q.track
      /\ linear_freeRows' = linear_freeRows \union {q.row}
      /\ linear_aborts' = linear_aborts + 1
      /\ linear_state' = linear_state /\ linear_snapshots' = linear_snapshots
      /\ linear_origin' = [linear_origin EXCEPT ![r] = Linear!NoOrigin]
      /\ linear_frozen' = linear_frozen
      /\ linear_lost' = linear_lost \union
           {p \in DOMAIN linear_snapshots : linear_snapshots[p] \in Linear!ToSet(q.track)}
  BY DEF Linear!abort_request
<1>2. /\ q \in RequestRecords /\ q.live \in PoolSlots /\ Len(q.track) = 2
      /\ q.track[1] \in PoolSlots /\ q.track[2] \in PoolSlots
      /\ q.live # q.track[1] /\ q.live # q.track[2] /\ q.track[1] # q.track[2]
  BY <1>1, OwnSlots
<1>3. linear_req \in [Requests -> RequestRecords] /\ linear_freeSlots \in Seq(PoolSlots)
      /\ q.track \in Seq(PoolSlots)
  BY <1>2 DEF StatesInv, StatesTyped, RequestRecords
<1>4. linear_freeSlots' = linear_freeSlots \o f
  <2> DEFINE s == linear_freeSlots
             l == q.live
             t == q.track
  <2>1. s \in Seq(PoolSlots) /\ <<l>> \in Seq(PoolSlots) /\ t \in Seq(PoolSlots)
        /\ l \in PoolSlots /\ Len(t) = 2
    BY <1>2, <1>3
  <2> HIDE DEF s, l, t
  <2>2. (s \o <<l>>) \o t = s \o (<<l>> \o t)
    BY <2>1, ConcatAssociative, SMTT(40)
  <2>3. <<l>> \o t = <<l, t[1], t[2]>>
    BY <2>1, OneAndTwo
  <2> QED
    BY <1>1, <2>2, <2>3 DEF s, l, t
<1>5. /\ f \in Seq(PoolSlots)
      /\ \A i \in 1 .. Len(f) : f[i] \in Own(q)
      /\ \A i, j \in 1 .. Len(f) : f[i] = f[j] => i = j
  <2> DEFINE a == q.live
             b == q.track[1]
             c == q.track[2]
  <2>1. Own(q) = {a, b, c} /\ a \in PoolSlots /\ b \in PoolSlots /\ c \in PoolSlots
        /\ a # b /\ a # c /\ b # c
    BY <1>2 DEF Own
  <2> HIDE DEF a, b, c
  <2>2. /\ <<a, b, c>> \in Seq(PoolSlots)
        /\ \A i \in 1 .. Len(<<a, b, c>>) : <<a, b, c>>[i] \in {a, b, c}
        /\ \A i, j \in 1 .. Len(<<a, b, c>>) : <<a, b, c>>[i] = <<a, b, c>>[j] => i = j
    BY <2>1
  <2> QED
    BY <2>1, <2>2 DEF a, b, c
<1> HIDE DEF f
<1>6. \A x \in Requests \ {r} : linear_req'[x] = linear_req[x]
  BY <1>1, <1>3
<1>7. q2 = [q EXCEPT !.phase = "aborted"]
  BY <1>1, <1>3
<1>8. q2 \in RequestRecords /\ q2.phase = "aborted" /\ q2.ids = q.ids /\ q2.anchorLen = q.anchorLen
  <2> HIDE DEF q2, q
  <2> QED
    BY <1>2, <1>7 DEF RequestRecords, RequestPhases
<1>9. linear_req' \in [Requests -> RequestRecords]
  <2>1. linear_req' = [linear_req EXCEPT ![r] = q2]
    BY <1>1, <1>3
  <2> QED
    BY <1>3, <1>8, <2>1
<1>10. ~ Linear!Live(r)'
  BY <1>8 DEF Linear!Live
<1>11. /\ SlotsApart' /\ linear_freeSlots' \in Seq(PoolSlots)
       /\ \A i \in 1 .. Len(linear_freeSlots') :
            \/ i \in 1 .. Len(linear_freeSlots) /\ linear_freeSlots'[i] = linear_freeSlots[i]
            \/ \E j \in 1 .. Len(f) : i = Len(linear_freeSlots) + j /\ linear_freeSlots'[i] = f[j]
  BY <1>1, <1>4, <1>5, <1>6, <1>10, GivenBack DEF StatesInv
<1>19. \A x \in Requests : Linear!Live(x)' => linear_origin'[x] = linear_origin[x]
  BY <1>1, <1>10 DEF StatesInv, HistoriesTyped
<1>12. \A x \in Requests : /\ Linear!Live(x)' => Linear!Live(x) /\ linear_req'[x] = linear_req[x]
                           /\ linear_req'[x].ids = linear_req[x].ids
                           /\ linear_req'[x].anchorLen = linear_req[x].anchorLen
  <2> TAKE x \in Requests
  <2>1. CASE x = r
    BY <1>8, <1>10, <2>1
  <2>2. CASE x # r
    BY <1>6, <2>2 DEF Linear!Live
  <2> QED
    BY <2>1, <2>2
<1>13. StatesTyped'
  <2>1. q.row \in Linear!Rows
    BY <1>1 DEF StatesInv, StatesTyped
  <2>2. linear_freeRows' \subseteq Linear!Rows
    BY <1>1, <2>1 DEF StatesInv, StatesTyped
  <2>3. linear_aborts' \in 0 .. MaxAborts
    BY <1>1 DEF StatesInv, StatesTyped
  <2>4. \A x \in Requests : Linear!Live(x)' =>
          /\ linear_req'[x].live \in PoolSlots
          /\ linear_req'[x].row \in Linear!Rows
          /\ Len(linear_req'[x].track) = 2
    BY <1>12 DEF StatesInv, StatesTyped
  <2> QED
    BY <1>1, <1>9, <1>11, <2>2, <2>3, <2>4 DEF StatesInv, StatesTyped
<1>14. ASSUME NEW p \in DOMAIN linear_snapshots, p \notin linear_lost'
       PROVE  /\ p \in DOMAIN linear_snapshots \ linear_lost
              /\ linear_snapshots[p] \notin Own(q)
  <2>1. p \notin linear_lost /\ linear_snapshots[p] \notin Linear!ToSet(q.track)
    BY <1>1, <1>14
  <2>2. q.track[1] \in Linear!ToSet(q.track) /\ q.track[2] \in Linear!ToSet(q.track)
    <3> DEFINE t == q.track
    <3>1. t \in Seq(PoolSlots) /\ Len(t) = 2
      BY <1>2, <1>3
    <3> HIDE DEF t
    <3>2. 1 \in DOMAIN t /\ 2 \in DOMAIN t
      BY <3>1
    <3>3. t[1] \in Linear!ToSet(t) /\ t[2] \in Linear!ToSet(t)
      BY <3>2 DEF Linear!ToSet
    <3> QED
      BY <3>3 DEF t
  <2>3. linear_snapshots[p] # q.live
    BY <1>1, <2>1, OwnSlots
  <2> QED
    BY <2>1, <2>2, <2>3 DEF Own
<1>15. RegisteredApart'
  <2>1. ASSUME NEW p \in DOMAIN linear_snapshots, p \notin linear_lost'
        PROVE  /\ \A i \in 1 .. Len(linear_freeSlots') : linear_freeSlots'[i] # linear_snapshots[p]
               /\ \A x \in Requests : Linear!Live(x)' =>
                    /\ linear_snapshots[p] # linear_req'[x].live
                    /\ linear_snapshots[p] # linear_req'[x].track[2]
                    /\ linear_snapshots[p] = linear_req'[x].track[1] => linear_req'[x].tracked
    <3>1. p \in DOMAIN linear_snapshots \ linear_lost /\ linear_snapshots[p] \notin Own(q)
      BY <1>14, <2>1
    <3>2. \A i \in 1 .. Len(linear_freeSlots) : linear_freeSlots[i] # linear_snapshots[p]
      BY <3>1 DEF StatesInv, RegisteredApart
    <3>3. \A j \in 1 .. Len(f) : f[j] # linear_snapshots[p]
      BY <1>5, <3>1
    <3>4. \A i \in 1 .. Len(linear_freeSlots') : linear_freeSlots'[i] # linear_snapshots[p]
      BY <1>11, <3>2, <3>3
    <3>5. \A x \in Requests : Linear!Live(x)' =>
            /\ linear_snapshots[p] # linear_req'[x].live
            /\ linear_snapshots[p] # linear_req'[x].track[2]
            /\ linear_snapshots[p] = linear_req'[x].track[1] => linear_req'[x].tracked
      BY <1>12, <3>1 DEF StatesInv, RegisteredApart
    <3> QED
      BY <3>4, <3>5
  <2> QED
    BY <1>1, <2>1 DEF RegisteredApart
<1>20. SnapshotsEnd'
  <2>1. ASSUME NEW p \in DOMAIN linear_snapshots, p \notin linear_lost'
        PROVE  /\ linear_frozen[p].at < Len(p)
               /\ IsHistory(linear_state[linear_snapshots[p]], linear_frozen[p], p, Len(p))
    BY <1>14, <2>1 DEF StatesInv, SnapshotsEnd
  <2> QED
    BY <1>1, <2>1 DEF SnapshotsEnd, IsHistory
<1>21. HistoriesTyped'
  BY <1>1, NoOriginTyped DEF StatesInv, HistoriesTyped
<1>22. OneRestore'
  BY <1>12, <1>19 DEF StatesInv, OneRestore
<1>16. AnchorsAreOpeners'
  BY <1>1, <1>12 DEF StatesInv, AnchorsAreOpeners
<1>17. Progress'
  BY <1>12 DEF StatesInv, Progress
<1>18. Folded'
  <2>1. ASSUME NEW x \in Requests, Linear!Live(x)'
        PROVE  IsHistory(linear_state'[linear_req'[x].live], linear_origin'[x],
                         linear_req'[x].ids, linear_req'[x].done)
    <3>1. Linear!Live(x) /\ linear_req'[x] = linear_req[x] /\ linear_state' = linear_state
          /\ linear_origin'[x] = linear_origin[x]
      BY <1>1, <1>12, <1>19, <2>1
    <3> QED
      BY <3>1 DEF StatesInv, Folded
  <2> QED
    BY <2>1 DEF Folded, IsHistory
<1> QED
  BY <1>11, <1>13, <1>15, <1>16, <1>17, <1>18, <1>20, <1>21, <1>22 DEF StatesInv

\* Another part's step leaves the states alone.
LEMMA OthersKeepStates ==
  ASSUME StatesInv, UNCHANGED linearStateVars
  PROVE  StatesInv'
<1>1. /\ linear_freeSlots' = linear_freeSlots /\ linear_state' = linear_state
      /\ linear_snapshots' = linear_snapshots /\ linear_freeRows' = linear_freeRows
      /\ linear_req' = linear_req /\ linear_aborts' = linear_aborts
      /\ linear_origin' = linear_origin /\ linear_frozen' = linear_frozen
      /\ linear_lost' = linear_lost
  BY DEF linearStateVars
<1>2. StatesTyped'
  BY <1>1 DEF StatesInv, StatesTyped, Linear!Live
<1>3. SlotsApart'
  BY <1>1 DEF StatesInv, SlotsApart, Linear!Live, Own
<1>4. RegisteredApart'
  BY <1>1 DEF StatesInv, RegisteredApart, Linear!Live
<1>5. AnchorsAreOpeners'
  BY <1>1 DEF StatesInv, AnchorsAreOpeners
<1>6. Progress'
  BY <1>1 DEF StatesInv, Progress, Linear!Live
<1>7. Folded'
  BY <1>1, ZenonT(60) DEF StatesInv, Folded, Linear!Live, IsHistory
<1>8. SnapshotsEnd'
  BY <1>1 DEF StatesInv, SnapshotsEnd, IsHistory
<1>9. HistoriesTyped' /\ OneRestore'
  BY <1>1 DEF StatesInv, HistoriesTyped, OneRestore, Linear!Live
<1> QED
  BY <1>2, <1>3, <1>4, <1>5, <1>6, <1>7, <1>8, <1>9 DEF StatesInv

\* What a step may not do to a registered snapshot.
FrozenStep ==
  \A p \in DOMAIN linear_snapshots \ linear_lost :
    linear_snapshots'[p] = linear_snapshots[p] =>
      linear_state'[linear_snapshots[p]] = linear_state[linear_snapshots[p]]

\* Every step keeps the invariant, and no registered snapshot is written.
LEMMA StepKeepsStates ==
  ASSUME StatesInv, [SuiteNext]_allVars
  PROVE  StatesInv' /\ [FrozenStep]_(Linear!vars)
<1>0. MemoryAssumption
  BY MemoryAssumption DEF MemoryAssumption
<1>1. CASE StepLinearState
  <2>1. PICK r \in Requests :
          \/ \E ids \in Prompts : Linear!add_request(r, ids) \/ Linear!add_request_plain(r, ids)
          \/ Linear!add_request_no_slots(r)
          \/ Linear!prefill_chunk(r)
          \/ \E tok \in Sampled : Linear!prefill_last(r, tok) \/ Linear!decode(r, tok)
          \/ Linear!abort_request(r)
    BY <1>1 DEF StepLinearState, Linear!Next
  <2>2. CASE \E ids \in Prompts : Linear!add_request(r, ids) \/ Linear!add_request_plain(r, ids)
    <3>1. PICK ids \in Prompts : Linear!add_request(r, ids)
      BY <2>2 DEF Linear!add_request_plain
    <3>2. StatesInv'
      BY <1>0, <3>1, AddKeepsStates
    <3>3. FrozenStep
      BY <3>1 DEF FrozenStep, Linear!add_request
    <3> QED
      BY <3>2, <3>3
  <2>3. CASE Linear!add_request_no_slots(r)
    <3>1. StatesInv'
      BY <2>3, RefuseKeepsStates
    <3>2. FrozenStep
      BY <2>3 DEF FrozenStep, Linear!add_request_no_slots
    <3> QED
      BY <3>1, <3>2
  <2>4. CASE Linear!prefill_chunk(r)
    <3>1. StatesInv' /\ FrozenStep
      BY <1>0, <2>4, ChunkKeepsStates DEF FrozenStep
    <3> QED
      BY <3>1
  <2>5. CASE \E tok \in Sampled : Linear!prefill_last(r, tok) \/ Linear!decode(r, tok)
    <3>1. PICK tok \in Sampled : Linear!prefill_last(r, tok) \/ Linear!decode(r, tok)
      BY <2>5
    <3>2. CASE Linear!prefill_last(r, tok)
      <4>1. StatesInv' /\ FrozenStep
        BY <1>0, <3>2, LastKeepsStates DEF FrozenStep
      <4> QED
        BY <4>1
    <3>3. CASE Linear!decode(r, tok)
      <4>1. StatesInv' /\ FrozenStep
        BY <1>0, <3>3, DecodeKeepsStates DEF FrozenStep
      <4> QED
        BY <4>1
    <3> QED
      BY <3>1, <3>2, <3>3
  <2>6. CASE Linear!abort_request(r)
    <3>1. StatesInv'
      BY <1>0, <2>6, AbortKeepsStates
    <3>2. FrozenStep
      BY <2>6 DEF FrozenStep, Linear!abort_request
    <3> QED
      BY <3>1, <3>2
  <2> QED
    BY <2>1, <2>2, <2>3, <2>4, <2>5, <2>6
<1>2. CASE UNCHANGED linearStateVars
  <2>1. StatesInv'
    BY <1>2, OthersKeepStates
  <2>2. UNCHANGED Linear!vars
    BY <1>2 DEF linearStateVars, Linear!vars, Linear!histories
  <2> QED
    BY <2>1, <2>2
<1>3. StepLinearState \/ UNCHANGED linearStateVars
  BY DEF SuiteNext, StepOffloadCache, StepCacheBudget, Stops, allVars
<1> QED
  BY <1>1, <1>2, <1>3

\* What the invariant says of the states.
LEMMA StatesSay ==
  ASSUME StatesInv
  PROVE  Linear!TypeOK /\ Linear!ExclusiveSlots /\ Linear!FoldedExactly /\ Linear!SnapshotAtAnchor
<1>0. MemoryAssumption
  BY MemoryAssumption DEF MemoryAssumption
<1>1. PoolSlots \subseteq Linear!Slots \ {0}
  BY <1>0, StateConstants
<1>2. linear_freeSlots \in Seq(PoolSlots)
  BY DEF StatesInv, StatesTyped
<1>3. Linear!TypeOK
  <2>1. linear_freeSlots \in Seq(Linear!Slots)
    BY <1>1, <1>2
  <2>2. \A p \in DOMAIN linear_snapshots : linear_snapshots[p] \in Linear!Slots \ {0}
    BY <1>1 DEF StatesInv, StatesTyped
  <2>3. \A r \in Requests : Linear!Live(r) =>
          linear_req[r].live \in Linear!Slots /\ linear_req[r].row \in Linear!Rows
    BY <1>1 DEF StatesInv, StatesTyped
  <2> QED
    BY <2>1, <2>2, <2>3 DEF Linear!TypeOK, StatesInv, StatesTyped, HistoriesTyped
<1>4. ASSUME NEW r \in Requests, Linear!Live(r)
      PROVE  Linear!SlotsOf(r) = Own(linear_req[r])
  <2> DEFINE q == linear_req[r]
             t == q.track
  <2>1. q \in RequestRecords /\ Len(t) = 2
    BY <1>4, OwnSlots
  <2>2. t \in Seq(PoolSlots)
    BY <2>1 DEF RequestRecords
  <2>3. Linear!SlotsOf(r) = {q.live} \union {t[i] : i \in DOMAIN t}
    BY <1>4 DEF Linear!SlotsOf, Linear!ToSet
  <2>4. Own(q) = {q.live} \union {t[1], t[2]}
    BY DEF Own
  <2> HIDE DEF t
  <2>5. DOMAIN t = {1, 2}
    BY <2>1, <2>2
  <2>6. {t[i] : i \in DOMAIN t} = {t[1], t[2]}
    BY <2>5
  <2> QED
    BY <2>3, <2>4, <2>6
<1>5. ASSUME NEW r \in Requests, ~ Linear!Live(r)
      PROVE  Linear!SlotsOf(r) = {}
  BY <1>5 DEF Linear!SlotsOf
<1>6. Linear!ExclusiveSlots
  <2>1. DOMAIN linear_freeSlots = 1 .. Len(linear_freeSlots)
    BY <1>2
  <2>2. Linear!IsInjective(linear_freeSlots)
    BY <2>1 DEF Linear!IsInjective, StatesInv, SlotsApart
  <2>3. ASSUME NEW r \in Requests PROVE Linear!SlotsOf(r) \cap Linear!ToSet(linear_freeSlots) = {}
    <3>1. CASE Linear!Live(r)
      BY <1>4, <2>1, <3>1 DEF Linear!ToSet, StatesInv, SlotsApart
    <3>2. CASE ~ Linear!Live(r)
      BY <1>5, <3>2
    <3> QED
      BY <3>1, <3>2
  <2>4. ASSUME NEW r \in Requests, NEW q \in Requests, r # q
        PROVE  Linear!SlotsOf(r) \cap Linear!SlotsOf(q) = {}
    <3>1. CASE Linear!Live(r) /\ Linear!Live(q)
      <4>1. \A s \in Own(linear_req[r]) : s \notin Own(linear_req[q])
        BY <2>4, <3>1 DEF StatesInv, SlotsApart
      <4> QED
        BY <1>4, <3>1, <4>1
    <3>2. CASE ~ (Linear!Live(r) /\ Linear!Live(q))
      BY <1>5, <3>2
    <3> QED
      BY <3>1, <3>2
  <2> QED
    BY <2>2, <2>3, <2>4 DEF Linear!ExclusiveSlots
<1>7. Linear!FoldedExactly
  BY DEF StatesInv, Folded, OneRestore, IsHistory, Linear!FoldedExactly
<1>8. Linear!SnapshotAtAnchor
  <2> SUFFICES ASSUME NEW p \in DOMAIN linear_snapshots \ linear_lost
               PROVE  /\ linear_frozen[p].at < Len(p)
                      /\ linear_state[linear_snapshots[p]] =
                           linear_frozen[p].state \o SubSeq(p, linear_frozen[p].at + 1, Len(p))
                      /\ Linear!Last(p) = Opener
    BY DEF Linear!SnapshotAtAnchor
  <2>1. /\ linear_frozen[p].at < Len(p)
        /\ linear_state[linear_snapshots[p]] =
             linear_frozen[p].state \o SubSeq(p, linear_frozen[p].at + 1, Len(p))
    BY DEF StatesInv, SnapshotsEnd, IsHistory
  <2>2. Linear!Last(p) = Opener
    BY DEF StatesInv, AnchorsAreOpeners, Linear!Last
  <2> QED
    BY <2>1, <2>2
<1> QED
  BY <1>3, <1>6, <1>7, <1>8

\* The recurrent state of every request is the fold of its own tokens, whoever
\* is admitted, restored, sampled, finished or aborted next to it: no slot is
\* in two places; a state is exactly what it was last restored from, or found in
\* its slot, and the tokens after that, each once and in order; and a snapshot
\* stands for exactly the prefix it is registered under and is not written again,
\* unless the abort of its own request gives it away.  A prompt of several chunks
\* is restored before each of them and then lacks its first tokens: the theorem
\* says which, and covers that case (engine/engine.py,
\* kvcache/linear_state_pool.py).
THEOREM StatesAlwaysHistories == SuiteSpec => StatesAreHistories
<1>1. SuiteInit => StatesInv
  <2>1. MemoryAssumption
    BY MemoryAssumption DEF MemoryAssumption
  <2> QED
    BY <2>1, StatesInit DEF SuiteInit
<1>2. StatesInv /\ [SuiteNext]_allVars => StatesInv' /\ [FrozenStep]_(Linear!vars)
  BY StepKeepsStates
<1>3. StatesInv => Linear!TypeOK /\ Linear!ExclusiveSlots /\ Linear!FoldedExactly /\ Linear!SnapshotAtAnchor
  BY StatesSay
<1>4. [][FrozenStep]_(Linear!vars) => Linear!SnapshotFrozen
  BY PTL DEF FrozenStep, Linear!SnapshotFrozen
<1> QED
  BY <1>1, <1>2, <1>3, <1>4, PTL DEF SuiteSpec, StatesAreHistories
=============================================================================
