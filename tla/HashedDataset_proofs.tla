------------------------ MODULE HashedDataset_proofs ------------------------
(***************************************************************************)
(* For every size of the buffer, every size of an item and every number of *)
(* CPUs: goroutines do not write the same item, the progress counter is    *)
(* right, and what generateDataset() returns is complete; and goroutines   *)
(* with hashers of their own generate the same dataset.                    *)
(***************************************************************************)
EXTENDS HashedDataset, FiniteSetTheorems, TLAPS


(***************************************************************************)
(* Products and quotients, for the provers.                                *)
(***************************************************************************)
LEMMA TimesMonotone ==
  ASSUME NEW a \in Nat, NEW b \in Nat, NEW c \in Nat, a <= b
  PROVE  a * c <= b * c
<1>1. PICK d \in Nat : b = a + d
  <2>1. b - a \in Nat /\ b = a + (b - a)
    OBVIOUS
  <2> QED BY <2>1
<1>2. b * c = a * c + d * c
  BY <1>1
<1>3. d * c \in Nat /\ a * c \in Nat
  OBVIOUS
<1> QED BY <1>2, <1>3

LEMMA DivRange ==
  ASSUME NEW a \in Nat, NEW d \in Nat \ {0}
  PROVE  /\ a \div d \in Nat
         /\ d * (a \div d) <= a
         /\ a < d * (a \div d) + d
OBVIOUS

LEMMA TimesCancel ==
  ASSUME NEW a \in Nat, NEW b \in Nat, NEW d \in Nat \ {0}, d * a < d * b
  PROVE  a < b
<1>1. SUFFICES ASSUME b <= a PROVE FALSE
  OBVIOUS
<1>2. b * d <= a * d
  BY <1>1, TimesMonotone
<1>3. b * d = d * b /\ a * d = d * a
  OBVIOUS
<1>4. d * a \in Nat /\ d * b \in Nat
  OBVIOUS
<1> QED BY <1>2, <1>3, <1>4
-----------------------------------------------------------------------------
(***************************************************************************)
(* The segments: in order, disjoint, and together the whole buffer.        *)
(***************************************************************************)
LEMMA BatchesSuffice ==
  ASSUME TypeOK
  PROVE  batch \in Nat /\ items \in Nat /\ items <= threads * batch
<1> DEFINE w == hashBytes * threads
<1>1. hashBytes \in Nat \ {0} /\ size \in Nat /\ threads \in Nat \ {0}
  BY DatasetAssumption DEF TypeOK
<1>2. w \in Nat \ {0}
  BY <1>1
<1>3. size + w - 1 \in Nat
  BY <1>1, <1>2
<1>4. /\ batch \in Nat
      /\ size + w - 1 < w * batch + w
  <2> HIDE DEF w
  <2> QED BY <1>2, <1>3, DivRange DEF batch, w
<1>5. items \in Nat /\ hashBytes * items <= size
  BY <1>1, DivRange DEF items
<1>6. size <= w * batch
  <2> HIDE DEF w
  <2>1. w * batch \in Nat
    BY <1>2, <1>4
  <2> QED BY <2>1, <1>1, <1>2, <1>4
<1>7. w * batch = hashBytes * (threads * batch)
  BY <1>1, <1>4
<1>8. threads * batch \in Nat
  BY <1>1, <1>4
<1>9. hashBytes * items < hashBytes * (threads * batch + 1)
  <2>1. hashBytes * (threads * batch + 1) = hashBytes * (threads * batch) + hashBytes
    BY <1>1, <1>8
  <2>2. hashBytes * (threads * batch) \in Nat /\ hashBytes * items \in Nat
    BY <1>1, <1>5, <1>8
  <2> QED BY <2>1, <2>2, <1>1, <1>5, <1>6, <1>7
<1>10. items < threads * batch + 1
  BY <1>1, <1>5, <1>8, <1>9, TimesCancel
<1> QED BY <1>4, <1>5, <1>8, <1>10

LEMMA Segments ==
  ASSUME TypeOK
  PROVE  /\ \A id \in Thread : first(id) \in Nat /\ limit(id) \in Nat /\ limit(id) <= items
         /\ \A id, other \in Thread : id < other => limit(id) <= first(other)
         /\ \A i \in Item : \E id \in 0..(threads - 1) : first(id) <= i /\ i < limit(id)
<1>1. batch \in Nat /\ items \in Nat /\ items <= threads * batch
  BY BatchesSuffice
<1>2. threads \in Nat \ {0} /\ Thread \subseteq Nat
  BY DatasetAssumption DEF TypeOK, Thread
<1>3. \A id \in Thread : first(id) \in Nat
  BY <1>1, <1>2 DEF first
<1>4. \A id \in Thread : limit(id) \in Nat /\ limit(id) <= items /\ limit(id) <= first(id) + batch
  BY <1>1, <1>3 DEF limit
<1>5. ASSUME NEW id \in Thread, NEW other \in Thread, id < other
      PROVE  limit(id) <= first(other)
  <2>1. (id + 1) * batch <= other * batch
    BY <1>1, <1>2, <1>5, TimesMonotone
  <2>2. (id + 1) * batch = first(id) + batch
    BY <1>1, <1>2 DEF first
  <2>3. first(other) = other * batch
    BY DEF first
  <2> QED BY <1>1, <1>3, <1>4, <2>1, <2>2, <2>3
<1>6. ASSUME NEW i \in Item
      PROVE  \E id \in 0..(threads - 1) : first(id) <= i /\ i < limit(id)
  <2>1. i \in Nat /\ i < items
    BY <1>1 DEF Item
  <2>2. batch # 0
    <3>1. CASE batch = 0
      <4>1. threads * batch = 0
        BY <3>1, <1>2
      <4> QED BY <4>1, <1>1, <2>1
    <3> QED BY <3>1
  <2> DEFINE id == i \div batch
  <2>3. id \in Nat /\ batch * id <= i /\ i < batch * id + batch
    BY <1>1, <2>1, <2>2, DivRange
  <2> HIDE DEF id
  <2>4. id < threads
    <3>1. batch * threads = threads * batch
      BY <1>1, <1>2
    <3>2. batch * id < batch * threads
      <4>1. batch * id \in Nat /\ batch * threads \in Nat
        BY <1>1, <1>2, <2>3
      <4> QED BY <4>1, <3>1, <1>1, <2>1, <2>3
    <3> QED BY <3>2, <1>1, <1>2, <2>2, <2>3, TimesCancel
  <2>5. first(id) = batch * id
    BY <1>1, <2>3 DEF first
  <2>6. first(id) \in Nat
    BY <2>5, <2>3, <1>1
  <2>7. i < limit(id)
    BY <2>1, <2>3, <2>5, <2>6, <1>1 DEF limit
  <2>8. id \in 0..(threads - 1)
    BY <2>3, <2>4, <1>2
  <2> QED BY <2>3, <2>5, <2>7, <2>8
<1> QED BY <1>3, <1>4, <1>5, <1>6
-----------------------------------------------------------------------------
(***************************************************************************)
(* The inductive invariant.  A goroutine that was started has filled its   *)
(* segment up to where it is; the buffer holds nothing else; the WaitGroup *)
(* counts the goroutines that are not done.                                *)
(***************************************************************************)
Cpu == 0..(threads - 1)

Pending == {id \in Cpu : pc[id] # "done"}

Written(id, i) ==
  /\ id < started
  /\ first(id) <= i /\ i < limit(id)
  /\ i < index[id] \/ (i = index[id] /\ pc[id] = "copied")

WhereThreadsAre ==
  \A id \in Thread :
    /\ pc[id] = "idle" <=> id >= started
    /\ id < started => first(id) <= index[id]
    /\ pc[id] = "copied" => index[id] < limit(id)
    /\ pc[id] = "done" => index[id] >= limit(id)

BufferHolds ==
  \A i \in Item : dataset[i] = IF \E id \in Thread : Written(id, i) THEN i ELSE NoItem

PendCounts == pend = Cardinality(Pending)

ReturnedAtZero == returned => started = threads /\ pend = 0

Filled == {i \in Item : dataset[i] # NoItem}
Copied == {id \in Thread : pc[id] = "copied"}

IInv ==
  /\ TypeOK
  /\ WhereThreadsAre
  /\ BufferHolds
  /\ PendCounts
  /\ ReturnedAtZero
  /\ ProgressCountsItems

LEMMA Finite ==
  ASSUME TypeOK
  PROVE  /\ threads \in Nat \ {0} /\ items \in Nat /\ Thread \subseteq Nat
         /\ Cpu \subseteq Thread
         /\ IsFiniteSet(Cpu) /\ Cardinality(Cpu) = threads
         /\ IsFiniteSet(Pending) /\ IsFiniteSet(Filled) /\ IsFiniteSet(Copied)
<1>1. threads \in Nat \ {0} /\ items \in Nat /\ Thread \subseteq Nat /\ Cpu \subseteq Thread
  BY DatasetAssumption, BatchesSuffice DEF TypeOK, Thread, Cpu
<1>2. IsFiniteSet(Cpu) /\ Cardinality(Cpu) = threads
  BY <1>1, FS_Interval DEF Cpu
<1>3. IsFiniteSet(Item)
  BY <1>1, FS_Interval DEF Item
<1>4. IsFiniteSet(Thread)
  BY DatasetAssumption, FS_Interval DEF Thread
<1>5. Pending \in SUBSET Cpu /\ Filled \in SUBSET Item /\ Copied \in SUBSET Thread
  BY DEF Pending, Filled, Copied
<1> QED BY <1>1, <1>2, <1>3, <1>4, <1>5, FS_Subset

LEMMA InitInv == Init => IInv
<1> SUFFICES ASSUME Init PROVE IInv
  OBVIOUS
<1>1. TypeOK
  <2>1. threads \in 1..MaxThreads /\ threads \in Nat /\ 0 \in 0..threads
    BY DatasetAssumption DEF Init
  <2>2. index \in [Thread -> Nat] /\ pc \in [Thread -> {"idle", "loop", "copied", "done"}]
    BY DEF Init
  <2>3. dataset \in [Item -> Nat \cup {NoItem}]
    BY DEF Init
  <2>4. pend \in 0..threads /\ started \in 0..threads /\ progress \in Nat
    BY <2>1 DEF Init
  <2>5. size \in Sizes /\ returned \in BOOLEAN /\ panicked \in BOOLEAN
    BY DEF Init
  <2> QED BY <2>1, <2>2, <2>3, <2>4, <2>5 DEF TypeOK
<1>2. WhereThreadsAre
  BY <1>1, Finite DEF Init, WhereThreadsAre
<1>3. BufferHolds
  <2>1. \A id \in Thread : ~(id < started)
    BY <1>1, Finite DEF Init
  <2> QED BY <2>1 DEF Init, BufferHolds, Written
<1>4. PendCounts
  <2>1. Pending = Cpu
    BY <1>1, Finite DEF Init, Pending
  <2> QED BY <2>1, <1>1, Finite DEF PendCounts, Init
<1>5. ReturnedAtZero
  BY DEF Init, ReturnedAtZero
<1>6. ProgressCountsItems
  <2>1. Filled = {} /\ Copied = {}
    BY DEF Init, Filled, Copied
  <2>2. Cardinality({}) = 0
    BY FS_EmptySet
  <2> QED BY <2>1, <2>2 DEF ProgressCountsItems, Filled, Copied, Init
<1> QED BY <1>1, <1>2, <1>3, <1>4, <1>5, <1>6 DEF IInv

(***************************************************************************)
(* What no step changes.                                                   *)
(***************************************************************************)
LEMMA SegmentsStay ==
  ASSUME UNCHANGED <<size, threads>>
  PROVE  /\ items' = items /\ Item' = Item /\ Cpu' = Cpu
         /\ \A id : first(id)' = first(id) /\ limit(id)' = limit(id)
BY DEF items, Item, Cpu, first, limit, batch

LEMMA GoStep == IInv /\ Go => IInv'
<1> SUFFICES ASSUME IInv, Go PROVE IInv'
  OBVIOUS
<1> USE DEF IInv
<1>1. /\ items' = items /\ Item' = Item /\ Cpu' = Cpu
      /\ \A id : first(id)' = first(id) /\ limit(id)' = limit(id)
  BY SegmentsStay DEF Go
<1>2. threads \in Nat \ {0} /\ Thread \subseteq Nat /\ Cpu \subseteq Thread
  BY Finite
<1>3. started \in Thread /\ started < threads /\ started \in Nat
  BY <1>2, DatasetAssumption DEF Go, TypeOK, Thread
<1>4. first(started) \in Nat /\ pc[started] = "idle"
  BY <1>2, <1>3, Segments DEF WhereThreadsAre
<1>5. TypeOK'
  <2>1. (started + 1) \in 0..threads
    BY <1>2, <1>3
  <2>2. index' \in [Thread -> Nat] /\ pc' \in [Thread -> {"idle", "loop", "copied", "done"}]
    BY <1>4 DEF Go, TypeOK
  <2> QED BY <1>1, <2>1, <2>2 DEF Go, TypeOK
<1>6. \A id \in Thread : /\ id # started => pc'[id] = pc[id] /\ index'[id] = index[id]
                         /\ id = started => pc'[id] = "loop" /\ index'[id] = first(id)
  BY DEF Go, TypeOK
<1>7. WhereThreadsAre'
  <2> SUFFICES ASSUME NEW id \in Thread
               PROVE  /\ pc'[id] = "idle" <=> id >= started'
                      /\ id < started' => first(id) <= index'[id]
                      /\ pc'[id] = "copied" => index'[id] < limit(id)
                      /\ pc'[id] = "done" => index'[id] >= limit(id)
    BY <1>1 DEF WhereThreadsAre
  <2>1. CASE id = started
    BY <2>1, <1>2, <1>3, <1>4, <1>6 DEF Go
  <2>2. CASE id # started
    BY <2>2, <1>2, <1>3, <1>6 DEF Go, WhereThreadsAre
  <2> QED BY <2>1, <2>2
<1>8. BufferHolds'
  <2>1. ASSUME NEW id \in Thread, NEW i \in Item
        PROVE  Written(id, i)' <=> Written(id, i)
    <3>1. i \in Nat
      BY Finite DEF Item
    <3>2. CASE id = started
      BY <3>1, <3>2, <1>1, <1>2, <1>3, <1>4, <1>6 DEF Go, Written
    <3>3. CASE id # started
      BY <3>3, <1>1, <1>2, <1>3, <1>6 DEF Go, Written
    <3> QED BY <3>2, <3>3
  <2> QED BY <2>1, <1>1 DEF BufferHolds, Go
<1>9. PendCounts'
  <2>1. Pending' = Pending
    BY <1>1, <1>2, <1>3, <1>4, <1>6 DEF Pending
  <2> QED BY <2>1 DEF PendCounts, Go
<1>10. ReturnedAtZero'
  BY <1>2, <1>3 DEF ReturnedAtZero, Go
<1>11. ProgressCountsItems'
  <2>1. Filled' = Filled /\ Copied' = Copied
    BY <1>1, <1>4, <1>6 DEF Filled, Copied, Go
  <2> QED BY <2>1 DEF ProgressCountsItems, Filled, Copied, Go
<1> QED BY <1>5, <1>7, <1>8, <1>9, <1>10, <1>11

(***************************************************************************)
(* Where a running goroutine is, no other has written or will.             *)
(***************************************************************************)
LEMMA AtFreshItem ==
  ASSUME IInv, NEW id \in Thread, pc[id] = "loop", index[id] < limit(id)
  PROVE  /\ index[id] \in Item
         /\ id < started
         /\ first(id) <= index[id]
         /\ dataset[index[id]] = NoItem
<1> USE DEF IInv
<1>1. items \in Nat /\ Thread \subseteq Nat /\ threads \in Nat /\ started \in Nat
  BY Finite DEF TypeOK
<1>2. id < started /\ first(id) <= index[id]
  BY <1>1 DEF WhereThreadsAre
<1>3. index[id] \in Nat /\ limit(id) \in Nat /\ limit(id) <= items
  BY Segments DEF TypeOK
<1>4. index[id] \in Item
  BY <1>1, <1>3 DEF Item
<1>5. ASSUME NEW other \in Thread, Written(other, index[id])
      PROVE  FALSE
  <2>1. first(other) <= index[id] /\ index[id] < limit(other)
    BY <1>5 DEF Written
  <2>2. other # id
    BY <1>5, <1>3 DEF Written
  <2>3. first(id) \in Nat /\ first(other) \in Nat /\ limit(other) \in Nat
    BY Segments
  <2>4. id < other \/ other < id
    BY <2>2, <1>1
  <2>5. limit(id) <= first(other) \/ limit(other) <= first(id)
    BY <2>4, Segments
  <2> QED BY <2>1, <2>3, <2>5, <1>2, <1>3
<1>6. dataset[index[id]] = NoItem
  BY <1>4, <1>5 DEF BufferHolds
<1> QED BY <1>2, <1>4, <1>6

LEMMA CopyStep == \A id \in Thread : IInv /\ Copy(id) => IInv'
<1> SUFFICES ASSUME NEW id \in Thread, IInv, Copy(id) PROVE IInv'
  OBVIOUS
<1> USE DEF IInv
<1>1. /\ items' = items /\ Item' = Item /\ Cpu' = Cpu
      /\ \A t : first(t)' = first(t) /\ limit(t)' = limit(t)
  BY SegmentsStay DEF Copy
<1>2. items \in Nat /\ Item \subseteq Nat /\ NoItem \notin Nat
  BY Finite, DatasetAssumption DEF Item
<1>3. /\ pc[id] = "loop" /\ index[id] < limit(id)
      /\ index[id] \in Item /\ id < started
      /\ first(id) <= index[id] /\ dataset[index[id]] = NoItem
  BY AtFreshItem DEF Copy
<1>4. /\ \A t \in Thread : pc'[t] = IF t = id THEN "copied" ELSE pc[t]
      /\ \A i \in Item : dataset'[i] = IF i = index[id] THEN i ELSE dataset[i]
      /\ index' = index /\ started' = started
  BY DEF Copy, TypeOK
<1>5. TypeOK'
  <2>1. pc' \in [Thread -> {"idle", "loop", "copied", "done"}]
    BY DEF Copy, TypeOK
  <2>2. dataset' \in [Item -> Nat \cup {NoItem}]
    BY DEF Copy, TypeOK
  <2> QED BY <1>1, <2>1, <2>2 DEF Copy, TypeOK
<1>6. WhereThreadsAre'
  BY <1>1, <1>3, <1>4, Finite DEF WhereThreadsAre, TypeOK
<1>7. BufferHolds'
  <2>1. ASSUME NEW t \in Thread, NEW i \in Item, i # index[id] \/ t # id
        PROVE  Written(t, i)' <=> Written(t, i)
    <3>1. CASE t # id
      BY <3>1, <1>1, <1>4 DEF Written
    <3>2. CASE t = id
      BY <3>2, <2>1, <1>1, <1>3, <1>4 DEF Written
    <3> QED BY <3>1, <3>2
  <2>2. Written(id, index[id])'
    BY <1>1, <1>3, <1>4 DEF Written
  <2>3. ASSUME NEW i \in Item
        PROVE  dataset'[i] = IF \E t \in Thread : Written(t, i)' THEN i ELSE NoItem
    <3>1. CASE i = index[id]
      BY <3>1, <2>2, <1>4
    <3>2. CASE i # index[id]
      BY <3>2, <2>1, <1>4 DEF BufferHolds
    <3> QED BY <3>1, <3>2
  <2> QED BY <2>3, <1>1 DEF BufferHolds
<1>8. PendCounts'
  <2>1. Pending' = Pending
    BY <1>1, <1>3, <1>4, Finite DEF Pending
  <2> QED BY <2>1 DEF PendCounts, Copy
<1>9. ReturnedAtZero'
  BY DEF ReturnedAtZero, Copy
<1>10. ProgressCountsItems'
  <2>1. Filled' = Filled \cup {index[id]} /\ index[id] \notin Filled
    <3>1. \A i \in Item : i \in Filled' <=> (i \in Filled \/ i = index[id])
      BY <1>1, <1>2, <1>3, <1>4 DEF Filled
    <3>2. Filled' \subseteq Item /\ Filled \subseteq Item /\ index[id] \in Item
      BY <1>1, <1>3 DEF Filled
    <3>3. index[id] \notin Filled
      BY <1>3 DEF Filled
    <3> QED BY <3>1, <3>2, <3>3
  <2>2. Copied' = Copied \cup {id} /\ id \notin Copied
    BY <1>3, <1>4 DEF Copied
  <2>3. IsFiniteSet(Filled) /\ IsFiniteSet(Copied)
    BY Finite
  <2>4. Cardinality(Filled') = Cardinality(Filled) + 1
    BY <2>1, <2>3, FS_AddElement
  <2>5. Cardinality(Copied') = Cardinality(Copied) + 1
    BY <2>2, <2>3, FS_AddElement
  <2>6. Cardinality(Filled) = progress + Cardinality(Copied)
    BY DEF ProgressCountsItems, Filled, Copied
  <2>7. Cardinality(Copied) \in Nat /\ progress \in Nat /\ progress' = progress
    BY <2>3, FS_CardinalityType DEF TypeOK, Copy
  <2>8. Cardinality(Filled') = progress' + Cardinality(Copied')
    BY <2>4, <2>5, <2>6, <2>7
  <2> QED BY <2>8 DEF ProgressCountsItems, Filled, Copied
<1> QED BY <1>5, <1>6, <1>7, <1>8, <1>9, <1>10

LEMMA CountStep == \A id \in Thread : IInv /\ Count(id) => IInv'
<1> SUFFICES ASSUME NEW id \in Thread, IInv, Count(id) PROVE IInv'
  OBVIOUS
<1> USE DEF IInv
<1>1. /\ items' = items /\ Item' = Item /\ Cpu' = Cpu
      /\ \A t : first(t)' = first(t) /\ limit(t)' = limit(t)
  BY SegmentsStay DEF Count
<1>2. threads \in Nat /\ items \in Nat /\ Item \subseteq Nat /\ Thread \subseteq Nat
  BY Finite DEF Item
<1>3. \A t \in Thread : index[t] \in Nat /\ first(t) \in Nat /\ limit(t) \in Nat
  BY Segments DEF TypeOK
<1>4. /\ pc[id] = "copied" /\ index[id] < limit(id)
      /\ id < started /\ first(id) <= index[id]
  BY <1>2 DEF Count, WhereThreadsAre, TypeOK
<1>5. /\ \A t \in Thread : pc'[t] = IF t = id THEN "loop" ELSE pc[t]
      /\ \A t \in Thread : index'[t] = IF t = id THEN index[t] + 1 ELSE index[t]
      /\ dataset' = dataset /\ started' = started /\ pend' = pend
  BY DEF Count, TypeOK
<1>6. TypeOK'
  <2>1. pc' \in [Thread -> {"idle", "loop", "copied", "done"}] /\ index' \in [Thread -> Nat]
    BY <1>3 DEF Count, TypeOK
  <2>2. progress' \in Nat /\ panicked' \in BOOLEAN
    BY DEF Count, TypeOK
  <2> QED BY <1>1, <2>1, <2>2 DEF Count, TypeOK
<1>7. WhereThreadsAre'
  <2> SUFFICES ASSUME NEW t \in Thread
               PROVE  /\ pc'[t] = "idle" <=> t >= started'
                      /\ t < started' => first(t) <= index'[t]
                      /\ pc'[t] = "copied" => index'[t] < limit(t)
                      /\ pc'[t] = "done" => index'[t] >= limit(t)
    BY <1>1 DEF WhereThreadsAre
  <2>1. CASE t = id
    BY <2>1, <1>2, <1>3, <1>4, <1>5 DEF TypeOK
  <2>2. CASE t # id
    BY <2>2, <1>5 DEF WhereThreadsAre
  <2> QED BY <2>1, <2>2
<1>8. BufferHolds'
  <2>1. ASSUME NEW t \in Thread, NEW i \in Item
        PROVE  Written(t, i)' <=> Written(t, i)
    <3>1. CASE t # id
      BY <3>1, <1>1, <1>5 DEF Written
    <3>2. CASE t = id
      BY <3>2, <1>1, <1>2, <1>3, <1>4, <1>5 DEF Written
    <3> QED BY <3>1, <3>2
  <2> QED BY <2>1, <1>1, <1>5 DEF BufferHolds
<1>9. PendCounts'
  <2>1. Pending' = Pending
    BY <1>1, <1>4, <1>5, Finite DEF Pending
  <2> QED BY <2>1, <1>5 DEF PendCounts
<1>10. ReturnedAtZero'
  BY DEF ReturnedAtZero, Count
<1>11. ProgressCountsItems'
  <2>1. Filled' = Filled
    BY <1>1, <1>5 DEF Filled
  <2>2. Copied' = Copied \ {id} /\ id \in Copied
    BY <1>4, <1>5 DEF Copied
  <2>3. IsFiniteSet(Copied) /\ IsFiniteSet(Filled)
    BY Finite
  <2>4. Cardinality(Copied') = Cardinality(Copied) - 1
    BY <2>2, <2>3, FS_RemoveElement
  <2>5. Cardinality(Filled) = progress + Cardinality(Copied)
    BY DEF ProgressCountsItems, Filled, Copied
  <2>6. Cardinality(Copied) \in Nat /\ progress \in Nat /\ progress' = progress + 1
    BY <2>3, FS_CardinalityType DEF TypeOK, Count
  <2>7. Cardinality(Filled') = progress' + Cardinality(Copied')
    BY <2>1, <2>4, <2>5, <2>6
  <2> QED BY <2>7 DEF ProgressCountsItems, Filled, Copied
<1> QED BY <1>6, <1>7, <1>8, <1>9, <1>10, <1>11

LEMMA DoneStep == \A id \in Thread : IInv /\ Done(id) => IInv'
<1> SUFFICES ASSUME NEW id \in Thread, IInv, Done(id) PROVE IInv'
  OBVIOUS
<1> USE DEF IInv
<1>1. /\ items' = items /\ Item' = Item /\ Cpu' = Cpu
      /\ \A t : first(t)' = first(t) /\ limit(t)' = limit(t)
  BY SegmentsStay DEF Done
<1>2. threads \in Nat /\ items \in Nat /\ Item \subseteq Nat /\ Thread \subseteq Nat /\ Cpu \subseteq Thread
  BY Finite DEF Item
<1>3. /\ pc[id] = "loop" /\ index[id] >= limit(id) /\ id < started
  BY <1>2 DEF Done, WhereThreadsAre, TypeOK
<1>4. /\ \A t \in Thread : pc'[t] = IF t = id THEN "done" ELSE pc[t]
      /\ index' = index /\ dataset' = dataset /\ started' = started
      /\ progress' = progress /\ pend' = pend - 1
  BY DEF Done, TypeOK
<1>5. Pending' = Pending \ {id} /\ id \in Pending
  <2>1. id \in Cpu
    BY <1>2, <1>3 DEF Cpu, TypeOK
  <2> QED BY <2>1, <1>1, <1>2, <1>3, <1>4 DEF Pending
<1>6. pend' = Cardinality(Pending') /\ pend' \in Nat /\ pend' <= threads
  <2>1. IsFiniteSet(Pending) /\ IsFiniteSet(Pending \ {id}) /\ pend = Cardinality(Pending)
    BY Finite, FS_RemoveElement DEF PendCounts
  <2>2. Cardinality(Pending \ {id}) = Cardinality(Pending) - 1
    BY <2>1, <1>5, FS_RemoveElement
  <2>3. Cardinality(Pending \ {id}) \in Nat /\ pend \in 0..threads
    BY <2>1, FS_CardinalityType DEF TypeOK
  <2> QED BY <2>1, <2>2, <2>3, <1>2, <1>4, <1>5
<1>7. TypeOK'
  <2>1. pc' \in [Thread -> {"idle", "loop", "copied", "done"}]
    BY DEF Done, TypeOK
  <2>2. pend' \in 0..threads
    BY <1>2, <1>6
  <2> QED BY <1>1, <2>1, <2>2 DEF Done, TypeOK
<1>8. WhereThreadsAre'
  BY <1>1, <1>2, <1>3, <1>4 DEF WhereThreadsAre, TypeOK
<1>9. BufferHolds'
  <2>1. ASSUME NEW t \in Thread, NEW i \in Item
        PROVE  Written(t, i)' <=> Written(t, i)
    BY <1>1, <1>3, <1>4 DEF Written
  <2> QED BY <2>1, <1>1, <1>4 DEF BufferHolds
<1>10. PendCounts'
  BY <1>6 DEF PendCounts
<1>11. ReturnedAtZero'
  <2>1. pend # 0
    BY <1>4, <1>6 DEF TypeOK
  <2> QED BY <2>1 DEF ReturnedAtZero, Done
<1>12. ProgressCountsItems'
  <2>1. Filled' = Filled /\ Copied' = Copied
    BY <1>1, <1>3, <1>4 DEF Filled, Copied
  <2> QED BY <2>1, <1>4 DEF ProgressCountsItems, Filled, Copied
<1> QED BY <1>7, <1>8, <1>9, <1>10, <1>11, <1>12

LEMMA ReturnStep == IInv /\ Return => IInv'
<1> SUFFICES ASSUME IInv, Return PROVE IInv'
  OBVIOUS
<1> USE DEF IInv
<1>1. /\ items' = items /\ Item' = Item /\ Cpu' = Cpu
      /\ \A t : first(t)' = first(t) /\ limit(t)' = limit(t)
  BY SegmentsStay DEF Return
<1>2. TypeOK'
  BY <1>1 DEF Return, TypeOK
<1>3. WhereThreadsAre' /\ BufferHolds'
  BY <1>1 DEF Return, WhereThreadsAre, BufferHolds, Written
<1>4. PendCounts' /\ ReturnedAtZero'
  BY <1>1 DEF Return, PendCounts, Pending, ReturnedAtZero
<1>5. ProgressCountsItems'
  BY <1>1 DEF Return, ProgressCountsItems
<1> QED BY <1>2, <1>3, <1>4, <1>5

LEMMA StutterStep == IInv /\ UNCHANGED vars => IInv'
<1> SUFFICES ASSUME IInv, UNCHANGED vars PROVE IInv'
  OBVIOUS
<1> USE DEF IInv, vars
<1>1. /\ items' = items /\ Item' = Item /\ Cpu' = Cpu
      /\ \A t : first(t)' = first(t) /\ limit(t)' = limit(t)
  BY SegmentsStay
<1>2. TypeOK'
  BY <1>1 DEF TypeOK
<1>3. WhereThreadsAre' /\ BufferHolds'
  BY <1>1 DEF WhereThreadsAre, BufferHolds, Written
<1>4. PendCounts' /\ ReturnedAtZero'
  BY <1>1 DEF PendCounts, Pending, ReturnedAtZero
<1>5. ProgressCountsItems'
  BY <1>1 DEF ProgressCountsItems
<1> QED BY <1>2, <1>3, <1>4, <1>5

LEMMA NextInv == IInv /\ [Next]_vars => IInv'
BY GoStep, CopyStep, CountStep, DoneStep, ReturnStep, StutterStep DEF Next, Goroutine

LEMMA InductiveInvariant == Spec => []IInv
<1> QED BY InitInv, NextInv, PTL DEF Spec
-----------------------------------------------------------------------------
(***************************************************************************)
(* What it gives.                                                          *)
(***************************************************************************)
LEMMA SegmentsDoNotMeet == IInv => NoWriteRace
<1> SUFFICES ASSUME IInv, NEW id \in Thread, NEW other \in Thread,
                    AtItem(id), AtItem(other), id # other
             PROVE  index[id] # index[other]
  BY DEF NoWriteRace
<1> USE DEF IInv
<1>1. Thread \subseteq Nat /\ started \in Nat
  BY Finite DEF TypeOK
<1>2. \A t \in Thread : first(t) \in Nat /\ limit(t) \in Nat /\ index[t] \in Nat
  BY Segments DEF TypeOK
<1>3. /\ first(id) <= index[id] /\ index[id] < limit(id)
      /\ first(other) <= index[other] /\ index[other] < limit(other)
  BY <1>1 DEF AtItem, WhereThreadsAre
<1>4. id < other \/ other < id
  BY <1>1
<1>5. limit(id) <= first(other) \/ limit(other) <= first(id)
  BY <1>4, Segments
<1> QED BY <1>2, <1>3, <1>5

LEMMA NothingLeftOut == IInv => CompleteOnReturn
<1> SUFFICES ASSUME IInv, returned PROVE /\ \A i \in Item : dataset[i] = i
                                         /\ \A id \in Thread : pc[id] \notin {"loop", "copied"}
  BY DEF CompleteOnReturn
<1> USE DEF IInv
<1>1. threads \in Nat /\ Thread \subseteq Nat /\ Cpu \subseteq Thread /\ items \in Nat
  BY Finite
<1>2. started = threads /\ Pending = {}
  <2>1. pend = 0 /\ started = threads
    BY DEF ReturnedAtZero
  <2>2. IsFiniteSet(Pending)
    BY Finite
  <2> QED BY <2>1, <2>2, FS_EmptySet DEF PendCounts
<1>3. \A id \in Cpu : pc[id] = "done"
  BY <1>2 DEF Pending
<1>4. ASSUME NEW i \in Item PROVE dataset[i] = i
  <2>1. PICK id \in Cpu : first(id) <= i /\ i < limit(id)
    BY Segments DEF Cpu
  <2>2. id \in Thread /\ index[id] \in Nat /\ limit(id) \in Nat /\ i \in Nat
    BY <1>1, Segments DEF TypeOK, Item
  <2>3. index[id] >= limit(id)
    BY <1>3, <2>2 DEF WhereThreadsAre
  <2>4. id < started
    BY <1>1, <1>2 DEF Cpu
  <2>5. Written(id, i)
    BY <2>1, <2>2, <2>3, <2>4 DEF Written
  <2> QED BY <2>2, <2>5 DEF BufferHolds
<1>5. ASSUME NEW id \in Thread PROVE pc[id] \notin {"loop", "copied"}
  <2>1. CASE id \in Cpu
    BY <2>1, <1>3
  <2>2. CASE id \notin Cpu
    BY <2>2, <1>1, <1>2 DEF Cpu, WhereThreadsAre
  <2> QED BY <2>1, <2>2
<1> QED BY <1>4, <1>5

(***************************************************************************)
(* Whatever the size of the buffer and the number of CPUs, no two          *)
(* goroutines of generateDataset() are ever at the same item.              *)
(***************************************************************************)
THEOREM NoRaces == Spec => []NoWriteRace
<1> QED BY InductiveInvariant, SegmentsDoNotMeet, PTL

(***************************************************************************)
(* The shared progress counter always agrees with the buffer.              *)
(***************************************************************************)
THEOREM ProgressRight == Spec => [](TypeOK /\ ProgressCountsItems)
<1>1. IInv => TypeOK /\ ProgressCountsItems
  BY DEF IInv
<1> QED BY <1>1, InductiveInvariant, PTL

(***************************************************************************)
(* A dataset that generateDataset() has returned is complete, and nobody   *)
(* writes to it any more.                                                  *)
(***************************************************************************)
THEOREM ReturnsComplete == Spec => []CompleteOnReturn
<1> QED BY InductiveInvariant, NothingLeftOut, PTL
-----------------------------------------------------------------------------
(***************************************************************************)
(* The hashers.                                                            *)
(***************************************************************************)
(***************************************************************************)
(* While a goroutine is at an item its mix is that of the item, hashed as  *)
(* often as it has called its hasher; and its sponge holds what the call   *)
(* that is under way has put there.                                        *)
(***************************************************************************)
Between(id) == at[id] = "Reset" /\ calls[id] = 0

OwnMix(id) == mix[id] = Mix(index[id], calls[id])

OwnSponge(id) ==
  /\ at[id] = "Write" => absorbed[id] = << >> /\ ~squeezed[id]
  /\ at[id] = "Read" => absorbed[id] = <<mix[id]>> /\ ~squeezed[id]

Hashing(id) ==
  /\ at[id] \in {"Reset", "Write", "Read"}
  /\ calls[id] \in 0..HashesPerItem
  /\ at[id] # "Reset" => calls[id] < HashesPerItem
  /\ Between(id) \/ (pc[id] = "loop" /\ index[id] < limit(id) /\ OwnMix(id) /\ OwnSponge(id))

HashTypes ==
  /\ absorbed = [h \in Thread |-> absorbed[h]]
  /\ squeezed = [h \in Thread |-> squeezed[h]]
  /\ mix = [id \in Thread |-> mix[id]]
  /\ calls = [id \in Thread |-> calls[id]]
  /\ at = [id \in Thread |-> at[id]]

HInv == HashTypes /\ \A id \in Thread : Hashing(id)

(***************************************************************************)
(* What the last hash gives and what is copied.                            *)
(***************************************************************************)
LEMMA DigestOfMix ==
  ASSUME NEW i \in Nat, NEW n \in 0..1, NEW h,
         ~squeezed[h], absorbed[h] = <<Mix(i, n)>>
  PROVE  digest(h) = Mix(i, n + 1)
<1>1. Mix(i, n) # Garbled
  BY GarbledAssumption DEF Mix
<1>2. Len(absorbed[h]) = 1 /\ absorbed[h][1] = Mix(i, n)
  OBVIOUS
<1>3. digest(h) = [Mix(i, n) EXCEPT !.hashed = @ + 1]
  BY <1>1, <1>2 DEF digest
<1> QED BY <1>3 DEF Mix

LEMMA ItemOfMix ==
  ASSUME NEW i \in Nat
  PROVE  itemOf(Mix(i, HashesPerItem)) = i
BY GarbledAssumption DEF itemOf, Mix, HashesPerItem
-----------------------------------------------------------------------------
LEMMA HInitInv == HDInit => HInv
BY DEF HDInit, HInv, HashTypes, Hashing, Between, HashesPerItem

(***************************************************************************)
(* Each step, with the part of the state it reads.                         *)
(***************************************************************************)
LEMMA LimitsStay ==
  ASSUME UNCHANGED <<size, threads>>
  PROVE  \A id : limit(id)' = limit(id)
BY SegmentsStay

LEMMA ResetKeeps == \A id \in Thread : IInv /\ HInv /\ Reset(id) => HInv'
<1> SUFFICES ASSUME NEW id \in Thread, IInv, HInv, Reset(id) PROVE HInv'
  OBVIOUS
<1> USE DEF HInv, HashesPerItem
<1>1. HashTypes'
  BY DEF Reset, HashTypes
<1>2. ASSUME NEW t \in Thread PROVE Hashing(t)'
  <2>1. CASE t = id
    <3>1. /\ at'[t] = "Write" /\ calls'[t] = calls[t] /\ calls[t] \in 0..1
          /\ index' = index /\ pc' = pc /\ limit(t)' = limit(t) /\ pc[t] = "loop" /\ index[t] < limit(t)
      BY <2>1, LimitsStay DEF Reset, Generating, vars, HashTypes, Hashing
    <3>2. absorbed'[t] = << >> /\ ~squeezed'[t]
      BY <2>1 DEF Reset, HashTypes, hasherOf
    <3>3. mix'[t] = Mix(index[t], calls[t])
      BY <2>1 DEF Reset, HashTypes, Hashing, Between, OwnMix
    <3> QED BY <3>1, <3>2, <3>3 DEF Hashing, OwnMix, OwnSponge
  <2>2. CASE t # id
    <3>1. /\ at'[t] = at[t] /\ calls'[t] = calls[t] /\ mix'[t] = mix[t]
          /\ absorbed'[t] = absorbed[t] /\ squeezed'[t] = squeezed[t]
          /\ index' = index /\ pc' = pc /\ limit(t)' = limit(t)
      BY <2>2, LimitsStay DEF Reset, HashTypes, hasherOf, vars
    <3> QED BY <3>1 DEF Hashing, Between, OwnMix, OwnSponge
  <2> QED BY <2>1, <2>2
<1> QED BY <1>1, <1>2

LEMMA WriteKeeps == \A id \in Thread : IInv /\ HInv /\ Write(id) => HInv' /\ UNCHANGED vars
<1> SUFFICES ASSUME NEW id \in Thread, IInv, HInv, Write(id) PROVE HInv' /\ UNCHANGED vars
  OBVIOUS
<1> USE DEF HInv, HashesPerItem
<1>1. /\ calls[id] \in 0..1 /\ pc[id] = "loop" /\ index[id] < limit(id) /\ OwnMix(id)
      /\ absorbed[id] = << >> /\ ~squeezed[id]
  BY DEF Write, Hashing, Between, OwnSponge
<1>2. /\ absorbed' = [absorbed EXCEPT ![id] = Append(@, mix[id])]
      /\ UNCHANGED vars
  BY <1>1 DEF Write, hasherOf, vars
<1>3. HashTypes'
  BY <1>2 DEF Write, HashTypes
<1>4. ASSUME NEW t \in Thread PROVE Hashing(t)'
  <2>1. CASE t = id
    <3>1. /\ at'[t] = "Read" /\ calls'[t] = calls[t] /\ mix'[t] = mix[t]
          /\ squeezed'[t] = squeezed[t]
          /\ index' = index /\ pc' = pc /\ limit(t)' = limit(t)
      BY <2>1, <1>2, LimitsStay DEF Write, HashTypes, vars
    <3>2. absorbed'[t] = <<mix[t]>>
      BY <2>1, <1>1, <1>2 DEF HashTypes
    <3> QED BY <2>1, <1>1, <3>1, <3>2 DEF Hashing, OwnMix, OwnSponge
  <2>2. CASE t # id
    <3>1. /\ at'[t] = at[t] /\ calls'[t] = calls[t] /\ mix'[t] = mix[t]
          /\ absorbed'[t] = absorbed[t] /\ squeezed'[t] = squeezed[t]
          /\ index' = index /\ pc' = pc /\ limit(t)' = limit(t)
      BY <2>2, <1>2, LimitsStay DEF Write, HashTypes, vars
    <3> QED BY <3>1 DEF Hashing, Between, OwnMix, OwnSponge
  <2> QED BY <2>1, <2>2
<1> QED BY <1>2, <1>3, <1>4

LEMMA ReadKeeps == \A id \in Thread : IInv /\ HInv /\ Read(id) => HInv'
<1> SUFFICES ASSUME NEW id \in Thread, IInv, HInv, Read(id) PROVE HInv'
  OBVIOUS
<1> USE DEF HInv, HashesPerItem
<1>1. /\ calls[id] \in 0..1 /\ pc[id] = "loop" /\ index[id] < limit(id) /\ OwnMix(id)
      /\ absorbed[id] = <<mix[id]>> /\ ~squeezed[id]
  BY DEF Read, Hashing, Between, OwnSponge
<1>2. index[id] \in Nat
  BY DEF IInv, TypeOK
<1>3. digest(id) = Mix(index[id], calls[id] + 1)
  BY <1>1, <1>2, DigestOfMix DEF OwnMix
<1>4. HashTypes'
  BY DEF Read, HashTypes
<1>5. ASSUME NEW t \in Thread PROVE Hashing(t)'
  <2>1. CASE t = id
    <3>1. /\ at'[t] = "Reset" /\ calls'[t] = calls[t] + 1
          /\ mix'[t] = digest(t)
          /\ index' = index /\ pc' = pc /\ limit(t)' = limit(t)
      BY <2>1, LimitsStay DEF Read, HashTypes, hasherOf, vars
    <3> QED BY <2>1, <1>1, <1>3, <3>1 DEF Hashing, OwnMix, OwnSponge
  <2>2. CASE t # id
    <3>1. /\ at'[t] = at[t] /\ calls'[t] = calls[t] /\ mix'[t] = mix[t]
          /\ absorbed'[t] = absorbed[t] /\ squeezed'[t] = squeezed[t]
          /\ index' = index /\ pc' = pc /\ limit(t)' = limit(t)
      BY <2>2, LimitsStay DEF Read, HashTypes, hasherOf, vars
    <3> QED BY <3>1 DEF Hashing, Between, OwnMix, OwnSponge
  <2> QED BY <2>1, <2>2
<1> QED BY <1>4, <1>5

LEMMA CopyKeeps == \A id \in Thread : IInv /\ HInv /\ CopyItem(id) => HInv' /\ Copy(id)
<1> SUFFICES ASSUME NEW id \in Thread, IInv, HInv, CopyItem(id) PROVE HInv' /\ Copy(id)
  OBVIOUS
<1> USE DEF HInv
<1>1. itemOf(mix[id]) = index[id]
  <2>1. index[id] \in Nat
    BY DEF IInv, TypeOK
  <2>2. mix[id] = Mix(index[id], HashesPerItem)
    BY DEF CopyItem, Hashing, Between, OwnMix, HashesPerItem
  <2> QED BY <2>1, <2>2, ItemOfMix
<1>2. Copy(id)
  BY <1>1 DEF CopyItem, Copy, Generating
<1>3. HashTypes'
  BY DEF CopyItem, HashTypes
<1>4. ASSUME NEW t \in Thread PROVE Hashing(t)'
  <2>1. CASE t = id
    <3>1. at'[t] = "Reset" /\ calls'[t] = 0
      BY <2>1 DEF CopyItem, HashTypes
    <3> QED BY <3>1 DEF Hashing, Between, HashesPerItem
  <2>2. CASE t # id
    <3>1. /\ at'[t] = at[t] /\ calls'[t] = calls[t] /\ mix'[t] = mix[t]
          /\ absorbed'[t] = absorbed[t] /\ squeezed'[t] = squeezed[t]
          /\ index' = index /\ limit(t)' = limit(t)
      BY <2>2, LimitsStay DEF CopyItem, HashTypes
    <3>2. pc'[t] = pc[t]
      BY <2>2 DEF CopyItem, IInv, TypeOK
    <3> QED BY <3>1, <3>2 DEF Hashing, Between, OwnMix, OwnSponge
  <2> QED BY <2>1, <2>2
<1> QED BY <1>2, <1>3, <1>4

(***************************************************************************)
(* A step that leaves the hashers alone, and does not take a goroutine     *)
(* away from an item that it is hashing.                                   *)
(***************************************************************************)
LEMMA OtherKeeps ==
  ASSUME HInv, UNCHANGED hashVars, UNCHANGED <<size, threads>>,
         \A t \in Thread : Between(t) \/ (pc'[t] = pc[t] /\ index'[t] = index[t])
  PROVE  HInv'
<1> USE DEF HInv, hashVars
<1>1. HashTypes'
  BY DEF HashTypes
<1>2. ASSUME NEW t \in Thread PROVE Hashing(t)'
  <2>1. Hashing(t) /\ limit(t)' = limit(t)
    BY LimitsStay
  <2>2. CASE Between(t)
    BY <2>1, <2>2 DEF Hashing, Between
  <2>3. CASE ~Between(t)
    <3>1. pc'[t] = pc[t] /\ index'[t] = index[t]
      BY <2>3
    <3> QED BY <2>1, <2>3, <3>1 DEF Hashing, Between, OwnMix, OwnSponge
  <2> QED BY <2>2, <2>3
<1> QED BY <1>1, <1>2

LEMMA CountKeeps ==
  \A id \in Thread : IInv /\ HInv /\ Count(id) /\ UNCHANGED hashVars => HInv'
<1> SUFFICES ASSUME NEW id \in Thread, IInv, HInv, Count(id), UNCHANGED hashVars PROVE HInv'
  OBVIOUS
<1>1. Between(id)
  BY DEF HInv, Hashing, Count
<1>2. ASSUME NEW t \in Thread, t # id PROVE pc'[t] = pc[t] /\ index'[t] = index[t]
  BY <1>2 DEF Count, IInv, TypeOK
<1>3. UNCHANGED <<size, threads>>
  BY DEF Count
<1> QED BY <1>1, <1>2, <1>3, OtherKeeps

LEMMA DoneKeeps ==
  \A id \in Thread : IInv /\ HInv /\ Done(id) /\ UNCHANGED hashVars => HInv'
<1> SUFFICES ASSUME NEW id \in Thread, IInv, HInv, Done(id), UNCHANGED hashVars PROVE HInv'
  OBVIOUS
<1>1. Between(id)
  <2>1. index[id] \in Nat /\ limit(id) \in Nat
    BY Segments DEF IInv, TypeOK
  <2> QED BY <2>1 DEF HInv, Hashing, Done
<1>2. ASSUME NEW t \in Thread, t # id PROVE pc'[t] = pc[t] /\ index'[t] = index[t]
  BY <1>2 DEF Done, IInv, TypeOK
<1>3. UNCHANGED <<size, threads>>
  BY DEF Done
<1> QED BY <1>1, <1>2, <1>3, OtherKeeps

LEMMA GoKeeps == IInv /\ HInv /\ HDGo => HInv'
<1> SUFFICES ASSUME IInv, HInv, HDGo PROVE HInv'
  OBVIOUS
<1>1. started \in Nat /\ started < threads /\ threads \in 1..MaxThreads
  BY DEF HDGo, Go, IInv, TypeOK
<1>2. started \in Thread
  BY <1>1, DatasetAssumption DEF Thread
<1>3. pc[started] = "idle"
  BY <1>1, <1>2 DEF IInv, WhereThreadsAre
<1>4. Between(started)
  BY <1>2, <1>3 DEF HInv, Hashing
<1>5. ASSUME NEW t \in Thread, t # started PROVE pc'[t] = pc[t] /\ index'[t] = index[t]
  BY <1>5 DEF HDGo, Go, IInv, TypeOK
<1>6. UNCHANGED hashVars /\ UNCHANGED <<size, threads>>
  BY DEF HDGo, Go
<1> QED BY <1>4, <1>5, <1>6, OtherKeeps

LEMMA ReturnKeeps == HInv /\ HDReturn => HInv'
BY OtherKeeps DEF HDReturn, Return

LEMMA StutterKeeps == HInv /\ UNCHANGED hdVars => HInv'
BY OtherKeeps DEF hdVars, vars
-----------------------------------------------------------------------------
(***************************************************************************)
(* The steps map to steps of GenerateDataset, or change nothing there.     *)
(***************************************************************************)
LEMMA StepsMap == IInv /\ HInv /\ [HDNext]_hdVars => [Next]_vars /\ HInv'
<1> SUFFICES ASSUME IInv, HInv, [HDNext]_hdVars PROVE [Next]_vars /\ HInv'
  OBVIOUS
<1>1. CASE HDGo
  BY <1>1, GoKeeps DEF HDGo, Next
<1>2. CASE HDReturn
  BY <1>2, ReturnKeeps DEF HDReturn, Next
<1>3. ASSUME NEW id \in Thread, HashStep(id) PROVE UNCHANGED vars /\ HInv'
  BY <1>3, ResetKeeps, WriteKeeps, ReadKeeps DEF HashStep, Reset, Read
<1>4. ASSUME NEW id \in Thread, CopyItem(id) PROVE Next /\ HInv'
  BY <1>4, CopyKeeps DEF Next, Goroutine
<1>5. ASSUME NEW id \in Thread, Count(id) \/ Done(id), UNCHANGED hashVars
      PROVE  Next /\ HInv'
  BY <1>5, CountKeeps, DoneKeeps DEF Next, Goroutine
<1>6. CASE UNCHANGED hdVars
  BY <1>6, StutterKeeps DEF hdVars
<1> QED BY <1>1, <1>2, <1>3, <1>4, <1>5, <1>6 DEF HDNext, HDGoroutine

LEMMA HashersInv == HDSpec => [](IInv /\ HInv)
<1>1. HDInit => IInv /\ HInv
  BY InitInv, HInitInv DEF HDInit
<1>2. IInv /\ HInv /\ [HDNext]_hdVars => (IInv /\ HInv)'
  BY StepsMap, NextInv
<1> QED BY <1>1, <1>2, PTL DEF HDSpec

(***************************************************************************)
(* generateDataset() with its hashers implements generateDataset() with    *)
(* items that appear in the buffer at once: no call of a hasher comes      *)
(* between those of another goroutine, and no sponge panics.               *)
(***************************************************************************)
THEOREM HashersDoNotMix == HDSpec => ImplementsGenerateDataset
<1>1. HDInit => Init
  BY DEF HDInit
<1>2. IInv /\ HInv /\ [HDNext]_hdVars => [Next]_vars
  BY StepsMap
<1> QED BY <1>1, <1>2, HashersInv, PTL DEF HDSpec, Spec, ImplementsGenerateDataset

(***************************************************************************)
(* So that with hashers, too, nothing races, the counter is right, and     *)
(* the dataset returned is complete.                                       *)
(***************************************************************************)
THEOREM HashedSafe ==
  HDSpec => [](TypeOK /\ NoWriteRace /\ ProgressCountsItems /\ CompleteOnReturn)
BY HashersDoNotMix, NoRaces, ProgressRight, ReturnsComplete, PTL DEF ImplementsGenerateDataset
=============================================================================
