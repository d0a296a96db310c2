----------------------- MODULE DecentralizedKV_proofs -----------------------
(***************************************************************************)
(* Proofs about DecentralizedKV, for any users, keys, values, prices and   *)
(* number of slots.                                                        *)
(***************************************************************************)
EXTENDS DecentralizedKV, MerkleLib_proofs

(***************************************************************************)
(* The inductive invariant of what holds whatever is put.                  *)
(***************************************************************************)
SlotInv == TypeOK /\ KeysOwnSlots /\ SlotsDense

KVInv == SlotInv /\ Solvent
-----------------------------------------------------------------------------
(***************************************************************************)
(* Facts about the constants.                                              *)
(***************************************************************************)
LEMMA MulSucc == ASSUME NEW n \in Nat, NEW p \in Nat PROVE (n + 1) * p = n * p + p
OBVIOUS

LEMMA ScaleMono ==
  ASSUME NEW n \in Nat, NEW p \in Nat, NEW q \in Nat, p <= q PROVE n * p <= n * q
OBVIOUS

LEMMA DiscountType ==
  ASSUME NEW t \in Time
  PROVE  /\ t - startTime \in Nat
         /\ pow(dcfFactor, t - startTime) \in Nat
         /\ dcfFactor \in Nat /\ dcfFactor < One /\ dcfFactor <= One
<1>1. t - startTime \in Nat /\ dcfFactor \in Nat /\ dcfFactor < One /\ dcfFactor <= One
  BY ConstructorAssumption, PriceAssumption, OneType DEF Time
<1> QED  BY <1>1, PowType

LEMMA PriceDef ==
  ASSUME NEW t \in Time
  PROVE  priceAt[t] = (storageCost * pow(dcfFactor, t - startTime)) \div One
BY DEF priceAt, _upfrontPayment, _paymentInf

LEMMA PriceType == ASSUME NEW t \in Time PROVE priceAt[t] \in Nat
<1>1. storageCost * pow(dcfFactor, t - startTime) \in Nat
  BY DiscountType, PriceAssumption
<1> QED  BY <1>1, PriceDef, OneType, DivDef

(***************************************************************************)
(* Time only makes storage cheaper.                                        *)
(***************************************************************************)
LEMMA PriceFalls ==
  ASSUME NEW t \in Time, NEW u \in Time, t <= u
  PROVE  priceAt[u] <= priceAt[t]
<1> DEFINE before == pow(dcfFactor, t - startTime)
           after  == pow(dcfFactor, u - startTime)
<1>1. t - startTime <= u - startTime
  BY ConstructorAssumption DEF Time
<1>2. before \in Nat /\ after \in Nat /\ after <= before
  BY <1>1, DiscountType, PowAntitone
<1>3. priceAt[t] = (storageCost * before) \div One /\ priceAt[u] = (storageCost * after) \div One
  BY PriceDef
<1> HIDE DEF before, after
<1>4. /\ storageCost * after \in Nat /\ storageCost * before \in Nat
      /\ storageCost * after <= storageCost * before
  BY <1>2, PriceAssumption, ScaleMono
<1> QED  BY <1>3, <1>4, OneType, DivMono

(***************************************************************************)
(* The price can be computed at any time: neither pow() nor the product    *)
(* with the cost overflows a word, so that no put or remove reverts there  *)
(* (put() and removeTo() have no guard for it).                            *)
(***************************************************************************)
THEOREM PriceFits ==
  ASSUME NEW t \in Time
  PROVE  /\ powFits(dcfFactor, t - startTime)
         /\ storageCost * pow(dcfFactor, t - startTime) < Word
<1> DEFINE discount == pow(dcfFactor, t - startTime)
<1>1. powFits(dcfFactor, t - startTime)
  BY DiscountType, PowFits
<1>2. discount \in Nat /\ discount <= One
  BY DiscountType, PowAtMostOne
<1> HIDE DEF discount
<1>3. storageCost * discount <= storageCost * One
  BY <1>2, OneType, PriceAssumption, ScaleMono
<1>4. storageCost * discount \in Nat /\ storageCost * One \in Nat
  BY <1>2, OneType, PriceAssumption
<1>5. storageCost * discount < Word
  BY <1>3, <1>4, PriceAssumption, PowAssumption
<1> QED  BY <1>1, <1>5 DEF discount

LEMMA CommitmentType == ASSUME NEW d \in Data PROVE commitment[d] \in Hash
BY DEF commitment, Hash

LEMMA PhyAddrOfType ==
  ASSUME NEW slot \in KvIdx, NEW d \in Data PROVE PhyAddrOf(slot, d) \in PhyAddr
<1>1. Len(d) \in Nat
  BY DataAssumption
<1>2. Len(d) % 2 ^ KvSizeBits \in KvSizes
  <2> DEFINE m == 2 ^ KvSizeBits
  <2>1. m \in Nat \ {0}
    BY ConstructorAssumption
  <2>2. Len(d) % m \in 0..(m - 1)
    <3> HIDE DEF m
    <3> QED  BY <1>1, <2>1
  <2> QED  BY <2>2 DEF KvSizes
<1> QED  BY <1>2, CommitmentType DEF PhyAddrOf, PhyAddr

LEMMA NullAddrType == NullAddr \in PhyAddr
<1>1. 0 \in KvSizes
  <2> DEFINE m == 2 ^ KvSizeBits
  <2>1. m \in Nat \ {0}
    BY ConstructorAssumption
  <2>2. 0 \in 0..(m - 1)
    <3> HIDE DEF m
    <3> QED  BY <2>1
  <2> QED  BY <2>2 DEF KvSizes
<1>2. 0 \in KvIdx
  BY ConstructorAssumption DEF KvIdx
<1> QED  BY <1>1, <1>2 DEF NullAddr, PhyAddr, Hash
-----------------------------------------------------------------------------
(***************************************************************************)
(* Initially nothing is stored and nothing is owed.                        *)
(***************************************************************************)
LEMMA InitInv == Init => KVInv
<1> SUFFICES ASSUME Init PROVE KVInv
  OBVIOUS
<1> USE DEF Init, KVInit, SMInit
<1>1. TypeOK
  <2>1. timestamp \in Time /\ lastKvIdx \in KvIdx /\ balance \in 0..Supply
    BY ConstructorAssumption DEF Time, KvIdx
  <2>2. dataMap \in [KvIdx -> Seq(Nat)]
    OBVIOUS
  <2> QED  BY <2>1, <2>2, NullAddrType DEF TypeOK
<1>2. KeysOwnSlots
  BY DEF KeysOwnSlots, Exists, NullAddr
<1>3. SlotsDense
  BY DEF SlotsDense, KvIdx
<1>4. Solvent
  BY <1>1, PriceType DEF Solvent, TypeOK, upfrontPayment
<1> QED  BY <1>1, <1>2, <1>3, <1>4 DEF KVInv, SlotInv

(***************************************************************************)
(* A put takes the next free slot or keeps the one of its key.             *)
(***************************************************************************)
LEMMA PutInv ==
  ASSUME SlotInv, NEW s \in SKey, NEW d \in Data, NEW value \in Nat, put(s, d, value)
  PROVE  SlotInv' /\ (Solvent => Solvent')
<1> DEFINE slot == IF Exists(s) THEN kvMap[s].kvIdx ELSE lastKvIdx
<1> USE DEF SlotInv
<1>0. TypeOK /\ lastKvIdx \in Nat /\ MaxKvIdx \in Nat /\ balance \in Nat /\ Supply \in Nat
  BY ConstructorAssumption DEF TypeOK, KvIdx
<1>1. slot \in KvIdx
  BY <1>0 DEF TypeOK, PhyAddr
<1>2. /\ kvMap' = [kvMap EXCEPT ![s] = PhyAddrOf(slot, d)]
      /\ dataMap' = [dataMap EXCEPT ![slot] = d]
      /\ balance' = balance + value /\ balance' <= Supply
      /\ timestamp' = timestamp
      /\ appendSlot(s, value) \/ keepSlot(s)
  BY DEF put, putRaw
<1>3. kvMap' \in [SKey -> PhyAddr] /\ kvMap'[s].kvIdx = slot
  BY <1>0, <1>1, <1>2, PhyAddrOfType DEF TypeOK, PhyAddrOf
<1>4. dataMap' \in [KvIdx -> Seq(Nat)]
  BY <1>0, <1>2, DataAssumption DEF TypeOK
<1>5. balance' \in 0..Supply /\ timestamp' \in Time
  BY <1>0, <1>2 DEF TypeOK
<1>6. \A t \in SKey \ {s} : kvMap'[t] = kvMap[t]
  BY <1>0, <1>2 DEF TypeOK
<1>7. priceAt[timestamp] \in Nat /\ upfrontPayment' = upfrontPayment
  BY <1>0, <1>2, PriceType DEF TypeOK, upfrontPayment
<1>a. CASE appendSlot(s, value)
  <2>1. /\ ~Exists(s) /\ slot = lastKvIdx
        /\ value >= priceAt[timestamp]
        /\ lastKvIdx' = lastKvIdx + 1 /\ lastKvIdx' \in KvIdx
        /\ idxMap' = [idxMap EXCEPT ![lastKvIdx] = s]
    BY <1>a, <1>0 DEF appendSlot, upfrontPayment, KvIdx
  <2>2. TypeOK'
    BY <2>1, <1>0, <1>3, <1>4, <1>5 DEF TypeOK
  <2>3. KeysOwnSlots'
    <3> SUFFICES ASSUME NEW t \in SKey, Exists(t)'
                 PROVE  kvMap'[t].kvIdx < lastKvIdx' /\ idxMap'[kvMap'[t].kvIdx] = t
      BY DEF KeysOwnSlots
    <3>1. CASE t = s
      BY <3>1, <2>1, <1>0, <1>1, <1>3 DEF TypeOK
    <3>2. CASE t # s
      <4>1. Exists(t) /\ kvMap'[t] = kvMap[t]
        BY <3>2, <1>6 DEF Exists
      <4>2. kvMap[t].kvIdx < lastKvIdx /\ idxMap[kvMap[t].kvIdx] = t
        BY <4>1 DEF KeysOwnSlots
      <4>3. kvMap[t].kvIdx \in KvIdx
        BY <1>0 DEF TypeOK, PhyAddr
      <4> QED  BY <4>1, <4>2, <4>3, <2>1, <1>0 DEF TypeOK, KvIdx
    <3> QED  BY <3>1, <3>2
  <2>4. SlotsDense'
    <3> SUFFICES ASSUME NEW i \in KvIdx
                 PROVE  IF i < lastKvIdx' THEN idxMap'[i] # NoSkey
                        ELSE idxMap'[i] = NoSkey /\ dataMap'[i] = << >>
      BY DEF SlotsDense
    <3>1. CASE i = lastKvIdx
      BY <3>1, <2>1, <1>0, DataAssumption DEF TypeOK
    <3>2. CASE i # lastKvIdx
      <4>1. idxMap'[i] = idxMap[i] /\ dataMap'[i] = dataMap[i]
        BY <3>2, <2>1, <1>0, <1>2 DEF TypeOK
      <4>2. i < lastKvIdx' <=> i < lastKvIdx
        BY <3>2, <2>1, <1>0 DEF KvIdx
      <4> QED  BY <4>1, <4>2 DEF SlotsDense
    <3> QED  BY <3>1, <3>2
  <2>5. Solvent => Solvent'
    BY <2>1, <1>0, <1>2, <1>7, MulSucc DEF Solvent, upfrontPayment
  <2> QED  BY <2>2, <2>3, <2>4, <2>5
<1>b. CASE keepSlot(s)
  <2>1. Exists(s) /\ slot = kvMap[s].kvIdx /\ idxMap' = idxMap /\ lastKvIdx' = lastKvIdx
    BY <1>b DEF keepSlot
  <2>2. slot < lastKvIdx /\ idxMap[slot] = s
    BY <2>1 DEF KeysOwnSlots
  <2>3. TypeOK'
    BY <2>1, <1>0, <1>3, <1>4, <1>5 DEF TypeOK
  <2>4. KeysOwnSlots'
    BY <2>1, <2>2, <1>3, <1>6 DEF KeysOwnSlots, Exists
  <2>5. SlotsDense'
    BY <2>1, <2>2, <1>0, <1>2 DEF SlotsDense, TypeOK
  <2>6. Solvent => Solvent'
    BY <2>1, <1>0, <1>2, <1>7 DEF Solvent, upfrontPayment
  <2> QED  BY <2>3, <2>4, <2>5, <2>6
<1> QED  BY <1>2, <1>a, <1>b

(***************************************************************************)
(* A remove: the key L of the last slot moves into the slot i of s.        *)
(***************************************************************************)
LEMMA RemoveInv ==
  ASSUME SlotInv, NEW s \in SKey, removeTo(s)
  PROVE  SlotInv' /\ (Solvent => Solvent')
<1> DEFINE i    == kvMap[s].kvIdx
           last == lastKvIdx - 1
           L    == idxMap[last]
<1> USE DEF SlotInv
<1>0. /\ TypeOK /\ lastKvIdx \in Nat /\ lastKvIdx > 0 /\ MaxKvIdx \in Nat
      /\ balance \in Nat /\ Supply \in Nat /\ Exists(s)
      /\ kvMap[s] \in PhyAddr /\ i \in KvIdx
  BY ConstructorAssumption DEF TypeOK, KvIdx, PhyAddr, removeTo
<1>1. last \in KvIdx /\ i <= last /\ last < lastKvIdx /\ idxMap[i] = s
  BY <1>0 DEF KeysOwnSlots, KvIdx, TypeOK
<1>2. L \in SKey
  BY <1>0, <1>1 DEF SlotsDense, TypeOK
<1>3. /\ kvMap' = [[kvMap EXCEPT ![s] = NullAddr] EXCEPT ![L].kvIdx = i]
      /\ idxMap' = [[idxMap EXCEPT ![i] = L] EXCEPT ![last] = NoSkey]
      /\ dataMap' = [dataMap EXCEPT ![i] = dataMap[last], ![last] = << >>]
      /\ lastKvIdx' = last
      /\ balance >= upfrontPayment /\ balance' = balance - upfrontPayment
      /\ timestamp' = timestamp
  BY DEF removeTo, removeRaw
<1>4. /\ kvMap' \in [SKey -> PhyAddr]
      /\ ~Exists(s)'
      /\ L # s => kvMap'[L].kvIdx = i /\ kvMap'[L].hash = kvMap[L].hash
      /\ \A t \in SKey \ {s, L} : kvMap'[t] = kvMap[t]
  BY <1>0, <1>2, <1>3, NullAddrType DEF TypeOK, PhyAddr, NullAddr, Exists
<1>5. /\ idxMap' \in [KvIdx -> SKey \cup {NoSkey}]
      /\ idxMap'[last] = NoSkey
      /\ i # last => idxMap'[i] = L
      /\ \A j \in KvIdx \ {i, last} : idxMap'[j] = idxMap[j]
  BY <1>0, <1>1, <1>2, <1>3 DEF TypeOK
<1>6. /\ dataMap' \in [KvIdx -> Seq(Nat)]
      /\ dataMap'[last] = << >>
      /\ \A j \in KvIdx \ {i, last} : dataMap'[j] = dataMap[j]
  <2>1. << >> \in Seq(Nat) /\ dataMap[last] \in Seq(Nat)
    BY <1>0, <1>1 DEF TypeOK
  <2> QED  BY <2>1, <1>0, <1>1, <1>3 DEF TypeOK
<1>7. priceAt[timestamp] \in Nat /\ upfrontPayment = priceAt[timestamp]
      /\ upfrontPayment' = upfrontPayment
  BY <1>0, <1>3, PriceType DEF TypeOK, upfrontPayment
<1>8. /\ lastKvIdx' = last /\ timestamp' = timestamp
      /\ balance >= priceAt[timestamp] /\ balance' = balance - priceAt[timestamp]
  BY <1>3, <1>7
<1>9. balance' \in 0..Supply
  BY <1>0, <1>7, <1>8 DEF TypeOK
<1>a. TypeOK'
  BY <1>0, <1>1, <1>4, <1>5, <1>6, <1>8, <1>9 DEF TypeOK
<1>b. KeysOwnSlots'
  <2> SUFFICES ASSUME NEW t \in SKey, Exists(t)'
               PROVE  kvMap'[t].kvIdx < last /\ idxMap'[kvMap'[t].kvIdx] = t
    BY <1>3 DEF KeysOwnSlots
  <2>1. t # s
    BY <1>4
  <2>2. CASE t = L
    <3>1. i # last
      BY <1>1, <2>1, <2>2
    <3> QED  BY <3>1, <2>1, <2>2, <1>0, <1>1, <1>4, <1>5 DEF KvIdx
  <2>3. CASE t # L
    <3>1. kvMap'[t] = kvMap[t] /\ Exists(t)
      BY <2>1, <2>3, <1>4 DEF Exists
    <3>2. kvMap[t].kvIdx \in KvIdx /\ kvMap[t].kvIdx < lastKvIdx
          /\ idxMap[kvMap[t].kvIdx] = t
      BY <3>1, <1>0 DEF KeysOwnSlots, TypeOK, PhyAddr
    <3>3. kvMap[t].kvIdx # last /\ kvMap[t].kvIdx # i
      BY <3>2, <2>1, <2>3, <1>1
    <3> QED  BY <3>1, <3>2, <3>3, <1>0, <1>5 DEF KvIdx
  <2> QED  BY <2>2, <2>3
<1>c. SlotsDense'
  <2> SUFFICES ASSUME NEW j \in KvIdx
               PROVE  IF j < last THEN idxMap'[j] # NoSkey
                      ELSE idxMap'[j] = NoSkey /\ dataMap'[j] = << >>
    BY <1>3 DEF SlotsDense
  <2>1. CASE j = last
    BY <2>1, <1>0, <1>5, <1>6
  <2>2. CASE j # last /\ j = i
    BY <2>2, <1>0, <1>1, <1>2, <1>5, DataAssumption DEF KvIdx
  <2>3. CASE j # last /\ j # i
    <3>1. j < last <=> j < lastKvIdx
      BY <2>3, <1>0 DEF KvIdx
    <3> QED  BY <3>1, <2>3, <1>5, <1>6 DEF SlotsDense
  <2> QED  BY <2>1, <2>2, <2>3
<1>d. Solvent => Solvent'
  <2>1. lastKvIdx * upfrontPayment = last * upfrontPayment + upfrontPayment
    BY <1>0, <1>1, <1>7, MulSucc DEF KvIdx
  <2>2. last * upfrontPayment \in Nat
    BY <1>1, <1>7 DEF KvIdx
  <2> HIDE DEF last
  <2> QED  BY <2>1, <2>2, <1>0, <1>3, <1>7 DEF Solvent
<1> QED  BY <1>a, <1>b, <1>c, <1>d

(***************************************************************************)
(* Time only makes refunds cheaper.                                        *)
(***************************************************************************)
LEMMA TickInv ==
  ASSUME SlotInv, Tick
  PROVE  SlotInv' /\ (Solvent => Solvent')
<1> USE DEF SlotInv
<1>1. /\ timestamp \in Time /\ timestamp' \in Time /\ timestamp <= timestamp'
      /\ UNCHANGED <<kvMap, idxMap, lastKvIdx, dataMap, balance>>
      /\ lastKvIdx \in Nat /\ balance \in Nat
  BY ConstructorAssumption DEF Tick, TypeOK, Time, KvIdx
<1>2. TypeOK' /\ KeysOwnSlots' /\ SlotsDense'
  BY <1>1 DEF TypeOK, KeysOwnSlots, SlotsDense, Exists
<1>3. Solvent => Solvent'
  <2>1. priceAt[timestamp'] <= priceAt[timestamp]
    BY <1>1, PriceFalls
  <2>2. lastKvIdx * priceAt[timestamp'] <= lastKvIdx * priceAt[timestamp]
    BY <2>1, <1>1, PriceType, ScaleMono
  <2>3. lastKvIdx * priceAt[timestamp'] \in Nat /\ lastKvIdx * priceAt[timestamp] \in Nat
    BY <1>1, PriceType
  <2> QED  BY <2>2, <2>3, <1>1 DEF Solvent, upfrontPayment
<1> QED  BY <1>2, <1>3

LEMMA NextInv == KVInv /\ [Next]_kvVars => KVInv'
<1> SUFFICES ASSUME KVInv, [Next]_kvVars PROVE KVInv'
  OBVIOUS
<1>1. CASE Put
  BY <1>1, PutInv DEF KVInv, SlotInv, Put, Offers
<1>2. CASE Remove
  BY <1>2, RemoveInv DEF KVInv, SlotInv, Remove
<1>3. CASE Tick
  BY <1>3, TickInv DEF KVInv, SlotInv
<1>4. CASE UNCHANGED kvVars
  BY <1>4 DEF kvVars, KVInv, SlotInv, TypeOK, KeysOwnSlots, SlotsDense, Solvent, Exists, upfrontPayment
<1> QED  BY <1>1, <1>2, <1>3, <1>4 DEF Next
-----------------------------------------------------------------------------
(***************************************************************************)
(* Whatever is put and removed, by whom and when: the state is well typed, *)
(* a key that exists owns the slot it points to, the slots in use are      *)
(* dense, and the contract can refund every slot at today's price.         *)
(***************************************************************************)
THEOREM KVSafety == Spec => [](TypeOK /\ KeysOwnSlots /\ SlotsDense /\ Solvent)
<1>1. Spec => []KVInv
  BY InitInv, NextInv, PTL DEF Spec
<1> QED  BY <1>1, PTL DEF KVInv, SlotInv

(***************************************************************************)
(* Each of them by itself.  Metadata, raw data and money stay in their     *)
(* ranges: put() and remove() are never asked for a slot that is not there. *)
(***************************************************************************)
THEOREM KVTyped == Spec => []TypeOK
<1> QED  BY KVSafety, PTL

(***************************************************************************)
(* Removes leave no hole, and no data behind the last slot.                *)
(***************************************************************************)
THEOREM SlotsStayDense == Spec => []SlotsDense
<1> QED  BY KVSafety, PTL

(***************************************************************************)
(* No remove() reverts for want of wei, at whatever prices slots were paid. *)
(***************************************************************************)
THEOREM RefundsCovered == Spec => []Solvent
<1> QED  BY KVSafety, PTL
-----------------------------------------------------------------------------
(***************************************************************************)
(* When no empty data is put.  The inductive invariant adds what the slot  *)
(* of a key holds: the data its metadata describes.                        *)
(***************************************************************************)
SlotHolds(s, d) ==
  /\ d \in Data /\ Len(d) <= maxKvSize
  /\ kvMap[s].hash = commitment[d]
  /\ kvMap[s].kvSize = Len(d)

SlotsHold == \A s \in SKey : Exists(s) => SlotHolds(s, dataMap[kvMap[s].kvIdx])

ReadInv == SlotInv /\ ReverseLookup /\ SlotsHold

LEMMA NothingHeld == ASSUME KVInit, SlotInv PROVE ReadInv
<1>1. lastKvIdx = 0 /\ \A s \in SKey : ~Exists(s)
  BY DEF KVInit, Exists, NullAddr
<1> QED  BY <1>1 DEF ReadInv, ReverseLookup, SlotsHold, KvIdx

LEMMA ReadInit == Init => ReadInv
BY InitInv, NothingHeld DEF Init, KVInv

(***************************************************************************)
(* A value that is not empty has a commitment, so that its key exists.     *)
(***************************************************************************)
LEMMA CommitmentExists ==
  ASSUME NEW d \in Data, Len(d) # 0
  PROVE  commitment[d] # ZeroHash
<1>1. d \in Seq(Nat) /\ chunkSize \in Nat \ {0}
  BY DataAssumption, ConstructorAssumption
<1>2. merkleRootWithMinTree(d, chunkSize) # ZeroHash
  BY <1>1, CommitmentNotZero
<1> QED BY <1>2 DEF commitment

LEMMA SizeFits ==
  ASSUME NonEmptyWrites, Committable, NEW d \in Data, Len(d) <= maxKvSize
  PROVE  Len(d) % 2 ^ KvSizeBits = Len(d) /\ commitment[d] # ZeroHash
<1> DEFINE m == 2 ^ KvSizeBits
<1>1. m \in Nat \ {0}
  BY ConstructorAssumption
<1>2. Len(d) \in Nat /\ Len(d) < m /\ commitment[d] # ZeroHash
  BY DataAssumption, CommitmentExists DEF NonEmptyWrites, Committable
<1>3. Len(d) % m = Len(d)
  <2> HIDE DEF m
  <2> QED  BY <1>1, <1>2
<1> QED  BY <1>2, <1>3

LEMMA ReadPut ==
  ASSUME NonEmptyWrites, Committable,
         ReadInv, NEW s \in SKey, NEW d \in Data, NEW value \in Nat, put(s, d, value)
  PROVE  ReadInv'
<1> DEFINE slot == IF Exists(s) THEN kvMap[s].kvIdx ELSE lastKvIdx
<1>0. SlotInv /\ SlotInv' /\ TypeOK /\ KeysOwnSlots
  BY PutInv DEF ReadInv, SlotInv
<1>1. /\ kvMap' = [kvMap EXCEPT ![s] = PhyAddrOf(slot, d)]
      /\ dataMap' = [dataMap EXCEPT ![slot] = d]
      /\ Len(d) <= maxKvSize
      /\ appendSlot(s, value) \/ keepSlot(s)
  BY DEF put, putRaw
<1>2. lastKvIdx \in Nat /\ slot \in KvIdx
  BY <1>0 DEF TypeOK, KvIdx, PhyAddr
<1>3. kvMap'[s] = PhyAddrOf(slot, d) /\ \A t \in SKey \ {s} : kvMap'[t] = kvMap[t]
  BY <1>0, <1>1 DEF TypeOK
<1>4. /\ kvMap'[s].kvIdx = slot /\ kvMap'[s].hash = commitment[d] /\ kvMap'[s].kvSize = Len(d)
      /\ Exists(s)'
  BY <1>1, <1>3, SizeFits DEF PhyAddrOf, Exists
<1>5. dataMap'[slot] = d /\ \A i \in KvIdx \ {slot} : dataMap'[i] = dataMap[i]
  BY <1>0, <1>1, <1>2 DEF TypeOK
<1>6. \A t \in SKey \ {s} : Exists(t) =>
         kvMap[t].kvIdx \in KvIdx /\ kvMap[t].kvIdx # slot
  BY <1>0 DEF KeysOwnSlots, TypeOK, PhyAddr, KvIdx
<1>7. SlotsHold'
  <2> SUFFICES ASSUME NEW t \in SKey, Exists(t)'
               PROVE  SlotHolds(t, dataMap[kvMap[t].kvIdx])'
    BY DEF SlotsHold
  <2>1. CASE t = s
    BY <2>1, <1>1, <1>4, <1>5 DEF SlotHolds
  <2>2. CASE t # s
    BY <2>2, <1>3, <1>5, <1>6 DEF SlotHolds, SlotsHold, ReadInv, Exists
  <2> QED  BY <2>1, <2>2
<1>8. ReverseLookup'
  <2> SUFFICES ASSUME NEW i \in KvIdx, i < lastKvIdx'
               PROVE  kvMap'[idxMap'[i]].hash # ZeroHash /\ kvMap'[idxMap'[i]].kvIdx = i
    BY DEF ReverseLookup, Exists
  <2>1. CASE appendSlot(s, value)
    <3>1. ~Exists(s) /\ slot = lastKvIdx /\ lastKvIdx' = lastKvIdx + 1
          /\ idxMap' = [idxMap EXCEPT ![lastKvIdx] = s]
      BY <2>1 DEF appendSlot
    <3>2. CASE i = lastKvIdx
      BY <3>1, <3>2, <1>0, <1>2, <1>4 DEF TypeOK, Exists
    <3>3. CASE i # lastKvIdx
      <4>1. i < lastKvIdx /\ idxMap'[i] = idxMap[i]
        BY <3>1, <3>3, <1>0, <1>2 DEF TypeOK, KvIdx
      <4>2. Exists(idxMap[i]) /\ kvMap[idxMap[i]].kvIdx = i
        BY <4>1 DEF ReadInv, ReverseLookup
      <4>3. idxMap[i] \in SKey \ {s}
        BY <4>1, <4>2, <3>1, <1>0 DEF SlotInv, SlotsDense, TypeOK
      <4> QED  BY <4>1, <4>2, <4>3, <1>3 DEF Exists
    <3> QED  BY <3>2, <3>3
  <2>2. CASE keepSlot(s)
    <3>1. Exists(s) /\ slot = kvMap[s].kvIdx /\ lastKvIdx' = lastKvIdx /\ idxMap' = idxMap
      BY <2>2 DEF keepSlot
    <3>2. Exists(idxMap[i]) /\ kvMap[idxMap[i]].kvIdx = i /\ idxMap[i] \in SKey
      BY <3>1, <1>0 DEF ReadInv, ReverseLookup, SlotInv, SlotsDense, TypeOK
    <3> QED  BY <3>1, <3>2, <1>3, <1>4 DEF Exists
  <2> QED  BY <2>1, <2>2, <1>1
<1> QED  BY <1>0, <1>7, <1>8 DEF ReadInv

LEMMA ReadRemove ==
  ASSUME ReadInv, NEW s \in SKey, removeTo(s)
  PROVE  ReadInv'
<1> DEFINE i    == kvMap[s].kvIdx
           last == lastKvIdx - 1
           L    == idxMap[last]
<1>0. SlotInv /\ SlotInv' /\ TypeOK /\ KeysOwnSlots /\ SlotsDense /\ ReverseLookup /\ SlotsHold
  BY RemoveInv DEF ReadInv, SlotInv
<1>1. /\ lastKvIdx \in Nat /\ lastKvIdx > 0 /\ MaxKvIdx \in Nat /\ Exists(s) /\ i \in KvIdx
      /\ last \in KvIdx /\ last < lastKvIdx /\ i <= last /\ idxMap[i] = s
  BY <1>0, ConstructorAssumption DEF TypeOK, KvIdx, PhyAddr, removeTo, KeysOwnSlots
<1>2. L \in SKey /\ Exists(L) /\ kvMap[L].kvIdx = last
  BY <1>0, <1>1 DEF SlotsDense, TypeOK, ReverseLookup
<1>3. /\ kvMap' = [[kvMap EXCEPT ![s] = NullAddr] EXCEPT ![L].kvIdx = i]
      /\ idxMap' = [[idxMap EXCEPT ![i] = L] EXCEPT ![last] = NoSkey]
      /\ dataMap' = [dataMap EXCEPT ![i] = dataMap[last], ![last] = << >>]
      /\ lastKvIdx' = last
  BY DEF removeTo, removeRaw
<1>4. /\ ~Exists(s)'
      /\ L # s => /\ kvMap'[L].kvIdx = i /\ kvMap'[L].hash = kvMap[L].hash
                  /\ kvMap'[L].kvSize = kvMap[L].kvSize
      /\ \A t \in SKey \ {s, L} : kvMap'[t] = kvMap[t]
  BY <1>0, <1>2, <1>3 DEF TypeOK, PhyAddr, NullAddr, Exists
<1>5. /\ i # last => idxMap'[i] = L
      /\ \A j \in KvIdx \ {i, last} : idxMap'[j] = idxMap[j]
  BY <1>0, <1>1, <1>2, <1>3 DEF TypeOK
<1>6. /\ i # last => dataMap'[i] = dataMap[last]
      /\ \A j \in KvIdx \ {i, last} : dataMap'[j] = dataMap[j]
  BY <1>0, <1>1, <1>3 DEF TypeOK
<1>7. L # s => i # last
  BY <1>1
<1>8. \A t \in SKey \ {s, L} : Exists(t) =>
         kvMap[t].kvIdx \in KvIdx /\ kvMap[t].kvIdx \notin {i, last}
  BY <1>0, <1>1 DEF KeysOwnSlots, TypeOK, PhyAddr
<1>9. SlotsHold'
  <2> SUFFICES ASSUME NEW t \in SKey, Exists(t)'
               PROVE  SlotHolds(t, dataMap[kvMap[t].kvIdx])'
    BY DEF SlotsHold
  <2>1. t # s
    BY <1>4
  <2>2. CASE t = L
    <3>1. SlotHolds(L, dataMap[last])
      BY <1>0, <1>2 DEF SlotsHold
    <3> QED  BY <3>1, <2>1, <2>2, <1>4, <1>6, <1>7 DEF SlotHolds
  <2>3. CASE t # L
    <3>1. Exists(t) /\ kvMap'[t] = kvMap[t]
      BY <2>1, <2>3, <1>4 DEF Exists
    <3>2. SlotHolds(t, dataMap[kvMap[t].kvIdx])
      BY <3>1, <1>0 DEF SlotsHold
    <3> QED  BY <3>1, <3>2, <2>1, <2>3, <1>6, <1>8 DEF SlotHolds
  <2> QED  BY <2>2, <2>3
<1>10. ReverseLookup'
  <2> SUFFICES ASSUME NEW j \in KvIdx, j < last
               PROVE  kvMap'[idxMap'[j]].hash # ZeroHash /\ kvMap'[idxMap'[j]].kvIdx = j
    BY <1>3 DEF ReverseLookup, Exists
  <2>1. CASE j = i
    <3>1. L # s /\ i # last
      BY <2>1, <1>1, <1>2
    <3> QED  BY <3>1, <2>1, <1>2, <1>4, <1>5 DEF Exists
  <2>2. CASE j # i
    <3>1. j < lastKvIdx /\ j # last /\ idxMap'[j] = idxMap[j]
      BY <2>2, <1>1, <1>5 DEF KvIdx
    <3>2. Exists(idxMap[j]) /\ kvMap[idxMap[j]].kvIdx = j /\ idxMap[j] \in SKey
      BY <3>1, <1>0 DEF ReverseLookup, SlotsDense, TypeOK
    <3>3. idxMap[j] # s /\ idxMap[j] # L
      BY <3>1, <3>2, <2>2, <1>2
    <3> QED  BY <3>1, <3>2, <3>3, <1>4 DEF Exists
  <2> QED  BY <2>1, <2>2
<1> QED  BY <1>0, <1>9, <1>10 DEF ReadInv

LEMMA StillHeld ==
  ASSUME ReadInv, SlotInv', UNCHANGED <<kvMap, idxMap, lastKvIdx, dataMap>>
  PROVE  ReadInv'
BY DEF ReadInv, ReverseLookup, SlotsHold, SlotHolds, Exists

LEMMA ReadNext ==
  ASSUME NonEmptyWrites, Committable
  PROVE  ReadInv /\ [Next]_kvVars => ReadInv'
<1> SUFFICES ASSUME ReadInv, [Next]_kvVars PROVE ReadInv'
  OBVIOUS
<1>1. CASE Put
  BY <1>1, ReadPut DEF Put, Offers
<1>2. CASE Remove
  BY <1>2, ReadRemove DEF Remove
<1>3. CASE Tick \/ UNCHANGED kvVars
  <2>1. UNCHANGED <<kvMap, idxMap, lastKvIdx, dataMap>>
    BY <1>3 DEF Tick, kvVars
  <2>2. SlotInv'
    BY <1>3, TickInv DEF ReadInv, SlotInv, kvVars, TypeOK, KeysOwnSlots, SlotsDense, Exists
  <2> QED  BY <2>1, <2>2, StillHeld
<1> QED  BY <1>1, <1>2, <1>3 DEF Next

(***************************************************************************)
(* What get() returns of a key that exists: all the data of its slot.      *)
(***************************************************************************)
LEMMA GetAll ==
  ASSUME NonEmptyWrites, Committable, ReadInv, NEW s \in SKey, Exists(s),
         NEW len \in Nat, len >= size(s)
  PROVE  /\ get(s, 0, len) = dataMap[kvMap[s].kvIdx]
         /\ SlotHolds(s, get(s, 0, len))
<1> DEFINE d == dataMap[kvMap[s].kvIdx]
<1>1. SlotHolds(s, d)
  BY DEF ReadInv, SlotsHold
<1>2. d \in Seq(Nat) /\ Len(d) \in Nat /\ Len(d) # 0 /\ size(s) = Len(d)
      /\ kvMap[s].hash = merkleRootWithMinTree(d, CHUNK_SIZE)
  BY <1>1, DataAssumption DEF SlotHolds, NonEmptyWrites, Committable, size
<1>3. Slice(d, 0, Len(d)) = d
  BY <1>2 DEF Slice
<1>4. ~(len = 0 \/ 0 >= Len(d)) /\ ~(Len(d) > Len(d) - 0) /\ Len(d) - 0 = Len(d)
      /\ (len + 0 > Len(d) \/ len = Len(d))
  BY <1>2
<1>5. get(s, 0, len) = getRaw(kvMap[s].hash, kvMap[s].kvIdx, 0, Len(d))
  BY <1>2, <1>4 DEF get, size
<1>6. getRaw(kvMap[s].hash, kvMap[s].kvIdx, 0, Len(d)) = d
  BY <1>2, <1>3, <1>4 DEF getRaw
<1> QED  BY <1>1, <1>5, <1>6

LEMMA ReadRetrievable ==
  ASSUME NonEmptyWrites, Committable, ReadInv
  PROVE  Retrievable
<1> SUFFICES ASSUME NEW s \in SKey, Exists(s)
             PROVE  LET data == get(s, 0, size(s))
                    IN  data # Revert /\ verifyData(s, data)
  BY DEF Retrievable
<1>1. size(s) \in Nat
  BY DEF ReadInv, SlotInv, TypeOK, PhyAddr, KvSizes, size
<1>2. SlotHolds(s, get(s, 0, size(s)))
  BY <1>1, GetAll
<1>3. get(s, 0, size(s)) \in Data
  BY <1>2 DEF SlotHolds
<1>4. get(s, 0, size(s)) # Revert
  BY <1>3, DataAssumption
<1> QED  BY <1>2, <1>4 DEF SlotHolds, verifyData

LEMMA ReadCounts ==
  ASSUME ReadInv
  PROVE  CountsEntries
<1> DEFINE Live == {s \in SKey : Exists(s)}
           Used == 0..(lastKvIdx - 1)
           f    == [i \in Used |-> idxMap[i]]
<1>1. lastKvIdx \in Nat /\ \A i \in Used : i \in KvIdx /\ i < lastKvIdx
  BY ConstructorAssumption DEF ReadInv, SlotInv, TypeOK, KvIdx
<1>2. \A i \in Used : idxMap[i] \in Live /\ kvMap[idxMap[i]].kvIdx = i
  BY <1>1 DEF ReadInv, SlotInv, TypeOK, SlotsDense, ReverseLookup
<1>3. \A s \in Live : kvMap[s].kvIdx \in Used /\ idxMap[kvMap[s].kvIdx] = s
  BY <1>1 DEF ReadInv, SlotInv, TypeOK, PhyAddr, KvIdx, KeysOwnSlots
<1>4. f \in Injection(Used, Live)
  BY <1>2 DEF Injection, IsInjective
<1>5. f \in Surjection(Used, Live)
  BY <1>2, <1>3 DEF Surjection
<1>6. ExistsBijection(Used, Live)
  BY <1>4, <1>5 DEF ExistsBijection, Bijection
<1>7. IsFiniteSet(Used) /\ Cardinality(Used) = lastKvIdx
  BY <1>1, FS_Interval
<1> QED  BY <1>6, <1>7, FS_Bijection DEF CountsEntries

(***************************************************************************)
(* The refinement, step by step.  What a user reads is the data in the     *)
(* slot of the key, wherever that slot is.                                 *)
(***************************************************************************)
SlotView == [s \in SKey |-> IF Exists(s) THEN dataMap[kvMap[s].kvIdx] ELSE << >>]

LEMMA ViewIs ==
  ASSUME NonEmptyWrites, Committable, ReadInv
  PROVE  storeView = SlotView
<1> SUFFICES ASSUME NEW s \in SKey, Exists(s)
             PROVE  get(s, 0, maxKvSize) = dataMap[kvMap[s].kvIdx]
  BY DEF storeView, exist, SlotView
<1>1. maxKvSize \in Nat /\ maxKvSize >= size(s)
  BY ConstructorAssumption DEF ReadInv, SlotsHold, SlotHolds, size
<1> QED  BY <1>1, GetAll

LEMMA ViewNext ==
  ASSUME NonEmptyWrites, Committable
  PROVE  (ReadInv => storeView = SlotView)'
<1>1. ReadInv => storeView = SlotView
  BY ViewIs
<1> QED  BY <1>1, PTL

LEMMA PutWrites ==
  ASSUME NonEmptyWrites, Committable, ReadInv, ReadInv',
         NEW s \in SKey, NEW d \in Data, NEW value \in Nat, put(s, d, value)
  PROVE  Store!Write(s, d)
<1> DEFINE slot == IF Exists(s) THEN kvMap[s].kvIdx ELSE lastKvIdx
<1>1. TypeOK /\ KeysOwnSlots /\ lastKvIdx \in Nat /\ slot \in KvIdx
  BY DEF ReadInv, SlotInv, TypeOK, KvIdx, PhyAddr
<1>2. /\ kvMap' = [kvMap EXCEPT ![s] = PhyAddrOf(slot, d)]
      /\ dataMap' = [dataMap EXCEPT ![slot] = d]
      /\ Len(d) <= maxKvSize
  BY DEF put, putRaw
<1>3. /\ kvMap'[s].kvIdx = slot /\ Exists(s)' /\ dataMap'[slot] = d
      /\ \A t \in SKey \ {s} : kvMap'[t] = kvMap[t]
      /\ \A i \in KvIdx \ {slot} : dataMap'[i] = dataMap[i]
  BY <1>1, <1>2, SizeFits DEF TypeOK, PhyAddrOf, Exists
<1>4. \A t \in SKey \ {s} : Exists(t) => kvMap[t].kvIdx \in KvIdx \ {slot}
  BY <1>1 DEF KeysOwnSlots, TypeOK, PhyAddr, KvIdx
<1>5. storeView = SlotView /\ storeView' = SlotView'
  BY ViewIs, ViewNext
<1>6. \A t \in SKey \ {s} :
         /\ Exists(t)' <=> Exists(t)
         /\ Exists(t) => dataMap'[kvMap'[t].kvIdx] = dataMap[kvMap[t].kvIdx]
  BY <1>3, <1>4 DEF Exists
<1> QED  BY <1>3, <1>5, <1>6 DEF Store!Write, SlotView

LEMMA RemoveDeletes ==
  ASSUME NonEmptyWrites, Committable, ReadInv, ReadInv', NEW s \in SKey, removeTo(s)
  PROVE  Store!Delete(s)
<1> DEFINE i    == kvMap[s].kvIdx
           last == lastKvIdx - 1
           L    == idxMap[last]
<1>0. TypeOK /\ KeysOwnSlots
  BY DEF ReadInv, SlotInv
<1>1. /\ lastKvIdx \in Nat /\ lastKvIdx > 0 /\ MaxKvIdx \in Nat /\ Exists(s) /\ i \in KvIdx
      /\ last \in KvIdx /\ last < lastKvIdx /\ i <= last /\ idxMap[i] = s
  BY <1>0, ConstructorAssumption DEF TypeOK, KvIdx, PhyAddr, removeTo, KeysOwnSlots
<1>2. L \in SKey /\ Exists(L) /\ kvMap[L].kvIdx = last
  BY <1>1 DEF ReadInv, SlotInv, SlotsDense, TypeOK, ReverseLookup
<1>3. /\ kvMap' = [[kvMap EXCEPT ![s] = NullAddr] EXCEPT ![L].kvIdx = i]
      /\ dataMap' = [dataMap EXCEPT ![i] = dataMap[last], ![last] = << >>]
  BY DEF removeTo, removeRaw
<1>4. /\ ~Exists(s)'
      /\ L # s => kvMap'[L].kvIdx = i /\ kvMap'[L].hash = kvMap[L].hash
      /\ \A t \in SKey \ {s, L} : kvMap'[t] = kvMap[t]
  BY <1>0, <1>1, <1>2, <1>3 DEF TypeOK, PhyAddr, NullAddr, Exists
<1>5. /\ i # last => dataMap'[i] = dataMap[last]
      /\ \A j \in KvIdx \ {i, last} : dataMap'[j] = dataMap[j]
      /\ L # s => i # last
  BY <1>0, <1>1, <1>3 DEF TypeOK
<1>6. \A t \in SKey \ {s, L} : Exists(t) => kvMap[t].kvIdx \in KvIdx \ {i, last}
  BY <1>0, <1>1 DEF KeysOwnSlots, TypeOK, PhyAddr
<1>7. \A t \in SKey \ {s} :
         /\ Exists(t)' <=> Exists(t)
         /\ Exists(t) => dataMap'[kvMap'[t].kvIdx] = dataMap[kvMap[t].kvIdx]
  <2> SUFFICES ASSUME NEW t \in SKey \ {s}
               PROVE  /\ Exists(t)' <=> Exists(t)
                      /\ Exists(t) => dataMap'[kvMap'[t].kvIdx] = dataMap[kvMap[t].kvIdx]
    OBVIOUS
  <2>1. CASE t = L
    BY <2>1, <1>2, <1>4, <1>5 DEF Exists
  <2>2. CASE t # L
    BY <2>2, <1>4, <1>5, <1>6 DEF Exists
  <2> QED  BY <2>1, <2>2
<1>8. storeView = SlotView /\ storeView' = SlotView'
  BY ViewIs, ViewNext
<1>9. dataMap[i] # << >>
  BY <1>1, DataAssumption DEF ReadInv, SlotsHold, SlotHolds, NonEmptyWrites
<1> QED  BY <1>1, <1>4, <1>7, <1>8, <1>9 DEF Store!Delete, SlotView
-----------------------------------------------------------------------------
(***************************************************************************)
(* When no empty data is put (and the two contracts chunk alike), idxMap   *)
(* is the reverse of kvMap, lastKvIdx counts the entries of the store, and *)
(* whatever exists can be read and verified.                               *)
(***************************************************************************)
THEOREM KVReadable ==
  ASSUME NonEmptyWrites, Committable
  PROVE  Spec => [](ReverseLookup /\ CountsEntries /\ Retrievable)
<1>1. ReadInv => ReverseLookup /\ CountsEntries /\ Retrievable
  BY ReadCounts, ReadRetrievable DEF ReadInv
<1> QED  BY <1>1, ReadInit, ReadNext, PTL DEF Spec

(***************************************************************************)
(* The reverse lookup by itself: idxMap never leads to a removed key, nor to *)
(* one that sits elsewhere.                                                *)
(***************************************************************************)
THEOREM ReverseLookupExact ==
  ASSUME NonEmptyWrites, Committable
  PROVE  Spec => []ReverseLookup
<1> QED  BY KVReadable, PTL

(***************************************************************************)
(* "number of entries in the store" (DecentralizedKV.sol:16), by itself.   *)
(***************************************************************************)
THEOREM EntriesCounted ==
  ASSUME NonEmptyWrites, Committable
  PROVE  Spec => []CountsEntries
<1> QED  BY KVReadable, PTL

(***************************************************************************)
(* Under the same hypotheses the contract, read through exist() and get(), *)
(* implements KVStore: a put changes what is read of its own key only, to  *)
(* the data put, and a remove makes its own key absent only, whatever is   *)
(* swapped and moved underneath.                                           *)
(***************************************************************************)
THEOREM KVRefinement ==
  ASSUME NonEmptyWrites, Committable
  PROVE  Spec => ImplementsKVStore
<1>1. Init => Store!Init
  BY DEF Init, KVInit, Store!Init, storeView, exist, Exists, NullAddr
<1>2. ReadInv /\ ReadInv' /\ [Next]_kvVars => [Store!Next]_storeView
  <2> SUFFICES ASSUME ReadInv, ReadInv', [Next]_kvVars PROVE [Store!Next]_storeView
    OBVIOUS
  <2>1. CASE Put
    <3>1. PICK s \in SKey, d \in Data, value \in Offers : put(s, d, value)
      BY <2>1 DEF Put
    <3>2. Store!Write(s, d) /\ d \in NonEmpty
      BY <3>1, PutWrites DEF Offers, NonEmpty, NonEmptyWrites
    <3> QED  BY <3>2 DEF Store!Next
  <2>2. CASE Remove
    BY <2>2, RemoveDeletes DEF Remove, Store!Next
  <2>3. CASE Tick \/ UNCHANGED kvVars
    BY <2>3 DEF Tick, kvVars, storeView, exist, Exists, get, getRaw
  <2> QED  BY <2>1, <2>2, <2>3 DEF Next
<1> QED  BY <1>1, <1>2, ReadInit, ReadNext, PTL DEF Spec, ImplementsKVStore, Store!Spec

(***************************************************************************)
(* Again under these hypotheses, a key that stays keeps its slot unless a  *)
(* remove takes it from the last slot to the one it frees.                 *)
(***************************************************************************)
THEOREM KVSlotsStable ==
  ASSUME NonEmptyWrites, Committable
  PROVE  Spec => OnlyLastSlotMoves
<1> DEFINE Stable(s) == \/ kvMap'[s].kvIdx = kvMap[s].kvIdx
                        \/ kvMap[s].kvIdx = lastKvIdx - 1 /\ lastKvIdx' = lastKvIdx - 1
<1>1. ReadInv /\ [Next]_kvVars =>
        [\A s \in SKey : Exists(s) /\ Exists(s)' => Stable(s)]_kvVars
  <2> SUFFICES ASSUME ReadInv, Next, NEW s \in SKey, Exists(s), Exists(s)' PROVE Stable(s)
    OBVIOUS
  <2>0. kvMap \in [SKey -> PhyAddr] /\ lastKvIdx \in Nat
    BY DEF ReadInv, SlotInv, TypeOK, KvIdx
  <2>1. CASE Put
    BY <2>0, <2>1 DEF Put, put, PhyAddrOf
  <2>2. ASSUME NEW t \in SKey, removeTo(t) PROVE Stable(s)
    <3> DEFINE last == lastKvIdx - 1
    <3>1. /\ kvMap' = [[kvMap EXCEPT ![t] = NullAddr] EXCEPT ![idxMap[last]].kvIdx = kvMap[t].kvIdx]
          /\ lastKvIdx' = last /\ last \in KvIdx /\ last < lastKvIdx
      BY <2>0, <2>2, ConstructorAssumption DEF removeTo, ReadInv, SlotInv, TypeOK, KvIdx
    <3>2. s # t
      BY <2>0, <3>1 DEF NullAddr, Exists, PhyAddr
    <3>3. CASE s = idxMap[last]
      BY <3>1, <3>3 DEF ReadInv, ReverseLookup
    <3>4. CASE s # idxMap[last]
      BY <2>0, <3>1, <3>2, <3>4
    <3> QED  BY <3>3, <3>4
  <2>3. CASE Tick
    BY <2>3 DEF Tick
  <2> QED  BY <2>1, <2>2, <2>3 DEF Next, Remove
<1> QED  BY <1>1, ReadInit, ReadNext, PTL DEF Spec, OnlyLastSlotMoves
=============================================================================
