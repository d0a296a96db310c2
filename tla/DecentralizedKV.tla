-------------------------- MODULE DecentralizedKV --------------------------
(***************************************************************************)
(* contracts/DecentralizedKV.sol: the key-value contract.                  *)
(*                                                                         *)
(* A value occupies one slot of a dense array.  kvMap leads from a key to  *)
(* its slot, idxMap from a slot back to its key, and the raw data of the   *)
(* slots is kept by the storage manager (TestStorageManager), which only   *)
(* knows slots.  A put that creates a key appends a slot and pays for it   *)
(* for ever; a remove fills the hole with the last slot and refunds.       *)
(*                                                                         *)
(* A transaction runs alone and to its end, or reverts and changes         *)
(* nothing: an action is one transaction that succeeds, and its guards are *)
(* the conditions under which none of its calls reverts.  Between two      *)
(* transactions the block timestamp may advance.                           *)
(***************************************************************************)
EXTENDS TestStorageManager, FiniteSets

CONSTANTS User,         \* accounts
          Key,          \* keys a user may choose
          Data,         \* values a user may send: sequences of bytes
          NoSkey,       \* the zero word in idxMap
          chunkSize,    \* constructor arguments, as in the code
          maxKvSize,
          startTime,
          storageCost,
          dcfFactor,
          KvSizeBits,   \* width of PhyAddr.kvSize (24)
          MaxTime,      \* bound: the last block timestamp
          Supply        \* bound: all the wei there is

SKey     == User \X Key        \* keccak256(abi.encode(sender, key))
Time     == startTime..MaxTime
NonEmpty == {d \in Data : Len(d) # 0}

KvSizes  == 0..(2 ^ KvSizeBits - 1)

(***************************************************************************)
(* The constructor's conditions that matter here, and the widths.          *)
(***************************************************************************)
ASSUME ConstructorAssumption ==
  /\ chunkSize \in Nat \ {0} /\ maxKvSize \in Nat /\ chunkSize <= maxKvSize
  /\ startTime \in Nat /\ MaxTime \in Nat /\ startTime <= MaxTime
  /\ MaxKvIdx \in Nat /\ Supply \in Nat
  /\ 2 ^ KvSizeBits \in Nat \ {0}

ASSUME DataAssumption ==
  /\ \A d \in Data : d \in Seq(Nat)
  /\ NoSkey \notin SKey
  /\ Revert \notin Data

VARIABLES kvMap,        \* key -> [kvIdx, kvSize, hash]
          idxMap,       \* slot -> key
          lastKvIdx,    \* number of slots in use
          balance,      \* wei held by the contract
          timestamp     \* block.timestamp

kvVars == <<kvMap, idxMap, lastKvIdx, dataMap, balance, timestamp>>

(***************************************************************************)
(* The commitment to each value: bytes24 of its Merkle root.               *)
(***************************************************************************)
commitment == [d \in Data |-> merkleRootWithMinTree(d, chunkSize)]

Hash     == {commitment[d] : d \in Data} \cup {ZeroHash}
PhyAddr  == [kvIdx : KvIdx, kvSize : KvSizes, hash : Hash]
NullAddr == [kvIdx |-> 0, kvSize |-> 0, hash |-> ZeroHash]

Exists(s) == kvMap[s].hash # ZeroHash
-----------------------------------------------------------------------------
(***************************************************************************)
(* Payments.  Storage from t0 on costs x * dcf^t0, rounded down.           *)
(***************************************************************************)
_paymentInf(x, t0) == (x * pow(dcfFactor, t0)) \div One

_paymentInInterval(x, t0, t1) ==
  (x * (pow(dcfFactor, t0) - pow(dcfFactor, t1))) \div One

_paymentIn(x, fromTs, toTs) ==
  _paymentInInterval(x, fromTs - startTime, toTs - startTime)

_upfrontPayment(ts) == _paymentInf(storageCost, ts - startTime)

priceAt == [ts \in Time |-> _upfrontPayment(ts)]

upfrontPayment == priceAt[timestamp]

(***************************************************************************)
(* What the constructor does not check of its arguments and the payments   *)
(* need: a factor below 1.0 (1.0 itself overflows pow() from the first     *)
(* second on), and a cost that does not overflow.                          *)
(***************************************************************************)
ASSUME PriceAssumption ==
  /\ dcfFactor \in Nat /\ dcfFactor < One
  /\ storageCost \in Nat /\ storageCost * One < Word
-----------------------------------------------------------------------------
KVInit ==
  /\ kvMap = [s \in SKey |-> NullAddr]
  /\ idxMap = [i \in KvIdx |-> NoSkey]
  /\ lastKvIdx = 0
  /\ SMInit
  /\ timestamp = startTime

Init == KVInit /\ balance = 0

(***************************************************************************)
(* Mutants of what put() is made of: a slot given away unpaid; one slot    *)
(* too many; idxMap written after the increment; an overwrite that uses up *)
(* a slot; the last slot taken for any put; a size that is not truncated.  *)
(***************************************************************************)
appendSlotUnpaid(s, value) ==
  /\ ~Exists(s)
  /\ lastKvIdx < MaxKvIdx
  /\ idxMap' = [idxMap EXCEPT ![lastKvIdx] = s]
  /\ lastKvIdx' = lastKvIdx + 1

appendSlotUnbounded(s, value) ==
  /\ ~Exists(s)
  /\ value >= upfrontPayment
  /\ idxMap' = [idxMap EXCEPT ![lastKvIdx] = s]
  /\ lastKvIdx' = lastKvIdx + 1

appendSlotLate(s, value) ==
  /\ ~Exists(s)
  /\ value >= upfrontPayment
  /\ lastKvIdx < MaxKvIdx
  /\ idxMap' = [idxMap EXCEPT ![lastKvIdx + 1] = s]
  /\ lastKvIdx' = lastKvIdx + 1

keepSlotAppends(s) ==
  /\ Exists(s)
  /\ lastKvIdx < MaxKvIdx
  /\ idxMap' = [idxMap EXCEPT ![lastKvIdx] = s]
  /\ lastKvIdx' = lastKvIdx + 1

PhyAddrOfLast(slot, data) ==
  [kvIdx |-> lastKvIdx' - 1, kvSize |-> Len(data) % 2 ^ KvSizeBits, hash |-> commitment[data]]

(***************************************************************************)
(* put() of data under s by its owner, with value wei.  A key without a    *)
(* commitment gets a new slot, which must be paid for; uint40 arithmetic   *)
(* reverts when the slots run out.  Overwriting keeps the slot.  All the   *)
(* wei sent stays in the contract.                                         *)
(***************************************************************************)
PhyAddrOf(slot, data) ==
  [kvIdx  |-> slot,
   kvSize |-> Len(data) % 2 ^ KvSizeBits,
   hash   |-> commitment[data]]

appendSlot(s, value) ==
  /\ ~Exists(s)
  /\ value >= upfrontPayment
  /\ lastKvIdx < MaxKvIdx
  /\ idxMap' = [idxMap EXCEPT ![lastKvIdx] = s]
  /\ lastKvIdx' = lastKvIdx + 1

keepSlot(s) ==
  /\ Exists(s)
  /\ UNCHANGED <<idxMap, lastKvIdx>>

put(s, data, value) ==
  LET slot == IF Exists(s) THEN kvMap[s].kvIdx ELSE lastKvIdx
  IN  /\ Len(data) <= maxKvSize
      /\ balance + value <= Supply
      /\ appendSlot(s, value) \/ keepSlot(s)
      /\ kvMap' = [kvMap EXCEPT ![s] = PhyAddrOf(slot, data)]
      /\ putRaw(slot, data)
      /\ balance' = balance + value
      /\ UNCHANGED timestamp

(***************************************************************************)
(* Mutant of removeTo(): the key of the last slot is not told of its move. *)
(***************************************************************************)
removeToUntold(s) ==
  LET i    == kvMap[s].kvIdx
      last == lastKvIdx - 1
  IN  /\ Exists(s)
      /\ lastKvIdx > 0
      /\ balance >= upfrontPayment
      /\ kvMap' = [kvMap EXCEPT ![s] = NullAddr]
      /\ idxMap' = [[idxMap EXCEPT ![i] = idxMap[last]] EXCEPT ![last] = NoSkey]
      /\ lastKvIdx' = last
      /\ removeRaw(last, i)
      /\ balance' = balance - upfrontPayment
      /\ UNCHANGED timestamp

(***************************************************************************)
(* removeTo() of s by its owner; remove() is removeTo() with the owner as  *)
(* recipient, and who receives the refund changes nothing here.  The key   *)
(* of the last slot takes over the slot of s (when it is s itself it keeps *)
(* only that stale index), and the storage manager moves the raw data.     *)
(* The refund is today's price: with too little wei the transfer reverts.  *)
(***************************************************************************)
removeTo(s) ==
  LET i        == kvMap[s].kvIdx
      last     == lastKvIdx - 1
      lastSkey == idxMap[last]
  IN  /\ Exists(s)
      /\ lastKvIdx > 0
      /\ balance >= upfrontPayment
      /\ kvMap' = [[kvMap EXCEPT ![s] = NullAddr] EXCEPT ![lastSkey].kvIdx = i]
      /\ idxMap' = [[idxMap EXCEPT ![i] = lastSkey] EXCEPT ![last] = NoSkey]
      /\ lastKvIdx' = last
      /\ removeRaw(last, i)
      /\ balance' = balance - upfrontPayment
      /\ UNCHANGED timestamp

(***************************************************************************)
(* External: the chain produces a block with a later timestamp.            *)
(***************************************************************************)
Tick ==
  /\ timestamp < MaxTime
  /\ timestamp' = timestamp + 1
  /\ UNCHANGED <<kvMap, idxMap, lastKvIdx, dataMap, balance>>

(***************************************************************************)
(* Whatever value is sent, all that matters is how it compares to the      *)
(* price: nothing, one wei short, exact, or one wei too many.              *)
(***************************************************************************)
Offers == {0, upfrontPayment - 1, upfrontPayment, upfrontPayment + 1} \cap Nat

Put    == \E s \in SKey, d \in Data, value \in Offers : put(s, d, value)
Remove == \E s \in SKey : removeTo(s)

Next == Put \/ Remove \/ Tick

Spec == Init /\ [][Next]_kvVars
-----------------------------------------------------------------------------
(***************************************************************************)
(* Views.  They change nothing; get() reverts when the storage manager     *)
(* does, and verify() when the key does not exist.                         *)
(***************************************************************************)
size(s)  == kvMap[s].kvSize
exist(s) == Exists(s)

get(s, off, len) ==
  LET paddr == kvMap[s]
  IN  IF len = 0 \/ off >= paddr.kvSize THEN << >>
      ELSE getRaw(paddr.hash, paddr.kvIdx, off,
                  IF len + off > paddr.kvSize THEN paddr.kvSize - off ELSE len)

verifyData(s, data) ==
  IF ~Exists(s) THEN Revert
  ELSE /\ kvMap[s].kvSize = Len(data)
       /\ kvMap[s].hash = commitment[data]
-----------------------------------------------------------------------------
(***************************************************************************)
(* Properties that hold whatever is put.                                   *)
(***************************************************************************)

TypeOK ==
  /\ kvMap \in [SKey -> PhyAddr]
  /\ idxMap \in [KvIdx -> SKey \cup {NoSkey}]
  /\ lastKvIdx \in KvIdx
  /\ dataMap \in [KvIdx -> Seq(Nat)]
  /\ balance \in 0..Supply
  /\ timestamp \in Time

(***************************************************************************)
(* A key that exists has a slot in use, and the slot leads back to it: no  *)
(* swap of a remove ever leaves a key at a slot of another key.            *)
(***************************************************************************)
KeysOwnSlots ==
  \A s \in SKey : Exists(s) =>
    kvMap[s].kvIdx < lastKvIdx /\ idxMap[kvMap[s].kvIdx] = s

(***************************************************************************)
(* The slots in use are dense: every one below lastKvIdx has a key, and    *)
(* from lastKvIdx on there is neither a key nor data left behind.          *)
(***************************************************************************)
SlotsDense ==
  \A i \in KvIdx :
    IF i < lastKvIdx THEN idxMap[i] # NoSkey
                     ELSE idxMap[i] = NoSkey /\ dataMap[i] = << >>

(***************************************************************************)
(* The contract can always refund every slot at today's price, so that no  *)
(* remove() reverts for want of wei.                                       *)
(***************************************************************************)
Solvent == balance >= lastKvIdx * upfrontPayment
-----------------------------------------------------------------------------
(***************************************************************************)
(* Properties that hold when, in addition, nobody puts empty data, the     *)
(* storage manager commits to values as the contract does (it hashes       *)
(* chunks of CHUNK_SIZE bytes, the contract chunks of chunkSize), and      *)
(* sizes fit their width.                                                  *)
(***************************************************************************)
NonEmptyWrites == \A d \in Data : Len(d) # 0

Committable ==
  \A d \in Data : Len(d) # 0 /\ Len(d) <= maxKvSize =>
    /\ commitment[d] = merkleRootWithMinTree(d, CHUNK_SIZE)
    /\ Len(d) < 2 ^ KvSizeBits

(***************************************************************************)
(* "index - skey, reverse lookup": the key of every slot in use exists and *)
(* sits in that slot.                                                      *)
(***************************************************************************)
ReverseLookup ==
  \A i \in KvIdx : i < lastKvIdx =>
    Exists(idxMap[i]) /\ kvMap[idxMap[i]].kvIdx = i

(***************************************************************************)
(* "number of entries in the store".                                       *)
(***************************************************************************)
CountsEntries == lastKvIdx = Cardinality({s \in SKey : Exists(s)})

(***************************************************************************)
(* A key that exists can be read: the commitment of the metadata is that   *)
(* of the data the storage manager has in the key's slot ("getRaw hash     *)
(* mismatch" is never raised), and verify() accepts what get() returns.    *)
(***************************************************************************)
Retrievable ==
  \A s \in SKey : Exists(s) =>
    LET data == get(s, 0, size(s))
    IN  data # Revert /\ verifyData(s, data)

(***************************************************************************)
(* A key that stays keeps its slot, unless it is the one a remove takes    *)
(* from the last slot to the slot it frees.                                *)
(***************************************************************************)
OnlyLastSlotMoves ==
  [][\A s \in SKey : Exists(s) /\ Exists(s)' =>
       \/ kvMap'[s].kvIdx = kvMap[s].kvIdx
       \/ kvMap[s].kvIdx = lastKvIdx - 1 /\ lastKvIdx' = lastKvIdx - 1]_kvVars

(***************************************************************************)
(* Refinement: read through exist() and get(), the contract is a KVStore.  *)
(***************************************************************************)
storeView == [s \in SKey |-> IF exist(s) THEN get(s, 0, maxKvSize) ELSE << >>]

Store == INSTANCE KVStore WITH
  Values <- NonEmpty, None <- << >>, store <- storeView

ImplementsKVStore == Store!Spec
=============================================================================
