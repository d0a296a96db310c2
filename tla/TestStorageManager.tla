------------------------- MODULE TestStorageManager -------------------------
(***************************************************************************)
(* contracts/TestStorageManager.sol, the implementation in the repository  *)
(* of IStorageManager: the raw data of every slot, kept apart from the     *)
(* contract's metadata.  A call that reverts has no step, and getRaw       *)
(* returns Revert.                                                         *)
(***************************************************************************)
EXTENDS MerkleLib

CONSTANTS MaxKvIdx,     \* the largest uint40 (2^40 - 1)
          CHUNK_SIZE,   \* the chunk size this manager hashes with (4096)
          Revert        \* what a view that reverts returns

VARIABLE dataMap        \* slot -> raw data; the empty sequence if deleted

KvIdx  == 0..MaxKvIdx
Slice(data, off, len) == SubSeq(data, off + 1, off + len)

SMInit == dataMap = [i \in KvIdx |-> << >>]

putRaw(kvIdx, data) ==
  dataMap' = [dataMap EXCEPT ![kvIdx] = data]

(***************************************************************************)
(* Mutants of removeRaw: the data is not deleted; deleted before the copy. *)
(***************************************************************************)
removeRawCopies(from, to) == dataMap' = [dataMap EXCEPT ![to] = dataMap[from]]

removeRawDeletesFirst(from, to) ==
  dataMap' = [dataMap EXCEPT ![from] = << >>, ![to] = << >>]

(***************************************************************************)
(* Copy, then delete: with from = to the slot ends up deleted.             *)
(***************************************************************************)
removeRaw(from, to) ==
  dataMap' = [dataMap EXCEPT ![to] = dataMap[from], ![from] = << >>]

getRaw(hash, kvIdx, off, len) ==
  LET data == dataMap[kvIdx]
  IN  IF hash # merkleRootWithMinTree(data, CHUNK_SIZE) THEN Revert
      ELSE IF off >= Len(data) THEN << >>
      ELSE IF len > Len(data) - off THEN Slice(data, off, Len(data) - off)
      ELSE Slice(data, off, len)
=============================================================================
