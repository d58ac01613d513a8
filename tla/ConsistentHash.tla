--------------------------- MODULE ConsistentHash ---------------------------
(***************************************************************************)
(* TC_ConsistentHashNew (src/cpp/util/include/util/tc_consistent_hash_new *)
(* .h): a vector _vHashList of (iHashCode, iIndex) entries.  addNode       *)
(* appends one entry per unit of weight (the default algorithm) without   *)
(* sorting; sortNode sorts by iHashCode with std::sort, which is not       *)
(* stable; clear empties the vector; getIndex(hashcode) wraps to entry 0  *)
(* or binary-searches the sorted vector.                                  *)
(*                                                                        *)
(* The MD5-based hash of a virtual-node name "node_j" and of a key is not *)
(* computed: an entry's hash is any value of HashSpace, and every key     *)
(* code of HashSpace is looked up in every state.  HashSpace stands for    *)
(* 32-bit codes, so the & 0xFFFFFFFF mask is the identity on it.          *)
(***************************************************************************)
EXTENDS Integers, Sequences, FiniteSets, FiniteSetsExt, TLC

CONSTANTS
  Nodes,       \* the node indexes addNode is called with
  HashSpace,   \* hash codes of entries and keys
  MaxWeight,   \* bound: weight passed to addNode
  MaxEntries   \* bound: size of _vHashList

ASSUME HashSpace \subseteq Nat /\ MaxWeight \in Nat \ {0} /\ MaxEntries \in Nat

CONSTANT OOB   \* iIndex read past the end of _vHashList: unspecified

VARIABLE hashList   \* _vHashList: Seq of [h, node]

Init == hashList = <<>>

-----------------------------------------------------------------------------
(* Operations                                                             *)

\* Slip: the replica number stored as the entry's iIndex.
AddNodeReplicaIndex(n, w) ==
  /\ Len(hashList) + w <= MaxEntries
  /\ \E hs \in [1 .. w -> HashSpace] :
       hashList' = hashList \o [j \in 1 .. w |-> [h |-> hs[j], node |-> j]]

\* addNode(node, index, weight): weight entries, one per virtual node.
AddNode(n, w) ==
  /\ Len(hashList) + w <= MaxEntries
  /\ \E hs \in [1 .. w -> HashSpace] :
       hashList' = hashList \o [j \in 1 .. w |-> [h |-> hs[j], node |-> n]]

IsSorted(r) == \A i \in 1 .. (Len(r) - 1) : r[i].h <= r[i + 1].h

\* sortNode(): any order std::sort may leave entries with equal hashes in.
SortNode ==
  \E p \in Permutations(1 .. Len(hashList)) :
    /\ IsSorted([i \in 1 .. Len(hashList) |-> hashList[p[i]]])
    /\ hashList' = [i \in 1 .. Len(hashList) |-> hashList[p[i]]]

Clear ==
  /\ hashList # <<>>
  /\ hashList' = <<>>

Next ==
  \/ \E n \in Nodes, w \in 1 .. MaxWeight : AddNode(n, w)
  \/ SortNode
  \/ Clear

Spec == Init /\ [][Next]_hashList

-----------------------------------------------------------------------------
(* getIndex(hashcode, iIndex) on a non-empty vector r, as 0-based         *)
(* positions: r[k + 1] is _vHashList[k].                                  *)

\* Slips in the loop: it stops one step early, or moves low past mid.
RECURSIVE SearchStopsEarly(_, _, _, _)
SearchStopsEarly(r, c, low, high) ==
  IF low < high - 2
    THEN LET mid == (low + high) \div 2 IN
         IF r[mid + 1].h > c THEN SearchStopsEarly(r, c, low, mid)
                             ELSE SearchStopsEarly(r, c, mid, high)
    ELSE low

RECURSIVE SearchPastMid(_, _, _, _)
SearchPastMid(r, c, low, high) ==
  IF low < high - 1
    THEN LET mid == (low + high) \div 2 IN
         IF r[mid + 1].h > c THEN SearchPastMid(r, c, low, mid)
                             ELSE SearchPastMid(r, c, mid + 1, high)
    ELSE low

\* while (low < high - 1) { mid = (low + high) / 2; ... }  returns low.
RECURSIVE Search(_, _, _, _)
Search(r, c, low, high) ==
  IF low < high - 1
    THEN LET mid == (low + high) \div 2 IN
         IF r[mid + 1].h > c THEN Search(r, c, low, mid)
                             ELSE Search(r, c, mid, high)
    ELSE low

\* The position whose iIndex getIndex returns: 0 on wrap, else low + 1.
GetIndexPos(r, c) ==
  IF c <= r[1].h \/ c > r[Len(r)].h THEN 0 ELSE Search(r, c, 0, Len(r)) + 1

\* iIndex = _vHashList[pos].iIndex, unspecified past the end.
NodeAt(r, pos) == IF pos < Len(r) THEN r[pos + 1].node ELSE OOB

GetIndex(r, c) == NodeAt(r, GetIndexPos(r, c))

-----------------------------------------------------------------------------
(* Reference definitions (section 4.4)                                    *)

\* The entry a successor ring assigns: the first whose hash is > c, else 0.
SuccessorPos(r, c) ==
  IF \E k \in 0 .. (Len(r) - 1) : r[k + 1].h > c
    THEN Min({k \in 0 .. (Len(r) - 1) : r[k + 1].h > c})
    ELSE 0

\* The ring r without node n's entries (re-adding the others and sorting).
Without(r, n) == SelectSeq(r, LAMBDA e : e.node # n)

Hashes(r) == {r[i].h : i \in 1 .. Len(r)}

Lookable == IsSorted(hashList) /\ hashList # <<>>

-----------------------------------------------------------------------------
(* Properties                                                             *)

TypeOK == hashList \in Seq([h : HashSpace, node : Nodes])

\* On a sorted ring, a key whose code is no entry's hash goes to the first
\* entry with a larger hash, or wraps to entry 0 past the last one: the
\* binary search keeps hash[low] < code < hash[high] and ends on high.
SearchFindsSuccessor ==
  Lookable =>
    \A c \in HashSpace \ Hashes(hashList) :
      GetIndexPos(hashList, c) = SuccessorPos(hashList, c)

\* Section 8.5: taking a node's entries out of the ring moves only the keys
\* that went to that node.  Every code is looked up, those equal to an
\* entry's hash included, but not one whose lookup already read past the
\* end of the vector.
RemovalMovesOnlyItsKeys ==
  Lookable =>
    \A n \in Nodes, c \in HashSpace :
      LET before == GetIndex(hashList, c)
          rest   == Without(hashList, n)
      IN (before \notin {n, OOB} /\ rest # <<>>) => GetIndex(rest, c) = before

\* getIndex never reads past the end of _vHashList.
SearchInBounds ==
  Lookable => \A c \in HashSpace : GetIndexPos(hashList, c) < Len(hashList)

=============================================================================
