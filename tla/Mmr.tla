-------------------------------- MODULE Mmr --------------------------------
(***************************************************************************)
(* The bucket's Merkle mountain range (crates/primitives/storage, mmr.rs).  *)
(* Its peaks are perfect trees over runs of leaves, the longest run first.  *)
(* The library behind it (polkadot-ckb-merkle-mountain-range) is modelled   *)
(* by what mmr.rs says of it.                                               *)
(***************************************************************************)
EXTENDS Merkle

CONSTANT ChunkSize       \* DEFAULT_CHUNK_SIZE

LEAF_VERSION == 1

Commitment(mmr_root, start_seq, leaf_count) ==
    [mmr_root |-> mmr_root, start_seq |-> start_seq, leaf_count |-> leaf_count]

\* The number of chunks under a leaf's data root.
chunk_count(leaf) == (leaf.data_size + ChunkSize - 1) \div ChunkSize

hash_peaks(left, right) == <<"peaks", left, right>>

Double(context, n) == 2 * n

Doubling == INSTANCE Loop WITH Body <- Double

\* 1 << k.
Shift(k) == Doubling!After(Nothing, 1, k)

DropBit(context, b) == IF b.n < 2 THEN b ELSE [n |-> b.n \div 2, bits |-> b.bits + 1]

Bits == INSTANCE Loop WITH Body <- DropBit

ilog2(n) == Bits!After(Nothing, [n |-> n, bits |-> 0], n).bits

\* The largest power of two that is at most n.
PowerBelow(n) == Shift(ilog2(n))

LeafHashes(leaves) == [i \in 1..Len(leaves) |-> hash_leaf(leaves[i])]

\* Pass the first peak over the rest, unless the leaf at index is under it.
PassPeak(context, m) ==
    LET size == PowerBelow(Len(m.rest)) IN
    IF m.index < size THEN m
    ELSE [left |-> Append(m.left, merkle_root(SubSeq(m.rest, 1, size))),
          rest |-> SubSeq(m.rest, size + 1, Len(m.rest)),
          index |-> m.index - size]

Peaks == INSTANCE Loop WITH Body <- PassPeak

\* The peaks left of the leaf's own, the leaves from its own peak on, and its
\* index among those.
PeaksBefore(hashes, leaf_index) ==
    Peaks!After(Nothing, [left |-> <<>>, rest |-> hashes, index |-> leaf_index], Len(hashes))

peaks(hashes) == PeaksBefore(hashes, Len(hashes)).left

BagPeak(context, b) ==
    IF b.rest = <<>> THEN b
    ELSE [rest |-> Front(b.rest), bagged |-> hash_peaks(Last(b.rest), b.bagged)]

Bagging == INSTANCE Loop WITH Body <- BagPeak

\* Peaks are bagged from right to left.
bag_peaks(hashes) ==
    IF hashes = <<>> THEN Zero
    ELSE Bagging!After(Nothing, [rest |-> Front(hashes), bagged |-> Last(hashes)],
                       Len(hashes)).bagged

RootOver(hashes) == bag_peaks(peaks(hashes))

root(leaves) == RootOver(LeafHashes(leaves))

\* The proof of a leaf: the peaks to the left, the siblings up to its own
\* peak, and the bagged peaks to the right.
proof(leaves, leaf_index) ==
    LET at == PeaksBefore(LeafHashes(leaves), leaf_index)
        size == PowerBelow(Len(at.rest))
        right == SubSeq(at.rest, size + 1, Len(at.rest))
    IN  [leaf |-> leaves[leaf_index + 1],
         items |-> at.left \o proof_from_levels(SubSeq(at.rest, 1, size), at.index)
                   \o (IF right = <<>> THEN <<>> ELSE <<RootOver(right)>>)]

\* PassPeak, for a verifier that knows the number of leaves only.
PassCount(context, m) ==
    LET size == PowerBelow(m.count) IN
    IF m.index < size THEN m
    ELSE [left |-> m.left + 1, count |-> m.count - size, index |-> m.index - size]

Shape == INSTANCE Loop WITH Body <- PassCount

PeakAt(leaf_index, leaf_count) ==
    Shape!After(Nothing, [left |-> 0, count |-> leaf_count, index |-> leaf_index], leaf_count)

mmr_proof_len(leaf_index, leaf_count) ==
    LET at == PeakAt(leaf_index, leaf_count) IN
    at.left + ilog2(at.count) + (IF at.count > PowerBelow(at.count) THEN 1 ELSE 0)

\* The root that the items of a proof of the right length give.
RootFromProof(mmr_proof, leaf_index, leaf_count) ==
    LET at == PeakAt(leaf_index, leaf_count)
        height == ilog2(at.count)
        items == mmr_proof.items
        peak == Climb(hash_leaf(mmr_proof.leaf), at.index, Shift(height),
                      SubSeq(items, at.left + 1, at.left + height)).current
    IN  bag_peaks(SubSeq(items, 1, at.left) \o <<peak>>
                  \o SubSeq(items, at.left + height + 1, Len(items)))

verify_mmr_proof(mmr_proof, leaf_index, commitment) ==
    /\ leaf_index < commitment.leaf_count
    /\ Len(mmr_proof.items) = mmr_proof_len(leaf_index, commitment.leaf_count)
    /\ RootFromProof(mmr_proof, leaf_index, commitment.leaf_count) = commitment.mmr_root

=============================================================================
