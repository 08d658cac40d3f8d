--------------------------- MODULE StorageBackend ---------------------------
(***************************************************************************)
(* The provider's store of chunk trees and bucket MMRs                      *)
(* (crates/providers/storage, backend: mod.rs, types.rs, rocksdb.rs).       *)
(*                                                                          *)
(* A stored node is its hash: a hash is a term that shows the node, and the *)
(* store files a node only under the hash it really has.  Nodes are shared  *)
(* by all buckets and never deleted.  Every write runs in one transaction   *)
(* that holds the bucket's row and the node's key, so it is one step.       *)
(***************************************************************************)
EXTENDS Mmr, FiniteSets, FiniteSetsExt

CONSTANTS
    Buckets,
    MaxTreeWalkVisits,   \* MAX_TREE_WALK_VISITS
    MaxTreeDepth,        \* MAX_TREE_DEPTH
    MaxBytes             \* u64::MAX, the quota every caller asks for

ASSUME BackendAssumption ==
    /\ IsFiniteSet(Buckets)
    /\ ChunkSize \in Nat \ {0} /\ MaxTreeWalkVisits \in Nat \ {0}
    /\ MaxTreeDepth \in Nat /\ MaxBytes \in Nat
    \* a tree within the visit budget is within the depth limit
    /\ MaxTreeWalkVisits < Shift(MaxTreeDepth + 1)

\* Option::None, of a row, a request or a sample.
None == [option |-> "None"]

VARIABLES
    nodes,      \* CF_NODES
    buckets     \* CF_BUCKETS: [Buckets -> BucketState or None]

storeVars == <<nodes, buckets>>

Ok(value) == [ok |-> TRUE, value |-> value]
Err(error) == [ok |-> FALSE, error |-> error]

IsChunk(hash) == hash[1] = "leaf"

\* The bytes a node counts against the quota.  Two child hashes count as
\* much as two bytes here, 64 in the code.
node_size(hash) == IF IsChunk(hash) THEN hash[2].size ELSE 2

NewBucketState ==
    [mmr_root |-> Zero, start_seq |-> 0, leaves |-> <<>>, used_bytes |-> 0,
     node_count |-> 0, max_bytes |-> MaxBytes]

commitment_of(bucket) == Commitment(bucket.mmr_root, bucket.start_seq, Len(bucket.leaves))

----------------------------------------------------------------------------
(* Reading chunk trees                                                      *)

\* A loop that has not returned yet.
Running == Err("Running")

\* A loop that was given all its passes and did not return.
Returned(state) == IF state.result = Running THEN Err("NonCanonicalTree") ELSE state.result

\* One visit of walk_tree, with the visitor of collect_leaves.
Visit(store, w) ==
    LET hash == Head(w.stack) IN
    IF w.result # Running THEN w
    ELSE IF w.stack = <<>> THEN [w EXCEPT !.result = Ok(w.found)]
    ELSE IF w.visited = MaxTreeWalkVisits THEN [w EXCEPT !.result = Err("TreeTooLarge")]
    ELSE IF hash \notin store THEN [w EXCEPT !.result = Err("NodeNotFound")]
    ELSE IF IsChunk(hash)
         THEN [stack |-> Tail(w.stack), visited |-> w.visited + 1,
               found |-> Append(w.found, hash), result |-> Running]
    ELSE [stack |-> <<hash[2], hash[3]>> \o Tail(w.stack), visited |-> w.visited + 1,
          found |-> w.found, result |-> Running]

Walk == INSTANCE Loop WITH Body <- Visit

\* The chunks under a hash, in order, within the visit budget.
collect_leaves(hash) ==
    Walk!After(nodes, [stack |-> <<hash>>, visited |-> 0, found |-> <<>>, result |-> Running],
               MaxTreeWalkVisits + 1).result

FixedSizes(chunks) ==
    /\ \A i \in 1..(Len(chunks) - 1) : chunks[i][2].size = ChunkSize
    /\ Last(chunks)[2].size \in 1..ChunkSize

AddSize(chunks, t) == [n |-> t.n + 1, sum |-> t.sum + chunks[t.n + 1][2].size]

Sizes == INSTANCE Loop WITH Body <- AddSize

SizeOf(chunks) == Sizes!After(chunks, [n |-> 0, sum |-> 0], Len(chunks)).sum

AnyTreeSize(hash) ==
    LET found == collect_leaves(hash) IN
    IF ~found.ok THEN found ELSE Ok(SizeOf(found.value))

\* Only a tree with the canonical shape and chunk sizes can be committed.
canonical_data_size(hash) ==
    LET found == collect_leaves(hash) IN
    IF ~found.ok THEN found
    ELSE IF FixedSizes(found.value) /\ merkle_root(found.value) = hash
         THEN Ok(SizeOf(found.value))
         ELSE Err("NonCanonicalTree")

\* One node down the left edge.
GoLeft(store, e) ==
    IF e.result # Running THEN e
    ELSE IF e.hash \notin store THEN [e EXCEPT !.result = Err("NodeNotFound")]
    ELSE IF IsChunk(e.hash) THEN [e EXCEPT !.result = Ok(Shift(e.height))]
    ELSE [hash |-> e.hash[2], height |-> e.height + 1, result |-> Running]

LeftEdge == INSTANCE Loop WITH Body <- GoLeft

\* The number of chunks under a left child, from its left edge.
left_child_chunks(store, hash) ==
    Returned(LeftEdge!After(store, [hash |-> hash, height |-> 0, result |-> Running],
                            MaxTreeDepth + 1))

\* One node down the right edge.
GoRight(store, e) ==
    LET left == left_child_chunks(store, e.hash[2]) IN
    IF e.result # Running THEN e
    ELSE IF e.hash \notin store THEN [e EXCEPT !.result = Err("NodeNotFound")]
    ELSE IF IsChunk(e.hash) THEN [e EXCEPT !.result = Ok(e.count + 1)]
    ELSE IF ~left.ok THEN [e EXCEPT !.result = left]
    ELSE [hash |-> e.hash[3], count |-> e.count + left.value, result |-> Running]

RightEdge == INSTANCE Loop WITH Body <- GoRight

\* The number of chunks of a tree, from its right edge.
tree_chunk_count(hash) ==
    Returned(RightEdge!After(nodes, [hash |-> hash, count |-> 0, result |-> Running],
                             MaxTreeDepth + 1))

\* One node down towards a chunk.
GoDown(store, d) ==
    LET split == PowerBelow(d.count - 1) IN
    IF d.result # Running THEN d
    ELSE IF d.hash \notin store THEN [d EXCEPT !.result = Err("NodeNotFound")]
    ELSE IF IsChunk(d.hash) /\ d.count = 1
         THEN [d EXCEPT !.result = Ok([chunk |-> d.hash[2], proof |-> d.siblings])]
    ELSE IF IsChunk(d.hash) \/ d.count <= 1
         THEN [d EXCEPT !.result = Err("NonCanonicalTree")]
    ELSE IF d.index < split
         THEN [hash |-> d.hash[2], count |-> split, index |-> d.index,
               siblings |-> <<d.hash[3]>> \o d.siblings, result |-> Running]
    ELSE [hash |-> d.hash[3], count |-> d.count - split, index |-> d.index - split,
          siblings |-> <<d.hash[2]>> \o d.siblings, result |-> Running]

Descent == INSTANCE Loop WITH Body <- GoDown

\* The chunk at index of a tree of count chunks, and the siblings from the
\* chunk up, found on the way down.
chunk_with_proof(hash, count, index) ==
    Descent!After(nodes, [hash |-> hash, count |-> count, index |-> index, siblings |-> <<>>,
                          result |-> Running], count).result

get_chunk_at_index(data_root, chunk_index) ==
    LET count == tree_chunk_count(data_root) IN
    IF ~count.ok THEN count
    ELSE IF chunk_index >= count.value THEN Err("ChunkIndexOutOfRange")
    ELSE chunk_with_proof(data_root, count.value, chunk_index)

\* The chunks with an index in first .. last - 1, as far as there are any.
get_chunks_in_range(data_root, first, last) ==
    LET count == tree_chunk_count(data_root) IN
    IF ~count.ok THEN count
    ELSE Ok([i \in 1..(Min({last, count.value}) - first) |->
                chunk_with_proof(data_root, count.value, first + i - 1).value])

----------------------------------------------------------------------------
(* Reading bucket MMRs                                                      *)

ProofFromCurrentLeaves(bucket_id, commitment, leaf_index) ==
    IF leaf_index >= Len(buckets[bucket_id].leaves) THEN Err("LeafNotFound")
    ELSE Ok(proof(buckets[bucket_id].leaves, leaf_index))

\* The proof comes from the leaves the commitment covers, not from all that
\* the bucket holds by now.
get_mmr_proof_for_commitment(bucket_id, commitment, leaf_index) ==
    LET bucket == buckets[bucket_id]
        offset == commitment.start_seq - bucket.start_seq
        held == SubSeq(bucket.leaves, offset + 1, offset + commitment.leaf_count)
    IN  IF bucket = None THEN Err("BucketNotFound")
        ELSE IF leaf_index >= commitment.leaf_count THEN Err("CommitmentNotReproducible")
        ELSE IF offset < 0 \/ offset + commitment.leaf_count > Len(bucket.leaves)
             THEN Err("LeavesNotHeld")
        ELSE IF root(held) # commitment.mmr_root THEN Err("CommitmentNotReproducible")
        ELSE Ok(proof(held, leaf_index))

----------------------------------------------------------------------------
(* Transactions                                                             *)

\* A second call for the same bucket changes nothing.
init_bucket(bucket_id) ==
    /\ buckets[bucket_id] = None
    /\ buckets' = [buckets EXCEPT ![bucket_id] = NewBucketState]
    /\ UNCHANGED nodes

ChildrenStored(hash) == ~IsChunk(hash) => {hash[2], hash[3]} \subseteq nodes

WithinQuota(bucket, hash) == bucket.used_bytes + node_size(hash) <= bucket.max_bytes

Charged(bucket, hash) ==
    [bucket EXCEPT !.used_bytes = bucket.used_bytes + node_size(hash),
                   !.node_count = bucket.node_count + 1]

\* The row of a bucket after it stored a node.  A node that is already there,
\* in whichever bucket, is not charged again.
ChargedForNew(bucket, hash) == IF hash \in nodes THEN bucket ELSE Charged(bucket, hash)

store_node(bucket_id, hash) ==
    /\ ChildrenStored(hash)
    /\ buckets[bucket_id] # None
    /\ WithinQuota(buckets[bucket_id], hash)
    /\ nodes' = nodes \cup {hash}
    /\ buckets' = [buckets EXCEPT ![bucket_id] = ChargedForNew(@, hash)]

TotalSize(leaves) == IF leaves = <<>> THEN 0 ELSE Last(leaves).total_size

\* The running total of the sizes at the i-th new leaf.
TotalAfter(leaves, data_sizes, i) ==
    TotalSize(leaves) + FoldSeq(LAMBDA size, sum : size + sum, 0, SubSeq(data_sizes, 1, i))

\* One leaf per data root.
WithLeaves(leaves, data_roots, data_sizes) ==
    leaves \o [i \in 1..Len(data_roots) |->
        [leaf_version |-> LEAF_VERSION,
         data_root |-> data_roots[i],
         data_size |-> data_sizes[i],
         total_size |-> TotalAfter(leaves, data_sizes, i)]]

StaleRoot(bucket, start_seq, leaves) ==
    [bucket EXCEPT !.start_seq = start_seq, !.leaves = leaves]

WithMmr(bucket, start_seq, leaves) ==
    [bucket EXCEPT !.start_seq = start_seq, !.leaves = leaves, !.mmr_root = root(leaves)]

\* The transaction of a commit whose roots were found canonical.
commit_txn(bucket_id, data_roots, data_sizes) ==
    /\ buckets[bucket_id] # None
    /\ buckets' = [buckets EXCEPT ![bucket_id] =
           WithMmr(@, @.start_seq, WithLeaves(@.leaves, data_roots, data_sizes))]
    /\ UNCHANGED nodes

CommitOutcome(bucket, data_roots) ==
    [commitment |-> commitment_of(bucket),
     data_roots |-> data_roots,
     leaf_indices |-> [i \in 1..Len(data_roots) |->
                          Len(bucket.leaves) - Len(data_roots) + i - 1]]

delete_before(bucket_id, new_start_seq) ==
    LET bucket == buckets[bucket_id] IN
    /\ bucket # None
    /\ new_start_seq \in bucket.start_seq..(bucket.start_seq + Len(bucket.leaves))
    /\ buckets' = [buckets EXCEPT ![bucket_id] =
           IF new_start_seq = bucket.start_seq THEN bucket
           ELSE WithMmr(bucket, new_start_seq,
                    SubSeq(bucket.leaves, new_start_seq - bucket.start_seq + 1,
                           Len(bucket.leaves)))]
    /\ UNCHANGED nodes

=============================================================================
