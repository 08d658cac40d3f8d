---------------------------- MODULE StorageNode ----------------------------
(***************************************************************************)
(* The provider node's data path: clients that upload files and commit them *)
(* (clients/storage, storage_user.rs), the HTTP handlers (provider-node,    *)
(* api.rs) over the store, and the answer to a challenge on anything the    *)
(* provider signed (crates/providers/challenge), judged as the pallet       *)
(* judges it.                                                               *)
(***************************************************************************)
EXTENDS StorageBackend

CONSTANTS
    Clients,
    Files,          \* sequences of chunks that clients upload
    Strays,         \* internal nodes that a writer stores outside an upload
    Written,        \* the buckets they upload and commit to; the others get strays
    Commits,        \* sequences of data roots that clients commit
    ChunkPositions, \* chunk indices of the challenges an answer is tried on
    MaxUploads,     \* bound on uploads
    MaxLeaves       \* bound on the leaves all buckets ever had

ASSUME NodeAssumption ==
    /\ Written \subseteq Buckets
    /\ ChunkPositions \subseteq Nat
    /\ MaxUploads \in Nat /\ MaxLeaves \in Nat
    /\ \A hash \in Strays : hash = hash_children(hash[2], hash[3])
    /\ \A data_roots \in Commits : data_roots \in Seq(ToSet(data_roots)) \ {<<>>}
    /\ \A file \in Files :
          /\ file \in Seq(ToSet(file)) \ {<<>>}
          /\ \A i \in DOMAIN file : file[i].size \in 1..ChunkSize

VARIABLES
    client,     \* [Clients -> the request in flight]
    uploads,    \* uploads begun
    signed      \* one of the commitments the provider signed, or None

vars == <<storeVars, client, uploads, signed>>

Idle == [pc |-> "idle", bucket |-> None, todo |-> <<>>, sizes |-> <<>>, outcome |-> None]

Init ==
    /\ nodes = {}
    /\ buckets = [b \in Buckets |-> None]
    /\ client = [c \in Clients |-> Idle]
    /\ uploads = 0
    /\ signed = None

\* The provider signs a commitment and hands it out.
Sign(bucket_id, outcome) ==
    signed' \in {signed, [bucket |-> bucket_id, outcome |-> outcome]}

SignedState(bucket) ==
    [commitment |-> commitment_of(bucket), data_roots |-> <<>>, leaf_indices |-> <<>>]

----------------------------------------------------------------------------
(* Clients and handlers                                                     *)

ChunkHashes(file) == [i \in 1..Len(file) |-> hash_leaf(file[i])]

\* The chunks in order, then the internal nodes, children before parents.
UploadOrder(file) == ChunkHashes(file) \o merkle_tree(ChunkHashes(file))

upload(c, b, file) ==
    /\ client[c].pc = "idle"
    /\ uploads < MaxUploads
    /\ uploads' = uploads + 1
    /\ client' = [client EXCEPT ![c] =
           [Idle EXCEPT !.pc = "upload", !.bucket = b, !.todo = UploadOrder(file)]]
    /\ UNCHANGED <<storeVars, signed>>

\* The first transaction of PUT /node, of an upload or of a request that is
\* refused in its second.
InitBucket(b) == init_bucket(b) /\ UNCHANGED <<client, uploads, signed>>

\* One PUT /node of an upload.
upload_node(c) ==
    /\ client[c].pc = "upload"
    /\ store_node(client[c].bucket, Head(client[c].todo))
    /\ client' = [client EXCEPT ![c] =
           IF Len(client[c].todo) = 1 THEN Idle
           ELSE [client[c] EXCEPT !.todo = Tail(client[c].todo)]]
    /\ UNCHANGED <<uploads, signed>>

\* A writer may also store any internal node over stored nodes.
PutNode(b, hash) ==
    /\ store_node(b, hash)
    /\ UNCHANGED <<client, uploads, signed>>

LeavesEver ==
    MapThenSumSet(LAMBDA b : IF buckets[b] = None THEN 0
                             ELSE buckets[b].start_seq + Len(buckets[b].leaves), Buckets)

\* POST /commit: every root must be stored and canonical ...
commit(c, b, data_roots) ==
    /\ client[c].pc = "idle"
    /\ buckets[b] # None
    /\ LeavesEver + Len(data_roots) <= MaxLeaves
    /\ \A i \in DOMAIN data_roots :
          data_roots[i] \in nodes /\ canonical_data_size(data_roots[i]).ok
    /\ client' = [client EXCEPT ![c] =
           [Idle EXCEPT !.pc = "commit", !.bucket = b, !.todo = data_roots,
                        !.sizes = [i \in DOMAIN data_roots |->
                                      canonical_data_size(data_roots[i]).value]]]
    /\ UNCHANGED <<storeVars, uploads, signed>>

\* ... then the transaction ...
CommitTxn(c) ==
    LET r == client[c] IN
    /\ r.pc = "commit"
    /\ LeavesEver + Len(r.todo) <= MaxLeaves
    /\ commit_txn(r.bucket, r.todo, r.sizes)
    /\ client' = [client EXCEPT ![c] =
           [r EXCEPT !.pc = "sign",
                     !.outcome = CommitOutcome(buckets'[r.bucket], r.todo)]]
    /\ UNCHANGED <<uploads, signed>>

SignReread(c) ==
    /\ client[c].pc = "sign"
    /\ Sign(client[c].bucket,
            [client[c].outcome EXCEPT !.commitment = commitment_of(buckets[client[c].bucket])])
    /\ client' = [client EXCEPT ![c] = Idle]
    /\ UNCHANGED <<storeVars, uploads>>

\* ... then the signature over what the transaction returned.
SignCommit(c) ==
    /\ client[c].pc = "sign"
    /\ Sign(client[c].bucket, client[c].outcome)
    /\ client' = [client EXCEPT ![c] = Idle]
    /\ UNCHANGED <<storeVars, uploads>>

\* GET /commitment and GET /checkpoint-signature.
get_commitment(b) ==
    /\ buckets[b] # None
    /\ Sign(b, SignedState(buckets[b]))
    /\ UNCHANGED <<storeVars, client, uploads>>

\* POST /delete: the commitment after the prune is signed too.
delete_data(b, new_start_seq) ==
    /\ delete_before(b, new_start_seq)
    /\ Sign(b, SignedState(buckets'[b]))
    /\ UNCHANGED <<client, uploads>>

\* The node stops and starts again: requests in flight are gone, what a
\* transaction wrote is there.
Restart ==
    /\ \E c \in Clients : client[c].pc # "idle"
    /\ client' = [c \in Clients |-> Idle]
    /\ UNCHANGED <<storeVars, uploads, signed>>

Next ==
    \/ \E c \in Clients, b \in Written, file \in Files : upload(c, b, file)
    \/ \E c \in Clients, b \in Written, data_roots \in Commits : commit(c, b, data_roots)
    \/ \E c \in Clients : upload_node(c) \/ CommitTxn(c) \/ SignCommit(c)
    \/ \E b \in Buckets : InitBucket(b) \/ get_commitment(b)
    \/ \E b \in Buckets : \E hash \in Strays : PutNode(b, hash)
    \/ \E b \in Buckets, new_start_seq \in 0..MaxLeaves : delete_data(b, new_start_seq)
    \/ Restart

Spec == Init /\ [][Next]_vars

----------------------------------------------------------------------------
(* Answering a challenge                                                    *)

\* What the responder submits for a challenge, or why it cannot.
respond(b, commitment, leaf_index, chunk_index) ==
    LET mmr_proof == get_mmr_proof_for_commitment(b, commitment, leaf_index)
        chunk == get_chunk_at_index(mmr_proof.value.leaf.data_root, chunk_index)
    IN  IF ~mmr_proof.ok THEN mmr_proof
        ELSE IF chunk_index >= chunk_count(mmr_proof.value.leaf)
             THEN Ok([kind |-> "ChunkOutOfRange", mmr_proof |-> mmr_proof.value])
        ELSE IF ~chunk.ok THEN chunk
        ELSE Ok([kind |-> "Proof", mmr_proof |-> mmr_proof.value,
                 chunk_data |-> chunk.value.chunk, chunk_proof |-> chunk.value.proof])

\* The pallet's check that a response carries the challenged leaf ...
verify_challenged_leaf(commitment, leaf_index, response) ==
    verify_mmr_proof(response.mmr_proof, leaf_index, commitment)

\* ... and its verdict on a Proof or a ChunkOutOfRange response.
Accepted(commitment, leaf_index, chunk_index, response) ==
    LET leaf == response.mmr_proof.leaf IN
    /\ verify_challenged_leaf(commitment, leaf_index, response)
    /\ IF response.kind = "ChunkOutOfRange" THEN chunk_index >= chunk_count(leaf)
       ELSE verify_merkle_proof(hash_leaf(response.chunk_data), chunk_index,
                chunk_count(leaf), response.chunk_proof, leaf.data_root)

----------------------------------------------------------------------------
(* Properties                                                               *)

\* The rows of the store and the requests are well typed: no node is stored
\* before its children, and a row's root is that of its leaves.
TypeOK ==
    /\ \A hash \in nodes : hash[1] \in {"leaf", "node"} /\ ChildrenStored(hash)
    /\ \A b \in Buckets : buckets[b] # None =>
          /\ buckets[b].start_seq \in Nat
          /\ buckets[b].used_bytes \in 0..MaxBytes
          /\ buckets[b].mmr_root = root(buckets[b].leaves)
    /\ \A c \in Clients :
          /\ client[c].pc \in {"idle", "upload", "commit", "sign"}
          /\ client[c].pc # "idle" => client[c].bucket \in Buckets /\ client[c].todo # <<>>
    /\ uploads \in 0..MaxUploads

\* The sampled commitment still starts inside the leaves the bucket holds.
Held ==
    signed # None /\ signed.outcome.commitment.start_seq >= buckets[signed.bucket].start_seq

\* The leaves the sampled commitment was signed over.
TrueLeaves ==
    LET commitment == signed.outcome.commitment
        bucket == buckets[signed.bucket]
    IN  SubSeq(bucket.leaves, commitment.start_seq - bucket.start_seq + 1,
               commitment.start_seq - bucket.start_seq + commitment.leaf_count)

LeafIndices == 0..(signed.outcome.commitment.leaf_count - 1)

\* The chunk indices of a leaf, and the first one past its end.
ChunkIndices(leaf) == 0..chunk_count(leaf)

\* Whatever the provider signed, it can answer for: as long as the bucket was
\* not pruned past the start of a signed commitment, every challenge on it,
\* at every leaf and chunk index and past the last chunk, gets a response
\* that the pallet accepts, whatever was committed since.
SignedIsAnswerable ==
    Held => \A i \in LeafIndices : \A k \in ChunkIndices(TrueLeaves[i + 1]) :
        LET response == respond(signed.bucket, signed.outcome.commitment, i, k) IN
        response.ok /\ Accepted(signed.outcome.commitment, i, k, response.value)

\* A response for one position proves nothing for another: a leaf that the
\* pallet accepts for position i is leaf i of the signed state, and a chunk it
\* accepts for index k is chunk k of that leaf, also when the proof was made
\* for another position, or for the bucket's latest commitment.
AnswersBindPosition ==
    Held => \A c \in {signed.outcome.commitment, commitment_of(buckets[signed.bucket])} :
        \A j \in LeafIndices, m \in ChunkPositions :
            LET response == respond(signed.bucket, c, j, m) IN
            response.ok => \A i \in LeafIndices :
                verify_challenged_leaf(signed.outcome.commitment, i, response.value) =>
                    LET leaf == TrueLeaves[i + 1]
                        chunks == collect_leaves(leaf.data_root).value
                    IN  /\ response.value.mmr_proof.leaf = leaf
                        /\ \A k \in ChunkPositions :
                              Accepted(signed.outcome.commitment, i, k, response.value) =>
                                  IF response.value.kind = "Proof"
                                  THEN /\ k < Len(chunks)
                                       /\ hash_leaf(response.value.chunk_data) = chunks[k + 1]
                                  ELSE k >= Len(chunks)

\* The receipt of a commit is honest: the leaf indices it names are those of
\* the committed roots under the commitment it was signed with, although
\* other commits and prunes run at the same time.
ReceiptNamesItsLeaves ==
    Held => \A n \in DOMAIN signed.outcome.data_roots :
        LET i == signed.outcome.leaf_indices[n] IN
        i \in LeafIndices /\ TrueLeaves[i + 1].data_root = signed.outcome.data_roots[n]

\* What was committed can be read back: the chunks of every leaf come in the
\* order they were uploaded in, each with a proof that verifies, and fill the
\* leaf's data_size exactly.
CommittedDataReadable ==
    \A b \in Buckets : buckets[b] # None => \A n \in DOMAIN buckets[b].leaves :
        LET leaf == buckets[b].leaves[n]
            count == chunk_count(leaf)
            read == get_chunks_in_range(leaf.data_root, 0, count + 1)
        IN  /\ read.ok /\ Len(read.value) = count
            /\ SizeOf([k \in 1..count |-> hash_leaf(read.value[k].chunk)]) = leaf.data_size
            /\ \A k \in 1..count :
                  verify_merkle_proof(hash_leaf(read.value[k].chunk), k - 1, count,
                                      read.value[k].proof, leaf.data_root)

\* The totals of StorageStats count each stored node once, although buckets
\* share nodes and several clients upload the same file at a time.
StatsExact ==
    LET rows == [b \in Buckets |-> IF buckets[b] = None THEN NewBucketState ELSE buckets[b]] IN
    /\ SumFunction([b \in Buckets |-> rows[b].node_count]) = Cardinality(nodes)
    /\ SumFunction([b \in Buckets |-> rows[b].used_bytes])
       = SumFunction([hash \in nodes |-> node_size(hash)])

=============================================================================
