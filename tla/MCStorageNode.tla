--------------------------- MODULE MCStorageNode ---------------------------
(***************************************************************************)
(* Instances of StorageNode for TLC.                                        *)
(***************************************************************************)
EXTENDS StorageNode

Full(id) == [id |-> id, size |-> ChunkSize]
Short(id) == [id |-> id, size |-> 1]

\* The last chunk of Large is a file of its own.
Tiny == <<Short("z")>>

\* Five chunks: the last one has no sibling on two levels.
Large == <<Full("a"), Full("b"), Full("a"), Full("b"), Short("z")>>

MCFiles == {Large}

RootOf(file) == merkle_root(ChunkHashes(file))

\* A tree of two chunks whose bytes would fit in one.
Misshapen == hash_children(hash_leaf(Short("z")), hash_leaf(Short("z")))

MCStrays == {Misshapen}

\* Two of the commits make seven leaves: three peaks, of four, two and one.
MCCommits ==
    LET l == RootOf(Large)
        t == RootOf(Tiny)
    IN  {<<t, l, t>>, <<l, t, t, l>>, <<Misshapen>>}

Symmetry == Permutations(Clients)

=============================================================================
