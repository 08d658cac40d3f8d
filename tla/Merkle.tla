------------------------------- MODULE Merkle -------------------------------
(***************************************************************************)
(* The chunk tree of a data root (crates/primitives/storage, merkle.rs).    *)
(*                                                                          *)
(* A hash is a term: the tag of its domain prefix and what was hashed, so   *)
(* equal hashes have equal preimages (no collisions).  A leaf index counts  *)
(* from 0, as in the code; a TLA+ sequence counts from 1.  The loops of the *)
(* code are loops here (module Loop): one operator per loop body.           *)
(***************************************************************************)
EXTENDS Integers, Sequences, SequencesExt

\* The context of a loop body that reads nothing but its own variables.
Nothing == <<>>

hash_leaf(data) == <<"leaf", data>>

hash_children(left, right) == <<"node", left, right>>

\* H256::zero().
Zero == <<"zero">>

\* The level above: pairs are hashed, an odd last node moves up unchanged.
LevelAbove(context, level) ==
    [k \in 1..((Len(level) + 1) \div 2) |->
        IF 2 * k <= Len(level) THEN hash_children(level[2 * k - 1], level[2 * k])
        ELSE level[2 * k - 1]]

Levels == INSTANCE Loop WITH Body <- LevelAbove

\* The k-th level above the leaves.  From Len(leaf_hashes) on it is the root.
level(leaf_hashes, k) == Levels!After(Nothing, leaf_hashes, k)

merkle_root(leaf_hashes) ==
    IF leaf_hashes = <<>> THEN Zero ELSE level(leaf_hashes, Len(leaf_hashes))[1]

\* The nodes of the next level that have two children.
PairsOf(leaf_hashes, tree) ==
    [height |-> tree.height + 1,
     nodes |-> tree.nodes \o SubSeq(level(leaf_hashes, tree.height + 1), 1,
                                    Len(level(leaf_hashes, tree.height)) \div 2)]

Nodes == INSTANCE Loop WITH Body <- PairsOf

\* The internal nodes, children before parents.
merkle_tree(leaf_hashes) ==
    Nodes!After(leaf_hashes, [height |-> 0, nodes |-> <<>>], Len(leaf_hashes)).nodes

\* At this width the node at index has no sibling.
Unpaired(index, width) == index = width - 1 /\ width % 2 = 1

SiblingAt(nodes, index) == nodes[(IF index % 2 = 1 THEN index - 1 ELSE index + 1) + 1]

\* One level of proof_from_levels.
AddSibling(context, p) ==
    [nodes |-> LevelAbove(context, p.nodes),
     index |-> p.index \div 2,
     siblings |-> IF Unpaired(p.index, Len(p.nodes)) THEN p.siblings
                  ELSE Append(p.siblings, SiblingAt(p.nodes, p.index))]

Siblings == INSTANCE Loop WITH Body <- AddSibling

\* The siblings from the leaf at index up to the root.
proof_from_levels(leaf_hashes, index) ==
    Siblings!After(Nothing, [nodes |-> leaf_hashes, index |-> index, siblings |-> <<>>],
                   Len(leaf_hashes)).siblings

\* A climb that has reached the next level.
Up(c, current, steps) ==
    [current |-> current, index |-> c.index \div 2, width |-> (c.width + 1) \div 2,
     steps |-> steps, state |-> "climbing"]

\* One level of verify_merkle_proof.
TakeSibling(context, c) ==
    IF c.width <= 1 \/ c.state = "short" THEN c
    ELSE IF Unpaired(c.index, c.width) THEN Up(c, c.current, c.steps)
    ELSE IF c.steps = <<>> THEN [c EXCEPT !.state = "short"]
    ELSE Up(c, IF c.index % 2 = 1 THEN hash_children(Head(c.steps), c.current)
               ELSE hash_children(c.current, Head(c.steps)),
            Tail(c.steps))

Ascent == INSTANCE Loop WITH Body <- TakeSibling

\* What the siblings link a leaf to, and whether there were too few or too many.
Climb(leaf_hash, index, leaf_count, steps) ==
    Ascent!After(Nothing, [current |-> leaf_hash, index |-> index, width |-> leaf_count,
                           steps |-> steps, state |-> "climbing"], leaf_count)

Links(climbed, root) ==
    climbed.state # "short" /\ climbed.steps = <<>> /\ climbed.current = root

AlwaysLeftClimb(leaf_hash, index, leaf_count, proof, root) ==
    Links(Climb(leaf_hash, 0, leaf_count, proof), root)

verify_merkle_proof(leaf_hash, index, leaf_count, proof, root) ==
    index < leaf_count /\ Links(Climb(leaf_hash, index, leaf_count, proof), root)

=============================================================================
