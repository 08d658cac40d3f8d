------------------------ MODULE MCCheckpointManager ------------------------
(***************************************************************************)
(* Small instances of CheckpointManager for TLC.                            *)
(***************************************************************************)
EXTENDS CheckpointManager

CONSTANTS p1, p2, p3

Range(s, e) == [start |-> s, end |-> e]

\* A bucket that is empty at first, and one that grows.
FirstLeaf == <<Range(0, 0), Range(0, 1)>>
Growing == <<Range(0, 1), Range(0, 2)>>

\* A primary is replaced or joined by another; two join.
Changes == {{p1}, {p2}, {p1, p2}}
Grows == {{p1}, {p1, p2, p3}}

\* The bucket's primaries are asked, or endpoints configured by hand.
ManualOrNot == {{}, {p1, p2}}

=============================================================================
