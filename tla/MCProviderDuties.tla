-------------------------- MODULE MCProviderDuties --------------------------
(***************************************************************************)
(* Instances of ProviderDuties for TLC.                                     *)
(***************************************************************************)
EXTENDS ProviderDuties

Scenario(safety_net, challenges, replicates) ==
    [auto_respond |-> TRUE, safety_net |-> safety_net, challenges |-> challenges,
     data |-> Challenges, replica |-> replicates,
     connects |-> IF replicates THEN 1 ELSE 2]

\* Two challenges, with and without the safety-net scan; one challenge beside
\* the duties of a replica; two of which one asks for data that is gone; and
\* a node that never answers.
MCScenarios ==
    LET one == {CHOOSE c \in Challenges : TRUE} IN
    {Scenario(safety_net, Challenges, FALSE) : safety_net \in BOOLEAN}
    \cup {Scenario(TRUE, one, TRUE)}
    \cup {[Scenario(TRUE, Challenges, FALSE) EXCEPT !.data = one]}
    \cup {[Scenario(TRUE, one, FALSE) EXCEPT !.auto_respond = FALSE]}

=============================================================================
