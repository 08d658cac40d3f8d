----------------------------- MODULE Liability -----------------------------
(***************************************************************************)
(* What the pallet promises about exposure, without its counters, clocks,   *)
(* byte totals and money: whoever takes on an agreement stays within reach  *)
(* of its challengers until every challenge on it is closed.                *)
(*                                                                          *)
(* StoragePallet implements this specification: the gates it computes from  *)
(* committed_bytes, deregister_at, PendingChallenges and                    *)
(* PendingChallengesByBucket let through only the steps below.              *)
(***************************************************************************)
CONSTANTS Accounts, BucketIds, Ids

VARIABLES
    registered,  \* the providers
    exiting,     \* those that have announced their exit
    buckets,     \* the buckets that exist
    agreements,  \* the pairs <<bucket, provider>> with an agreement
    open         \* challenge id -> the agreement it is about

vars == <<registered, exiting, buckets, agreements, open>>

OpenOn(a) == {id \in DOMAIN open : open[id] = a}

Init ==
    /\ registered \in SUBSET Accounts
    /\ buckets \in SUBSET BucketIds
    /\ exiting = {}
    /\ agreements = {}
    /\ open = [x \in {} |-> <<>>]

Register(p) ==
    /\ p \notin registered
    /\ registered' = registered \cup {p}
    /\ UNCHANGED <<exiting, buckets, agreements, open>>

\* Only a provider without agreements may announce its exit ...
Announce(p) ==
    /\ p \in registered \ exiting
    /\ \A b \in BucketIds : <<b, p>> \notin agreements
    /\ exiting' = exiting \cup {p}
    /\ UNCHANGED <<registered, buckets, agreements, open>>

Cancel(p) ==
    /\ p \in exiting
    /\ exiting' = exiting \ {p}
    /\ UNCHANGED <<registered, buckets, agreements, open>>

\* ... and only an announced one leaves.
Leave(p) ==
    /\ p \in exiting
    /\ registered' = registered \ {p}
    /\ exiting' = exiting \ {p}
    /\ UNCHANGED <<buckets, agreements, open>>

CreateBucket(b) ==
    /\ b \notin buckets
    /\ buckets' = buckets \cup {b}
    /\ UNCHANGED <<registered, exiting, agreements, open>>

DeleteBucket(b) ==
    /\ \A p \in Accounts : <<b, p>> \notin agreements
    /\ buckets' = buckets \ {b}
    /\ UNCHANGED <<registered, exiting, agreements, open>>

\* An agreement on an existing bucket, or together with a new one.
Agree(b, p) ==
    /\ p \in registered \ exiting
    /\ <<b, p>> \notin agreements
    /\ buckets' = buckets \cup {b}
    /\ agreements' = agreements \cup {<<b, p>>}
    /\ UNCHANGED <<registered, exiting, open>>

\* No agreement ends while a challenge on it is open.
End(b, p) ==
    /\ <<b, p>> \in agreements
    /\ OpenOn(<<b, p>>) = {}
    /\ agreements' = agreements \ {<<b, p>>}
    /\ UNCHANGED <<registered, exiting, buckets, open>>

\* A challenge gets an id of its own and concerns an agreement.
Challenge(id, b, p) ==
    /\ id \notin DOMAIN open
    /\ <<b, p>> \in agreements
    /\ open' = [x \in DOMAIN open \cup {id} |-> IF x = id THEN <<b, p>> ELSE open[x]]
    /\ UNCHANGED <<registered, exiting, buckets, agreements>>

Close(id) ==
    /\ id \in DOMAIN open
    /\ open' = [x \in DOMAIN open \ {id} |-> open[x]]
    /\ UNCHANGED <<registered, exiting, buckets, agreements>>

Next ==
    \/ \E p \in Accounts : Register(p) \/ Announce(p) \/ Cancel(p) \/ Leave(p)
    \/ \E b \in BucketIds :
          \/ CreateBucket(b)
          \/ DeleteBucket(b)
          \/ \E p \in Accounts : \/ Agree(b, p)
                                 \/ End(b, p)
                                 \/ \E id \in Ids : Challenge(id, b, p)
    \/ \E id \in DOMAIN open : Close(id)

Spec == Init /\ [][Next]_vars

----------------------------------------------------------------------------
(* Every open challenge is about an agreement, every agreement is on an     *)
(* existing bucket with a registered provider that has not announced its    *)
(* exit.                                                                    *)

Exposed ==
    /\ exiting \subseteq registered
    /\ \A b \in BucketIds, p \in Accounts :
          <<b, p>> \in agreements => b \in buckets /\ p \in registered \ exiting
    /\ agreements \subseteq BucketIds \X Accounts
    /\ \A id \in DOMAIN open : open[id] \in agreements

=============================================================================
