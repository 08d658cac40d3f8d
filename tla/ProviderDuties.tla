--------------------------- MODULE ProviderDuties ---------------------------
(***************************************************************************)
(* The provider node's background duties together: the challenge responder  *)
(* and the replica coordinator on one chain, one submission lock and one    *)
(* transaction pool.                                                        *)
(***************************************************************************)
EXTENDS ChallengeResponder, ReplicaSync

\* The chain holds finitely many challenges, which are not mistaken for other
\* events; both tasks submit.
ASSUME DutiesAssumption ==
    /\ IsFiniteSet(Challenges)
    /\ Challenges \cap {Resubscribed, MembershipScopeUnknown} = {}
    /\ {"responder", "replica"} \subseteq Tasks /\ None \notin Tasks

vars == <<chainVars, txVars, respVars, replicaVars>>

Init == ChainInit /\ TxInit /\ ResponderInit /\ ReplicaInit

\* Blocks are produced, and anybody resolves an expired challenge.
ChainSteps ==
    /\ NextBlock \/ \E c \in Challenges : resolve_expired_challenge(c)
    /\ UNCHANGED <<txVars, respVars, replicaVars>>

TxSteps == TxNext /\ UNCHANGED <<respVars, replicaVars>>

Next ==
    \/ ChainSteps
    \/ TxSteps
    \/ ResponderNext /\ UNCHANGED replicaVars
    \/ ReplicaNext /\ UNCHANGED respVars

\* The tasks run, a transaction in the pool lands, a pass ends by its timeout
\* at the latest, and the follower reconnects for ever.
Fairness ==
    /\ WF_vars(ResponderSteps /\ UNCHANGED replicaVars)
    /\ WF_vars(ReplicaSteps /\ UNCHANGED respVars)
    /\ WF_vars(Connect /\ UNCHANGED replicaVars)
    /\ WF_vars(Land /\ UNCHANGED <<respVars, replicaVars>>)
    /\ \A t \in Tasks :
          /\ SF_vars(AcquireLock(t) /\ UNCHANGED <<respVars, replicaVars>>)
          /\ WF_vars((\/ Submit(t) \/ SubmitRefused(t) \/ WatchEnds(t) \/ Retry(t)) /\ UNCHANGED <<respVars, replicaVars>>)

Spec == Init /\ [][Next]_vars /\ Fairness

----------------------------------------------------------------------------
(* Properties                                                               *)

Calls ==
    {RespondCall(c) : c \in Challenges} \cup {ConfirmCall(root) : root \in 0..MaxRoot}

ChallengeRecords == [status: {"unopened", "open", "defended", "slashed"}, deadline: Nat]
SyncRecords == [root: 0..MaxRoot, block: 0..MaxBlock]
Submissions ==
    [pc: {"idle", "lock", "submit", "watch", "delay", "ok", "err"},
     call: Calls \cup {None}, retrying: BOOLEAN]
Pending == [task: Tasks, call: Calls]
Events == Challenges \cup {Resubscribed, MembershipScopeUnknown}
ResponderStates ==
    [pc: {"select", "fetch", "scan", "respond", "submit"}, paused: BOOLEAN,
     todo: Seq(Challenges)]
ReplicaStates == [pc: {"select", "source", "confirm"}, target: 0..MaxRoot \cup {None}]

\* The variables are well typed, and the lock is held by exactly the task
\* that is between its first submission and its last verdict.
TypeOK ==
    /\ anchor_block \in 0..MaxBlock /\ snapshot \in 0..MaxRoot
    /\ challenge \in [Challenges -> ChallengeRecords]
    /\ last_sync \in SyncRecords \cup {None}
    /\ tx \in [Tasks -> Submissions]
    /\ pool \in Pending \cup {None}
    /\ submit_lock \in Tasks \cup {None}
    /\ \A t \in Tasks : submit_lock = t <=> tx[t].pc \in {"submit", "watch", "delay"}
    /\ faults \in 0..MaxFaults
    /\ follower \in [up: BOOLEAN, connects: Nat]
    /\ feed \in [events: Seq(Events), lagged: BOOLEAN] /\ Len(feed.events) <= ChannelCapacity
    /\ responder \in ResponderStates
    /\ replica \in ReplicaStates
    /\ local_root \in held /\ held \subseteq 0..MaxRoot

\* The responder reports Success for challenge c.
Success(c) == tx["responder"].pc = "ok" /\ tx["responder"].call = RespondCall(c)

\* A Success report is never about a challenge that is still open: whatever
\* made the responder believe the duty done, nothing is left to answer.
SuccessClosesChallenge ==
    \A c \in Challenges : Success(c) => challenge[c].status # "open"

\* A Success report means that the challenge was defended.
SuccessMeansDefended ==
    \A c \in Challenges : Success(c) => challenge[c].status = "defended"

\* The replica signs a root, and is paid for it, only if its bucket really
\* had that root, although the target was read from the chain long before and
\* clients commit and prune all the while.
AttestedRootWasHeld ==
    /\ tx["replica"].pc # "idle" => tx["replica"].call.arg \in held
    /\ last_sync # None => last_sync.root \in held

\* The reasons for which an open challenge may stay unanswered for ever.
Excused(c) ==
    \/ Expired(c)
    \/ c \notin scenario.data
    \/ responder.paused
    \/ ~scenario.auto_respond
    \/ ~scenario.safety_net /\ (faults > 0 \/ CoordinatorGone)

\* A challenge is answered before its deadline, whichever events were lost,
\* lagged or came while the responder was busy, and whatever the replica
\* coordinator does with the lock; without the safety-net scan only if no
\* block, read or submission failed and the follower lives.
EveryChallengeAnswered ==
    \A c \in Challenges :
        challenge[c].status = "open" ~> (challenge[c].status # "open" \/ Excused(c))

\* No task keeps the lock for ever, not even on a transaction that the pool
\* lost.
LockIsReleased == \A t \in Tasks : submit_lock = t ~> submit_lock # t

=============================================================================
