------------------------- MODULE CheckpointManager -------------------------
(***************************************************************************)
(* The client's checkpoint manager (clients/storage/src/checkpoint.rs): the *)
(* background loop of one bucket, the collection of the providers' signed   *)
(* commitments, the choice of a majority and the checkpoint transaction.    *)
(*                                                                          *)
(* A bucket's content is a sequence of commits and deletions that each      *)
(* provider applies in order, so what a provider holds is a position in     *)
(* History, the sequence of ranges the bucket goes through.  Everything     *)
(* between two awaits of the code is one action: the list of providers, the *)
(* committed range on chain, each provider's answer and the transaction are *)
(* read or sent at different times, while providers, other calls of the     *)
(* bucket and the caller go on.  An await without a timeout may never end.  *)
(***************************************************************************)
EXTENDS Integers, Sequences, FiniteSets

CONSTANTS
    Providers,
    History,        \* the ranges the bucket goes through, [start, end]
    PrimarySets,    \* the primaries the bucket may have
    EndpointSets,   \* the providers whose endpoints may be configured by hand
    Threshold,      \* consensus_threshold_percent
    MaxFailures,    \* max_consecutive_failures
    SubmitOnEmpty,  \* submit_on_empty
    MinProviders,   \* the bucket's min_providers
    QueueCapacity,  \* of the command channel
    MaxCommands,    \* bound on the commands the caller sends
    MaxChurn,       \* bound on changes of the primaries
    MaxFaults,      \* bound on failing chain reads and submissions
    None

ASSUME HistoryAssumption ==
    /\ History \in Seq([start: Nat, end: Nat]) /\ Len(History) > 0
    /\ \A i, j \in 1..Len(History) :
           /\ History[i].start <= History[i].end
           /\ i <= j => /\ History[i].start <= History[j].start
                        /\ History[i].end <= History[j].end

ASSUME ManagerAssumption ==
    /\ IsFiniteSet(Providers)
    /\ PrimarySets \subseteq SUBSET Providers /\ PrimarySets # {}
    /\ EndpointSets \subseteq SUBSET Providers /\ EndpointSets # {}
    /\ Threshold \in 0..100 /\ MaxFailures \in Nat /\ SubmitOnEmpty \in BOOLEAN
    /\ {MinProviders, QueueCapacity, MaxCommands, MaxChurn, MaxFaults} \subseteq Nat
    /\ None \notin Providers

VARIABLES
    position,   \* how far each provider has come in History
    written,    \* how far the client has come
    bucket,     \* on chain: primary_providers and the snapshot's commitment
    cache,      \* provider_cache: a list of providers that has not expired
    status,     \* BucketCheckpointStatus, paused and running; with them the manager's
                \* provider_endpoints, which never change
    commands,   \* the command channel
    attempt,    \* submit_checkpoint under way: what it has read so far
    tx,         \* the manager's checkpoint transaction in the pool; with it, as
                \* history, the floor its answers were held against
    budget,     \* the bounds left
    mark        \* history: how far the providers had come at the last mark_dirty

vars == <<position, written, bucket, cache, status, commands, attempt, tx, budget, mark>>

----------------------------------------------------------------------------
(* Commitments                                                              *)

\* The root of an empty range is zero, whatever its position.
mmr_root(r) == IF r.start = r.end THEN None ELSE r

Commitment(r) ==
    [mmr_root |-> mmr_root(r), start_seq |-> r.start, leaf_count |-> r.end - r.start]

Commitments == {Commitment(History[i]) : i \in 1..Len(History)}

\* The absent value is not a commitment.
ASSUME NoneAssumption == None \notin Commitments

End(c) == c.start_seq + c.leaf_count

\* Commitment c keeps all that d commits to, or has deleted it since.
NotBehind(c, d) == c.start_seq >= d.start_seq /\ End(c) >= End(d)

\* The floor check that every answer passes, in the mutant.
AnyRange(c, floor) == TRUE

commitment_within_floor(c, floor) == floor # None => NotBehind(c, floor)

----------------------------------------------------------------------------
(* State                                                                    *)

Commands == {"SubmitNow", "MarkDirty", "Pause", "Resume", "Stop"}

Idle == [at |-> "select", providers |-> {}, floor |-> None,
         replies |-> [p \in {} |-> None], chosen |-> None]

Init ==
    /\ position = [p \in Providers |-> 1]
    /\ written = 1
    /\ \E P \in PrimarySets : bucket = [primary_providers |-> P, snapshot |-> None]
    /\ cache = None
    /\ \E E \in EndpointSets :
           status = [dirty |-> FALSE, consecutive_failures |-> 0, recent |-> FALSE,
                     paused |-> FALSE, running |-> TRUE, provider_endpoints |-> E]
    /\ commands = <<>>
    /\ attempt = Idle
    /\ tx = None
    /\ budget = [commands |-> MaxCommands, churn |-> MaxChurn, faults |-> MaxFaults]
    /\ mark = None

----------------------------------------------------------------------------
(* The bucket's content and the chain                                       *)

\* The client commits or deletes; a provider applies the next change.
Write ==
    /\ written < Len(History)
    /\ written' = written + 1
    /\ UNCHANGED <<position, bucket, cache, status, commands, attempt, tx, budget, mark>>

Apply(p) ==
    /\ position[p] < written
    /\ position' = [position EXCEPT ![p] = @ + 1]
    /\ UNCHANGED <<written, bucket, cache, status, commands, attempt, tx, budget, mark>>

\* Agreements begin and end.
ChangePrimaries ==
    /\ budget.churn > 0
    /\ \E P \in PrimarySets \ {bucket.primary_providers} :
           bucket' = [bucket EXCEPT !.primary_providers = P]
    /\ budget' = [budget EXCEPT !.churn = @ - 1]
    /\ UNCHANGED <<position, written, cache, status, commands, attempt, tx, mark>>

\* The checkpoint call: every signer must be a primary and every signature must
\* be over the submitted commitment; nothing is compared with the snapshot.
Accepts(b, t) ==
    /\ DOMAIN t.signed \subseteq b.primary_providers
    /\ \A p \in DOMAIN t.signed : t.signed[p] = t.commitment
    /\ Cardinality(DOMAIN t.signed) >= MinProviders
    /\ DOMAIN t.signed # {}

checkpoint(b, t) == IF Accepts(b, t) THEN [b EXCEPT !.snapshot = t.commitment] ELSE b

----------------------------------------------------------------------------
(* The caller's side: CheckpointLoopHandle                                  *)

\* A channel without a bound, in the mutant.
SendUnbounded(c) ==
    /\ budget.commands > 0
    /\ attempt.at # "stopped"
    /\ commands' = Append(commands, c)
    /\ budget' = [budget EXCEPT !.commands = @ - 1]

\* A full channel makes the caller wait.
Send(c) ==
    /\ budget.commands > 0
    /\ attempt.at # "stopped"
    /\ Len(commands) < QueueCapacity
    /\ commands' = Append(commands, c)
    /\ budget' = [budget EXCEPT !.commands = @ - 1]

Request(c) ==
    /\ c \in {"SubmitNow", "Pause", "Resume"}
    /\ Send(c)
    /\ UNCHANGED <<position, written, bucket, cache, status, attempt, tx, mark>>

\* mark_dirty with the flag shared with the loop, in the mutant.
SharedDirtyFlag ==
    /\ budget.commands > 0
    /\ status' = [status EXCEPT !.dirty = TRUE]
    /\ budget' = [budget EXCEPT !.commands = @ - 1]
    /\ mark' = position
    /\ UNCHANGED <<position, written, bucket, cache, commands, attempt, tx>>

\* At any time: the providers may or may not have applied the changes yet.
mark_dirty ==
    /\ Send("MarkDirty")
    /\ mark' = position
    /\ UNCHANGED <<position, written, bucket, cache, status, attempt, tx>>

\* Stop is sent and the running flag is cleared.
stop ==
    /\ Send("Stop")
    /\ status' = [status EXCEPT !.running = FALSE]
    /\ UNCHANGED <<position, written, bucket, cache, attempt, tx, mark>>

\* The cached list expires, or the caller invalidates it.
invalidate_cache ==
    /\ cache # None
    /\ cache' = None
    /\ UNCHANGED <<position, written, bucket, status, commands, attempt, tx, budget, mark>>

----------------------------------------------------------------------------
(* The loop                                                                 *)

\* The end of an iteration: too many failures pause the loop, a cleared running
\* flag ends it.
EndIteration(s) ==
    /\ status' = [s EXCEPT !.paused = @ \/ s.consecutive_failures >= MaxFailures]
    /\ attempt' = IF s.running THEN Idle ELSE [Idle EXCEPT !.at = "stopped"]

StartCheckpoint ==
    /\ attempt' = [Idle EXCEPT !.at = "providers"]
    /\ UNCHANGED status

RecvCommand ==
    /\ attempt.at = "select"
    /\ commands # <<>>
    /\ commands' = Tail(commands)
    /\ CASE Head(commands) = "SubmitNow" -> StartCheckpoint
         [] Head(commands) = "MarkDirty" -> EndIteration([status EXCEPT !.dirty = TRUE])
         [] Head(commands) = "Pause" -> EndIteration([status EXCEPT !.paused = TRUE])
         [] Head(commands) = "Resume" -> EndIteration([status EXCEPT !.paused = FALSE])
         [] Head(commands) = "Stop" -> EndIteration([status EXCEPT !.running = FALSE])
    /\ UNCHANGED <<position, written, bucket, cache, tx, budget, mark>>

InBackoff == status.consecutive_failures > 0 /\ status.recent

\* A tick of a paused loop goes straight back to the select.
IntervalTick ==
    /\ attempt.at = "select"
    /\ ~status.paused
    /\ IF (status.dirty \/ SubmitOnEmpty) /\ ~InBackoff
         THEN StartCheckpoint
         ELSE EndIteration(status)
    /\ UNCHANGED <<position, written, bucket, cache, commands, tx, budget, mark>>

RetryDelayElapses ==
    /\ status.recent
    /\ status' = [status EXCEPT !.recent = FALSE]
    /\ UNCHANGED <<position, written, bucket, cache, commands, attempt, tx, budget, mark>>

\* The failure counter left alone when the transaction fails, in the mutant.
UncountedFailure(result) ==
    EndIteration([status EXCEPT
        !.recent = TRUE,
        !.dirty = @ /\ result # "Submitted",
        !.consecutive_failures = IF result = "Submitted" THEN 0 ELSE @])

\* execute_checkpoint, once submit_checkpoint returned.
Executed(result) ==
    EndIteration([status EXCEPT
        !.recent = TRUE,
        !.dirty = @ /\ result # "Submitted",
        !.consecutive_failures = IF result = "Submitted" THEN 0 ELSE @ + 1])

----------------------------------------------------------------------------
(* submit_checkpoint                                                        *)

Fault ==
    /\ budget.faults > 0
    /\ budget' = [budget EXCEPT !.faults = @ - 1]

\* The cached list; or, of the endpoints configured by hand, those that tell
\* their account; or the bucket's primaries.
Listings ==
    IF cache # None THEN {cache}
    ELSE IF status.provider_endpoints # {} THEN SUBSET status.provider_endpoints
    ELSE {bucket.primary_providers}

get_providers ==
    /\ attempt.at = "providers"
    /\ \E P \in Listings :
           IF P = {}
             THEN Executed("TransactionFailed") /\ UNCHANGED cache
             ELSE /\ cache' = P
                  /\ attempt' = [attempt EXCEPT !.at = "floor", !.providers = P]
                  /\ UNCHANGED status
    /\ UNCHANGED <<position, written, bucket, commands, tx, budget, mark>>

snapshot_floor ==
    /\ attempt.at = "floor"
    /\ attempt' = [attempt EXCEPT !.at = "collect", !.floor = bucket.snapshot]
    /\ UNCHANGED <<position, written, bucket, cache, status, commands, tx, budget, mark>>

\* A read of the chain fails: the attempt ends.
ReadFails ==
    /\ attempt.at \in {"providers", "floor"}
    /\ attempt.at = "providers" => cache = None /\ status.provider_endpoints = {}
    /\ Fault
    /\ Executed("TransactionFailed")
    /\ UNCHANGED <<position, written, bucket, cache, commands, tx, mark>>

\* A provider answers with its signed commitment, or not at all in all retries.
query_provider_commitment(p) ==
    /\ attempt.at = "collect"
    /\ p \in attempt.providers \ DOMAIN attempt.replies
    /\ \E r \in {Commitment(History[position[p]]), None} :
           attempt' = [attempt EXCEPT
               !.replies = [q \in DOMAIN @ \cup {p} |-> IF q = p THEN r ELSE @[q]]]
    /\ UNCHANGED <<position, written, bucket, cache, status, commands, tx, budget, mark>>

\* An attempt that never goes on: what it has read is of no more use.  The
\* request for a provider's account has no timeout, and that for its
\* commitment has one that does not include the body of the answer.
RequestHangs ==
    /\ \/ attempt.at = "providers" /\ cache = None /\ status.provider_endpoints # {}
       \/ attempt.at = "collect" /\ DOMAIN attempt.replies # attempt.providers
    /\ attempt' = [Idle EXCEPT !.at = "hung"]
    /\ UNCHANGED <<position, written, bucket, cache, status, commands, tx, budget, mark>>

Usable == {p \in attempt.providers :
               attempt.replies[p] # None
               /\ commitment_within_floor(attempt.replies[p], attempt.floor)}

Agreeing(root) == {p \in Usable : attempt.replies[p].mmr_root = root}

\* A root no other root has more providers for; ties fall to the map's order.
MajorityRoots ==
    LET Roots == {attempt.replies[p].mmr_root : p \in Usable}
    IN  {r \in Roots : \A q \in Roots : Cardinality(Agreeing(q)) <= Cardinality(Agreeing(r))}

\* ceil(total * threshold / 100)
Required == (Cardinality(attempt.providers) * Threshold + 99) \div 100

\* All answers are in: the consensus is checked and the transaction sent.
collect_commitments ==
    /\ attempt.at = "collect"
    /\ DOMAIN attempt.replies = attempt.providers
    /\ IF Usable = {}
         THEN Executed("ProvidersUnreachable") /\ UNCHANGED <<tx, budget>>
         ELSE \E root \in MajorityRoots :
              IF Cardinality(Agreeing(root)) < Required
                THEN Executed("InsufficientConsensus") /\ UNCHANGED <<tx, budget>>
                ELSE \E first \in Agreeing(root) :
                     /\ attempt' = [attempt EXCEPT !.at = "submit", !.chosen =
                            [commitment |-> attempt.replies[first],
                             signed |-> [p \in Agreeing(root) |-> attempt.replies[p]],
                             floor |-> attempt.floor]]
                     /\ UNCHANGED <<status, tx, budget>>
    /\ UNCHANGED <<position, written, bucket, cache, commands, mark>>

\* An earlier transaction still in the pool holds the account's next nonce.
submit_commitment_onchain ==
    /\ attempt.at = "submit"
    /\ IF tx = None
         THEN /\ tx' = attempt.chosen
              /\ attempt' = [attempt EXCEPT !.at = "watch"]
              /\ UNCHANGED status
         ELSE Executed("TransactionFailed") /\ UNCHANGED tx
    /\ UNCHANGED <<position, written, bucket, cache, commands, budget, mark>>

\* The submission fails before the pool, or the watch is lost and the
\* transaction stays behind.
SubmissionFails ==
    /\ attempt.at \in {"submit", "watch"}
    /\ Fault
    /\ Executed("TransactionFailed")
    /\ UNCHANGED <<position, written, bucket, cache, commands, tx, mark>>

\* A watch that neither resolves nor errors, whatever becomes of the transaction.
WatchHangs ==
    /\ attempt.at = "watch"
    /\ attempt' = [Idle EXCEPT !.at = "hung"]
    /\ UNCHANGED <<position, written, bucket, cache, status, commands, tx, budget, mark>>

\* The pool: the transaction is included and finalized, or dropped.
Finalize ==
    /\ tx # None
    /\ bucket' = checkpoint(bucket, tx)
    /\ tx' = None
    /\ IF attempt.at = "watch"
         THEN Executed(IF Accepts(bucket, tx) THEN "Submitted" ELSE "TransactionFailed")
         ELSE UNCHANGED <<status, attempt>>
    /\ UNCHANGED <<position, written, cache, commands, budget, mark>>

Drop ==
    /\ tx # None /\ Fault
    /\ tx' = None
    /\ IF attempt.at = "watch"
         THEN Executed("TransactionFailed")
         ELSE UNCHANGED <<status, attempt>>
    /\ UNCHANGED <<position, written, bucket, cache, commands, mark>>

----------------------------------------------------------------------------

LoopStep ==
    \/ RecvCommand \/ get_providers \/ snapshot_floor
    \/ \E p \in Providers : query_provider_commitment(p)
    \/ collect_commitments \/ submit_commitment_onchain

Next ==
    \/ Write \/ ChangePrimaries \/ \E p \in Providers : Apply(p)
    \/ \E c \in Commands : Request(c)
    \/ mark_dirty \/ stop \/ invalidate_cache
    \/ IntervalTick \/ RetryDelayElapses \/ LoopStep
    \/ ReadFails \/ SubmissionFails \/ Finalize \/ Drop
    \/ RequestHangs \/ WatchHangs

Spec == Init /\ [][Next]_vars

\* The task is scheduled and its timers fire; what it waits for comes, fails or
\* hangs; a transaction in the pool is included or dropped.
FairSpec ==
    /\ Spec
    /\ WF_vars(LoopStep) /\ WF_vars(IntervalTick) /\ WF_vars(RetryDelayElapses)
    /\ WF_vars(Finalize)

----------------------------------------------------------------------------
(* Properties                                                               *)

Replies == UNION {[P -> Commitments \cup {None}] : P \in SUBSET Providers}
Transactions ==
    [commitment: Commitments, floor: Commitments \cup {None},
     signed: UNION {[P -> Commitments] : P \in SUBSET Providers}]

Attempts ==
    [at: {"select", "providers", "floor", "collect", "submit", "watch", "hung",
          "stopped"},
     providers: SUBSET Providers, floor: Commitments \cup {None}, replies: Replies,
     chosen: Transactions \cup {None}]

Statuses ==
    [dirty: BOOLEAN, consecutive_failures: Nat, recent: BOOLEAN,
     paused: BOOLEAN, running: BOOLEAN, provider_endpoints: EndpointSets]

\* Every variable has its type.
TypeOK ==
    /\ position \in [Providers -> 1..Len(History)]
    /\ written \in 1..Len(History)
    /\ mark \in [Providers -> 1..Len(History)] \cup {None}
    /\ bucket \in [primary_providers: PrimarySets, snapshot: Commitments \cup {None}]
    /\ cache \in (SUBSET Providers) \cup {None}
    /\ status \in Statuses
    /\ commands \in Seq(Commands) /\ Len(commands) <= QueueCapacity
    /\ attempt \in Attempts /\ DOMAIN attempt.replies \subseteq attempt.providers
    /\ tx \in Transactions \cup {None}
    /\ budget \in [commands: 0..MaxCommands, churn: 0..MaxChurn, faults: 0..MaxFaults]

MarkPending == status.dirty \/ \E i \in DOMAIN commands : commands[i] = "MarkDirty"

\* The snapshot on chain commits to position i of the bucket, or to a later one.
Checkpointed(i) ==
    /\ bucket.snapshot # None
    /\ NotBehind(bucket.snapshot, Commitment(History[i]))

Covered == {p \in Providers : Checkpointed(mark[p])}

\* A mark is not lost: when the loop holds none, the snapshot on chain covers
\* what min_providers of the providers, and at least one, had applied when the
\* caller last called mark_dirty, although a mark can come while an attempt is
\* collecting answers from before it, or while a transaction of an earlier one is
\* still in the pool (execute_checkpoint clears dirty only after attempts that
\* began after the mark was taken from the channel).
CleanIsCheckpointed ==
    mark # None /\ ~MarkPending => Covered # {} /\ Cardinality(Covered) >= MinProviders

\* A checkpoint takes the committed range backwards only when another one landed
\* after its floor was read: the floor check of collect_commitments covers every
\* other case, also after the primaries changed to providers that lag.
RegressOnlyPastStaleFloor ==
    [][(/\ bucket.snapshot # None
        /\ ~NotBehind(bucket'.snapshot, bucket.snapshot)) => tx.floor # bucket.snapshot]_vars

\* "A checkpoint must never move backwards" from the snapshot on chain
\* (the comment on snapshot_floor).
SnapshotNeverRegresses ==
    [][bucket.snapshot # None => NotBehind(bucket'.snapshot, bucket.snapshot)]_vars

\* What every provider had applied when the caller marked it is checkpointed,
\* unless the loop is paused, stopped, or waits for something that never comes:
\* an attempt that keeps failing is given up after max_consecutive_failures and
\* not retried for ever, and no failure that the code notices leaves the loop
\* neither waiting nor working.
MarkEventuallySettles ==
    \A i \in 1..Len(History) :
        (mark # None /\ \A p \in Providers : mark[p] >= i)
            ~> (Checkpointed(i) \/ status.paused \/ ~status.running \/ attempt.at = "hung")

=============================================================================
