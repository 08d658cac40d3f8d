---------------------------- MODULE TxSubmission ----------------------------
(***************************************************************************)
(* submit_and_finalize of the provider node's chain client                  *)
(* (provider-node, subxt_client.rs), shared by the challenge responder and  *)
(* the replica coordinator: one transaction at a time, one retry after a    *)
(* failure of transport, and a duplicate rejection of the retry taken for   *)
(* success.                                                                 *)
(*                                                                          *)
(* The pool is external.  A transaction's nonce is read from the finalized  *)
(* state, so while one of the provider's transactions is in the pool, every *)
(* other one has its nonce and the pool refuses it.                         *)
(***************************************************************************)
EXTENDS ProviderChain

CONSTANTS
    Tasks,          \* the background tasks that submit
    MaxFaults       \* bound on failures of transport and storage

ASSUME FaultsAssumption == MaxFaults \in Nat

VARIABLES
    submit_lock,    \* the task that holds it, or None
    tx,             \* [Tasks -> the submission under way]
    pool,           \* the provider's transaction in the pool, or None
    faults          \* failures so far

txVars == <<submit_lock, tx, pool, faults>>

NoTx == [pc |-> "idle", call |-> None, retrying |-> FALSE]

TxInit ==
    /\ submit_lock = None
    /\ tx = [t \in Tasks |-> NoTx]
    /\ pool = None
    /\ faults = 0

Fault == faults < MaxFaults /\ faults' = faults + 1

\* The submission that a task starts; its own action sets tx' to this.
Submission(call) == [NoTx EXCEPT !.pc = "lock", !.call = call]

AcquireLock(t) ==
    /\ tx[t].pc = "lock" /\ submit_lock = None
    /\ submit_lock' = t
    /\ tx' = [tx EXCEPT ![t].pc = "submit"]
    /\ UNCHANGED <<chainVars, pool, faults>>

RetryableKeepingLock(t) ==
    IF tx[t].retrying
    THEN /\ tx' = [tx EXCEPT ![t].pc = "err"] /\ UNCHANGED submit_lock
    ELSE /\ tx' = [tx EXCEPT ![t].pc = "delay"] /\ UNCHANGED submit_lock

\* The pass ended without a verdict: one retry, then the task gets an error.
Retryable(t) ==
    IF tx[t].retrying
    THEN /\ tx' = [tx EXCEPT ![t].pc = "err"] /\ submit_lock' = None
    ELSE /\ tx' = [tx EXCEPT ![t].pc = "delay"] /\ UNCHANGED submit_lock

Submit(t) ==
    /\ tx[t].pc = "submit" /\ pool = None
    /\ pool' = [task |-> t, call |-> tx[t].call]
    /\ tx' = [tx EXCEPT ![t].pc = "watch"]
    /\ UNCHANGED <<chainVars, submit_lock, faults>>

\* The pool refuses a second transaction with the same nonce.
SubmitRefused(t) ==
    /\ tx[t].pc = "submit" /\ pool # None
    /\ Retryable(t)
    /\ UNCHANGED <<chainVars, pool, faults>>

SubmitFails(t) ==
    /\ tx[t].pc = "submit"
    /\ Fault
    /\ Retryable(t)
    /\ UNCHANGED <<chainVars, pool>>

ALREADY_DONE_ERRORS == {"ChallengeNotFound", "SyncTooFrequent"}

AnyRejectionOnRetry(t, verdict) == tx[t].retrying

is_already_done(t, verdict) == tx[t].retrying /\ verdict \in ALREADY_DONE_ERRORS

\* The watch shows the verdict of the finalized block, and the pass is over.
Watched(t, verdict) ==
    /\ tx' = [tx EXCEPT ![t].pc =
           IF verdict = "ok" \/ is_already_done(t, verdict) THEN "ok" ELSE "err"]
    /\ submit_lock' = None

\* The transaction is in a finalized block.  The pass that submitted it sees
\* that, unless it is over or its watch is dead.
Land ==
    /\ pool # None
    /\ Dispatch(pool.call)
    /\ pool' = None
    /\ \/ tx[pool.task].pc = "watch" /\ Watched(pool.task, Verdict(pool.call))
       \/ UNCHANGED <<tx, submit_lock>>
    /\ UNCHANGED faults

\* The pool loses the transaction (its era ends, its node restarts).
Drop ==
    /\ pool # None
    /\ Fault
    /\ pool' = None
    /\ UNCHANGED <<chainVars, submit_lock, tx>>

UnboundedWatch(t) ==
    /\ tx[t].pc = "watch"
    /\ Fault
    /\ Retryable(t)
    /\ UNCHANGED <<chainVars, pool>>

\* SUBMIT_TIMEOUT, or the watch dies.  That the transaction may still land
\* counts as a fault; a pass whose transaction is gone ends in any case.
WatchEnds(t) ==
    /\ tx[t].pc = "watch"
    /\ IF pool = None THEN UNCHANGED faults ELSE Fault
    /\ Retryable(t)
    /\ UNCHANGED <<chainVars, pool>>

\* RETRY_DELAY is over.
Retry(t) ==
    /\ tx[t].pc = "delay"
    /\ tx' = [tx EXCEPT ![t].pc = "submit", ![t].retrying = TRUE]
    /\ UNCHANGED <<chainVars, submit_lock, pool, faults>>

Returned(t) == tx[t].pc \in {"ok", "err"}

TxNext ==
    \/ \E t \in Tasks :
          \/ AcquireLock(t) \/ Submit(t) \/ SubmitRefused(t) \/ SubmitFails(t)
          \/ WatchEnds(t) \/ Retry(t)
    \/ Land \/ Drop

=============================================================================
