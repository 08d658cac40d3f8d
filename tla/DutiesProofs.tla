---------------------------- MODULE DutiesProofs ----------------------------
(***************************************************************************)
(* Proofs about ProviderDuties, for every set of challenges, configuration, *)
(* channel capacity and number of faults: the types and the submission      *)
(* lock, that a Success report is about a challenge that is closed, and     *)
(* that a replica attests only roots its bucket had.                        *)
(***************************************************************************)
EXTENDS ProviderDuties, FiniteSetTheorems, SequenceTheorems, TLAPS

----------------------------------------------------------------------------
(* The inductive invariant                                                  *)

\* The chain has, or had, the challenge.
Known(c) == challenge[c].status # "unopened"

\* Only created challenges are heard of, listed by the responder or answered.
OnlyKnown ==
    /\ \A i \in DOMAIN feed.events :
           feed.events[i] \in Challenges => Known(feed.events[i])
    /\ \A i \in DOMAIN responder.todo : Known(responder.todo[i])
    /\ \A c \in Challenges :
           tx["responder"].pc # "idle" /\ tx["responder"].call = RespondCall(c) => Known(c)

\* The responder has a challenge at hand where it works on one, and neither task
\* has a submission under way but where it waits for it.
LoopsInStep ==
    /\ responder.pc \in {"fetch", "respond", "submit"} => responder.todo # <<>>
    /\ responder.pc # "submit" => tx["responder"].pc = "idle"
    /\ replica.pc # "confirm" => tx["replica"].pc = "idle"

\* What a call attests was held.
AttestsHeld(call) == call.name = "confirm_replica_sync" => call.arg \in held

\* Everything a task submits, the pool holds or the chain recorded was held.
CallsHeld ==
    /\ \A t \in Tasks : tx[t].pc # "idle" => tx[t].call \in Calls /\ AttestsHeld(tx[t].call)
    /\ pool # None => AttestsHeld(pool.call)
    /\ last_sync # None => last_sync.root \in held
    /\ replica.pc = "source" => replica.target \in 0..MaxRoot
    /\ tx["replica"].pc # "idle" => tx["replica"].call.name = "confirm_replica_sync"

\* A pass that still watches sees its own transaction in the pool, not one that
\* an earlier pass left there.
WatchesOwn ==
    \A t \in Tasks : tx[t].pc = "watch" /\ pool # None
                     => pool.task = t /\ pool.call = tx[t].call

DutyInv ==
    TypeOK /\ LoopsInStep /\ OnlyKnown /\ CallsHeld /\ WatchesOwn /\ SuccessClosesChallenge

----------------------------------------------------------------------------
(* Facts about the parts of the state                                       *)

\* What TypeOK says of each variable, for citation.
LEMMA TypeFacts ==
    ASSUME TypeOK
    PROVE  /\ anchor_block \in 0..MaxBlock /\ snapshot \in 0..MaxRoot
           /\ challenge \in [Challenges -> ChallengeRecords]
           /\ last_sync \in SyncRecords \cup {None}
           /\ tx \in [Tasks -> Submissions]
           /\ pool \in Pending \cup {None}
           /\ submit_lock \in Tasks \cup {None}
           /\ \A t \in Tasks : submit_lock = t <=> tx[t].pc \in {"submit", "watch", "delay"}
           /\ faults \in 0..MaxFaults
           /\ follower \in [up: BOOLEAN, connects: Nat]
           /\ feed \in [events: Seq(Events), lagged: BOOLEAN]
           /\ Len(feed.events) <= ChannelCapacity
           /\ responder \in ResponderStates
           /\ replica \in ReplicaStates
           /\ local_root \in held /\ held \subseteq 0..MaxRoot
           /\ MaxBlock \in Nat /\ MaxRoot \in Nat /\ MaxFaults \in Nat
           /\ ChallengeTimeout \in Nat /\ ChannelCapacity \in Nat \ {0}
           /\ "responder" \in Tasks /\ "replica" \in Tasks /\ None \notin Tasks
  BY ChainAssumption, FaultsAssumption, ChannelAssumption, DutiesAssumption DEF TypeOK

\* Faults stay within their bound.
LEMMA FaultType ==
    ASSUME TypeOK, Fault
    PROVE  faults' \in 0..MaxFaults
  BY TypeFacts DEF Fault

\* Calls are told apart by name and argument.
LEMMA CallFacts ==
    /\ \A c \in Challenges : /\ RespondCall(c) \in Calls /\ RespondCall(c).arg = c
                             /\ RespondCall(c).name = "respond_to_challenge"
    /\ \A r \in 0..MaxRoot : /\ ConfirmCall(r) \in Calls /\ ConfirmCall(r).arg = r
                             /\ ConfirmCall(r).name = "confirm_replica_sync"
    /\ \A call \in Calls :
           \/ /\ call.name = "respond_to_challenge" /\ call.arg \in Challenges
              /\ call = RespondCall(call.arg)
           \/ call.name = "confirm_replica_sync" /\ call.arg \in 0..MaxRoot
  <1>1. ASSUME NEW c \in Challenges
        PROVE  /\ RespondCall(c) \in Calls /\ RespondCall(c).arg = c
               /\ RespondCall(c).name = "respond_to_challenge"
    BY DEF Calls, RespondCall
  <1>2. ASSUME NEW r \in 0..MaxRoot
        PROVE  /\ ConfirmCall(r) \in Calls /\ ConfirmCall(r).arg = r
               /\ ConfirmCall(r).name = "confirm_replica_sync"
    BY DEF Calls, ConfirmCall
  <1>3. ASSUME NEW call \in Calls
        PROVE  \/ /\ call.name = "respond_to_challenge" /\ call.arg \in Challenges
                  /\ call = RespondCall(call.arg)
               \/ call.name = "confirm_replica_sync" /\ call.arg \in 0..MaxRoot
    <2>1. CASE \E c \in Challenges : call = RespondCall(c)
      <3>1. PICK c \in Challenges : call = RespondCall(c)
        BY <2>1
      <3> QED
        BY <1>1, <3>1
    <2>2. CASE \E r \in 0..MaxRoot : call = ConfirmCall(r)
      <3>1. PICK r \in 0..MaxRoot : call = ConfirmCall(r)
        BY <2>2
      <3> QED
        BY <1>2, <3>1
    <2> QED
      BY <2>1, <2>2 DEF Calls
  <1> QED
    BY <1>1, <1>2, <1>3

----------------------------------------------------------------------------
(* The challenges                                                           *)

\* A challenge is created once, and closed once.
ChallengeMoves ==
    \A c \in Challenges :
        LET before == challenge[c].status
            after == challenge'[c].status
        IN  \/ after = before
            \/ before = "unopened" /\ after = "open"
            \/ before = "open" /\ after \in {"defended", "slashed"}

\* A new challenge is open.
LEMMA CreateFacts ==
    ASSUME TypeOK, NEW c \in Challenges, create_challenge(c)
    PROVE  /\ challenge' \in [Challenges -> ChallengeRecords] /\ ChallengeMoves
           /\ challenge'[c].status = "open"
           /\ UNCHANGED <<scenario, anchor_block, snapshot, last_sync>>
  <1> DEFINE r == [status |-> "open", deadline |-> anchor_block + ChallengeTimeout]
  <1>1. anchor_block + ChallengeTimeout \in Nat
    BY TypeFacts
  <1>2. r \in ChallengeRecords /\ r.status = "open"
    BY <1>1 DEF ChallengeRecords
  <1>3. challenge' = [challenge EXCEPT ![c] = r] /\ challenge[c].status = "unopened"
    BY DEF create_challenge
  <1> HIDE DEF r
  <1>4. /\ challenge' \in [Challenges -> ChallengeRecords] /\ challenge'[c] = r
        /\ \A d \in Challenges \ {c} : challenge'[d] = challenge[d]
    BY <1>2, <1>3, TypeFacts
  <1> QED
    BY <1>2, <1>3, <1>4 DEF ChallengeMoves, create_challenge

\* A challenge is closed once.
LEMMA StatusUpdate ==
    ASSUME TypeOK, NEW c \in Challenges, NEW s \in {"defended", "slashed"},
           challenge' = [challenge EXCEPT ![c].status = s]
    PROVE  /\ challenge' \in [Challenges -> ChallengeRecords]
           /\ challenge'[c].status = s
           /\ \A d \in Challenges \ {c} : challenge'[d] = challenge[d]
  <1> DEFINE r == [challenge[c] EXCEPT !.status = s]
  <1>1. r \in ChallengeRecords /\ r.status = s
    BY TypeFacts DEF ChallengeRecords
  <1>2. challenge' = [challenge EXCEPT ![c] = r]
    OBVIOUS
  <1> HIDE DEF r
  <1> QED
    BY <1>1, <1>2, TypeFacts

\* Resolving a challenge slashes it.
LEMMA ResolveFacts ==
    ASSUME TypeOK, NEW c \in Challenges, resolve_expired_challenge(c)
    PROVE  /\ challenge' \in [Challenges -> ChallengeRecords] /\ ChallengeMoves
  BY StatusUpdate DEF resolve_expired_challenge, ChallengeMoves

\* What a call of the provider does on chain: a response that is accepted, or
\* comes too late to find its challenge, leaves that challenge closed.
LEMMA DispatchFacts ==
    ASSUME TypeOK, NEW call \in Calls, Dispatch(call)
    PROVE  /\ challenge' \in [Challenges -> ChallengeRecords] /\ ChallengeMoves
           /\ last_sync' \in SyncRecords \cup {None}
           /\ \/ last_sync' = last_sync
              \/ call.name = "confirm_replica_sync" /\ last_sync'.root = call.arg
           /\ UNCHANGED <<scenario, anchor_block, snapshot>>
           /\ \A c \in Challenges :
                  call = RespondCall(c)
                  /\ Verdict(call) \in {"ok", "ChallengeNotFound", "SyncTooFrequent"}
                  => challenge'[c].status # "open"
  <1>0. UNCHANGED <<scenario, anchor_block, snapshot>>
    BY DEF Dispatch
  <1>1. CASE call.name = "respond_to_challenge"
    <2>1. call.arg \in Challenges /\ call = RespondCall(call.arg)
      BY <1>1, CallFacts
    <2>2. last_sync' = last_sync
      BY <1>1 DEF Dispatch
    <2>3. CASE Verdict(call) = "ok"
      <3>1. challenge' = [challenge EXCEPT ![call.arg].status = "defended"]
        BY <1>1, <2>3 DEF Dispatch
      <3>2. challenge[call.arg].status = "open"
        BY <1>1, <2>3 DEF Verdict
      <3>3. /\ challenge' \in [Challenges -> ChallengeRecords]
            /\ challenge'[call.arg].status = "defended"
            /\ \A d \in Challenges \ {call.arg} : challenge'[d] = challenge[d]
        BY <2>1, <3>1, StatusUpdate
      <3>4. ChallengeMoves
        BY <3>2, <3>3 DEF ChallengeMoves
      <3>5. \A c \in Challenges : call = RespondCall(c) => c = call.arg
        BY CallFacts
      <3> QED
        BY <1>0, <2>2, <3>3, <3>4, <3>5, TypeFacts
    <2>4. CASE Verdict(call) # "ok"
      <3>1. challenge' = challenge
        BY <1>1, <2>4 DEF Dispatch
      <3>2. Verdict(call) \in {"ChallengeNotFound", "SyncTooFrequent"}
            => challenge[call.arg].status # "open"
        BY <1>1, <2>4 DEF Verdict
      <3>3. \A c \in Challenges : call = RespondCall(c) => c = call.arg
        BY CallFacts
      <3> QED
        BY <1>0, <2>2, <2>4, <3>1, <3>2, <3>3, TypeFacts DEF ChallengeMoves
    <2> QED
      BY <2>3, <2>4
  <1>2. CASE call.name # "respond_to_challenge"
    <2>1. call.name = "confirm_replica_sync" /\ call.arg \in 0..MaxRoot
      BY <1>2, CallFacts
    <2>2. challenge' = challenge
      BY <1>2 DEF Dispatch
    <2>3. \/ last_sync' = last_sync
          \/ last_sync' = [root |-> call.arg, block |-> anchor_block]
      BY DEF Dispatch
    <2>4. \A c \in Challenges : call # RespondCall(c)
      BY <1>2, CallFacts
    <2>5. [root |-> call.arg, block |-> anchor_block] \in SyncRecords
      BY <2>1, TypeFacts DEF SyncRecords
    <2> QED
      BY <1>0, <2>1, <2>2, <2>3, <2>4, <2>5, TypeFacts DEF ChallengeMoves
  <1> QED
    BY <1>1, <1>2

----------------------------------------------------------------------------
(* Submissions                                                              *)

TxPcs == {"idle", "lock", "submit", "watch", "delay", "ok", "err"}
Holding == {"submit", "watch", "delay"}

\* Task t's submission goes on to p with the same call; the others stay.
TxMoves(t, p) ==
    /\ tx' \in [Tasks -> Submissions]
    /\ tx'[t].pc = p /\ tx'[t].call = tx[t].call
    /\ \A u \in Tasks \ {t} : tx'[u] = tx[u]

\* A task's own step sets its submission.
LEMMA TxUpdate ==
    ASSUME TypeOK, NEW t \in Tasks, NEW r \in Submissions, tx' = [tx EXCEPT ![t] = r]
    PROVE  /\ tx' \in [Tasks -> Submissions] /\ tx'[t] = r
           /\ \A u \in Tasks \ {t} : tx'[u] = tx[u]
  BY TypeFacts

\* A submission's next stage.
LEMMA PcUpdate ==
    ASSUME TypeOK, NEW t \in Tasks, NEW p \in TxPcs, tx' = [tx EXCEPT ![t].pc = p]
    PROVE  TxMoves(t, p)
  <1> DEFINE r == [tx[t] EXCEPT !.pc = p]
  <1>1. r \in Submissions /\ r.pc = p /\ r.call = tx[t].call
    <2>1. \A x \in Submissions : /\ [x EXCEPT !.pc = p] \in Submissions
                                 /\ [x EXCEPT !.pc = p].pc = p
                                 /\ [x EXCEPT !.pc = p].call = x.call
      BY DEF Submissions, TxPcs
    <2>2. tx[t] \in Submissions
      BY TypeFacts
    <2> QED
      BY <2>1, <2>2
  <1>2. tx' = [tx EXCEPT ![t] = r]
    OBVIOUS
  <1> HIDE DEF r
  <1>3. /\ tx' \in [Tasks -> Submissions] /\ tx'[t] = r
        /\ \A u \in Tasks \ {t} : tx'[u] = tx[u]
    BY <1>1, <1>2, TxUpdate
  <1> QED
    BY <1>1, <1>3 DEF TxMoves

\* No submission, and a new one that waits for the lock.
LEMMA SubmissionFacts ==
    /\ NoTx \in Submissions /\ NoTx.pc = "idle"
    /\ \A call \in Calls : /\ Submission(call) \in Submissions
                           /\ Submission(call).pc = "lock" /\ Submission(call).call = call
  <1>1. FALSE \in BOOLEAN
    OBVIOUS
  <1>2. NoTx \in Submissions /\ NoTx.pc = "idle"
    <2>1. None \in Calls \cup {None}
      OBVIOUS
    <2>2. [pc |-> "idle", call |-> None, retrying |-> FALSE] \in Submissions
      BY <1>1, <2>1 DEF Submissions
    <2> QED
      BY <2>2 DEF NoTx
  <1>3. ASSUME NEW call \in Calls
        PROVE  /\ Submission(call) \in Submissions
               /\ Submission(call).pc = "lock" /\ Submission(call).call = call
    BY <1>2 DEF Submission, Submissions
  <1> QED
    BY <1>2, <1>3

LockExact == \A t \in Tasks : submit_lock = t <=> tx[t].pc \in Holding

\* A submission that keeps the lock, takes it or gives it back.
LEMMA LockStep ==
    ASSUME TypeOK, NEW t \in Tasks, NEW p \in TxPcs, TxMoves(t, p),
           \/ tx[t].pc \in Holding /\ p \in Holding /\ submit_lock' = submit_lock
           \/ tx[t].pc \in Holding /\ p \notin Holding /\ submit_lock' = None
           \/ submit_lock = None /\ p \in Holding /\ submit_lock' = t
    PROVE  LockExact' /\ submit_lock' \in Tasks \cup {None}
  <1>1. LockExact /\ None \notin Tasks /\ submit_lock \in Tasks \cup {None}
    BY TypeFacts DEF LockExact, Holding
  <1>2. ASSUME NEW u \in Tasks \ {t}
        PROVE  submit_lock' = u <=> tx'[u].pc \in Holding
    <2>1. tx'[u] = tx[u]
      BY DEF TxMoves
    <2>2. submit_lock = u <=> tx[u].pc \in Holding
      BY <1>1 DEF LockExact
    <2>3. submit_lock = t <=> tx[t].pc \in Holding
      BY <1>1 DEF LockExact
    <2>4. u # t /\ u # None
      BY <1>1
    <2>5. (submit_lock' = u) <=> (submit_lock = u)
      BY <1>1, <2>3, <2>4
    <2> QED
      BY <2>1, <2>2, <2>5
  <1>3. submit_lock' = t <=> tx'[t].pc \in Holding
    BY <1>1 DEF LockExact, TxMoves
  <1> QED
    BY <1>1, <1>2, <1>3 DEF LockExact

\* While one task holds the lock no other is submitting or watching.
LEMMA LockExclusive ==
    ASSUME TypeOK, NEW t \in Tasks, NEW u \in Tasks, t # u, tx[t].pc \in Holding
    PROVE  tx[u].pc \notin Holding
  BY TypeFacts DEF Holding

\* The pass ends: an error without the lock, or the delay before the retry.
LEMMA RetryableFacts ==
    ASSUME TypeOK, NEW t \in Tasks, tx[t].pc \in Holding, Retryable(t)
    PROVE  /\ \E p \in {"err", "delay"} : TxMoves(t, p)
           /\ LockExact' /\ submit_lock' \in Tasks \cup {None}
  <1>1. CASE tx[t].retrying
    <2>1. tx' = [tx EXCEPT ![t].pc = "err"] /\ submit_lock' = None
      BY <1>1 DEF Retryable
    <2>2. TxMoves(t, "err")
      BY <2>1, PcUpdate DEF TxPcs
    <2> QED
      BY <2>1, <2>2, LockStep DEF Holding, TxPcs
  <1>2. CASE ~tx[t].retrying
    <2>1. tx' = [tx EXCEPT ![t].pc = "delay"] /\ submit_lock' = submit_lock
      BY <1>2 DEF Retryable
    <2>2. TxMoves(t, "delay")
      BY <2>1, PcUpdate DEF TxPcs
    <2> QED
      BY <2>1, <2>2, LockStep DEF Holding, TxPcs
  <1> QED
    BY <1>1, <1>2

----------------------------------------------------------------------------
(* Steps of a submission                                                    *)

\* A known challenge stays known, a closed one closed.
LEMMA KnownStays ==
    ASSUME TypeOK, ChallengeMoves, NEW c \in Challenges
    PROVE  /\ Known(c) => Known(c)'
           /\ Known(c) /\ challenge[c].status # "open" => challenge'[c].status # "open"
  BY DEF ChallengeMoves, Known

\* The responder's lists hold challenges.
LEMMA TodoElement ==
    ASSUME TypeOK, NEW i \in DOMAIN responder.todo
    PROVE  responder.todo[i] \in Challenges
  <1>1. responder.todo \in Seq(Challenges)
    BY TypeFacts DEF ResponderStates
  <1> QED
    BY <1>1

\* A submission under way moves on with its call: only Success needs a reason.
LEMMA SubmissionMoves ==
    ASSUME DutyInv, NEW t \in Tasks, NEW p \in TxPcs, TxMoves(t, p),
           tx[t].pc # "idle", ChallengeMoves,
           UNCHANGED <<feed, responder, replica, held>>,
           last_sync' = last_sync \/ last_sync'.root \in held,
           pool' = pool \/ pool' = None \/ AttestsHeld(pool'.call),
           p = "ok" => \A c \in Challenges : tx[t].call = RespondCall(c)
                                             => challenge'[c].status # "open"
    PROVE  LoopsInStep' /\ OnlyKnown' /\ CallsHeld' /\ SuccessClosesChallenge'
  <1>1. TypeOK /\ OnlyKnown /\ CallsHeld /\ SuccessClosesChallenge
    BY DEF DutyInv
  <1>3. "responder" \in Tasks /\ "replica" \in Tasks
    BY <1>1, TypeFacts
  <1>4. \A u \in Tasks : /\ tx'[u].call = tx[u].call
                         /\ tx'[u].pc # "idle" => tx[u].pc # "idle"
    BY DEF TxMoves
  <1>2. LoopsInStep'
    BY <1>3, <1>4 DEF DutyInv, LoopsInStep
  <1>5. OnlyKnown'
    <2>1. \A i \in DOMAIN feed'.events : feed'.events[i] \in Challenges => Known(feed.events[i])'
      BY <1>1, KnownStays DEF OnlyKnown, Known
    <2>2. \A i \in DOMAIN responder'.todo : Known(responder.todo[i])'
      BY <1>1, KnownStays, TodoElement DEF OnlyKnown, Known
    <2>3. \A c \in Challenges :
              tx'["responder"].pc # "idle" /\ tx'["responder"].call = RespondCall(c) => Known(c)'
      BY <1>1, <1>3, <1>4, KnownStays DEF OnlyKnown
    <2> QED
      BY <2>1, <2>2, <2>3 DEF OnlyKnown
  <1>6. CallsHeld'
    <2>1. \A u \in Tasks : tx'[u].pc # "idle"
              => tx'[u].call \in Calls /\ AttestsHeld(tx[u].call)'
      BY <1>1, <1>4 DEF CallsHeld, AttestsHeld
    <2>2. pool' # None => AttestsHeld(pool.call)'
      BY <1>1 DEF CallsHeld, AttestsHeld
    <2>3. last_sync' # None => last_sync'.root \in held'
      BY <1>1 DEF CallsHeld
    <2>4. replica'.pc = "source" => replica'.target \in 0..MaxRoot
      BY <1>1 DEF CallsHeld
    <2>5. tx'["replica"].pc # "idle" => tx'["replica"].call.name = "confirm_replica_sync"
      BY <1>1, <1>3, <1>4 DEF CallsHeld
    <2> QED
      BY <2>1, <2>2, <2>3, <2>4, <2>5 DEF CallsHeld
  <1>7. SuccessClosesChallenge'
    <2> SUFFICES ASSUME NEW c \in Challenges,
                        tx'["responder"].pc = "ok", tx'["responder"].call = RespondCall(c)
                 PROVE  challenge'[c].status # "open"
      BY DEF SuccessClosesChallenge, Success, RespondCall
    <2>1. tx["responder"].call = RespondCall(c)
      BY <1>3, <1>4
    <2>2. CASE t = "responder"
      BY <2>1, <2>2 DEF TxMoves
    <2>3. CASE t # "responder"
      <3>1. tx["responder"].pc = "ok"
        BY <1>3, <2>3 DEF TxMoves
      <3>2. challenge[c].status # "open"
        BY <1>1, <2>1, <3>1 DEF SuccessClosesChallenge, Success
      <3>3. Known(c)
        BY <1>1, <2>1, <3>1 DEF OnlyKnown
      <3> QED
        BY <1>1, <3>2, <3>3, KnownStays
    <2> QED
      BY <2>2, <2>3
  <1> QED
    BY <1>2, <1>5, <1>6, <1>7

\* A task that gets the lock keeps the invariant,
LEMMA AcquireLockStep ==
    ASSUME DutyInv, NEW t \in Tasks, AcquireLock(t), UNCHANGED <<respVars, replicaVars>>
    PROVE  DutyInv'
  <1>1. TypeOK /\ WatchesOwn
    BY DEF DutyInv
  <1>2. /\ tx[t].pc = "lock" /\ submit_lock = None /\ submit_lock' = t
        /\ UNCHANGED <<chainVars, pool, faults>>
    BY DEF AcquireLock
  <1>3. TxMoves(t, "submit")
    BY <1>1, PcUpdate DEF AcquireLock, TxPcs
  <1>4. LockExact' /\ submit_lock' \in Tasks \cup {None}
    BY <1>1, <1>2, <1>3, LockStep DEF TxPcs, Holding
  <1>5. TypeOK'
    BY <1>1, <1>2, <1>3, <1>4, TypeFacts
       DEF TypeOK, TxMoves, LockExact, Holding, chainVars, respVars, replicaVars
  <1>6. ChallengeMoves
    BY <1>2 DEF ChallengeMoves, chainVars
  <1>7. LoopsInStep' /\ OnlyKnown' /\ CallsHeld' /\ SuccessClosesChallenge'
    BY <1>2, <1>3, <1>6, SubmissionMoves DEF TxPcs, chainVars, respVars, replicaVars
  <1>8. WatchesOwn'
    BY <1>1, <1>2, <1>3 DEF WatchesOwn, TxMoves
  <1> QED
    BY <1>5, <1>7, <1>8 DEF DutyInv

\* The pool is empty, so what the pass watches from now on is its own.
LEMMA SubmitStep ==
    ASSUME DutyInv, NEW t \in Tasks, Submit(t), UNCHANGED <<respVars, replicaVars>>
    PROVE  DutyInv'
  <1>1. TypeOK /\ WatchesOwn /\ CallsHeld
    BY DEF DutyInv
  <1>2. /\ tx[t].pc = "submit" /\ pool = None
        /\ pool' = [task |-> t, call |-> tx[t].call]
        /\ UNCHANGED <<chainVars, submit_lock, faults>>
    BY DEF Submit
  <1>3. TxMoves(t, "watch")
    BY <1>1, PcUpdate DEF Submit, TxPcs
  <1>4. LockExact' /\ submit_lock' \in Tasks \cup {None}
    BY <1>1, <1>2, <1>3, LockStep DEF TxPcs, Holding
  <1>5. tx[t].call \in Calls /\ AttestsHeld(tx[t].call)
    BY <1>1, <1>2 DEF CallsHeld
  <1>6. pool' \in Pending /\ pool'.task = t /\ pool'.call = tx[t].call
    BY <1>2, <1>5 DEF Pending
  <1>7. TypeOK'
    BY <1>1, <1>2, <1>3, <1>4, <1>6, TypeFacts
       DEF TypeOK, TxMoves, LockExact, Holding, chainVars, respVars, replicaVars
  <1>8. ChallengeMoves
    BY <1>2 DEF ChallengeMoves, chainVars
  <1>9. LoopsInStep' /\ OnlyKnown' /\ CallsHeld' /\ SuccessClosesChallenge'
    BY <1>2, <1>3, <1>5, <1>6, <1>8, SubmissionMoves
       DEF TxPcs, chainVars, respVars, replicaVars
  <1>10. WatchesOwn'
    <2> SUFFICES ASSUME NEW u \in Tasks, tx'[u].pc = "watch"
                 PROVE  pool'.task = u /\ pool'.call = tx'[u].call
      BY DEF WatchesOwn
    <2>1. CASE u = t
      BY <1>3, <1>6, <2>1 DEF TxMoves
    <2>2. CASE u # t
      <3>1. tx[u].pc = "watch"
        BY <1>3, <2>2 DEF TxMoves
      <3> QED
        BY <1>1, <1>2, <2>2, <3>1, LockExclusive DEF Holding
    <2> QED
      BY <2>1, <2>2
  <1> QED
    BY <1>7, <1>9, <1>10 DEF DutyInv

\* A pass that ends without a verdict leaves the pool as it is.
LEMMA PassEndsStep ==
    ASSUME DutyInv, NEW t \in Tasks, SubmitRefused(t) \/ SubmitFails(t) \/ WatchEnds(t),
           UNCHANGED <<respVars, replicaVars>>
    PROVE  DutyInv'
  <1>1. TypeOK /\ WatchesOwn
    BY DEF DutyInv
  <1>2. /\ tx[t].pc \in {"submit", "watch"} /\ Retryable(t)
        /\ UNCHANGED <<chainVars, pool>>
    BY DEF SubmitRefused, SubmitFails, WatchEnds
  <1>3. faults' \in 0..MaxFaults
    BY <1>1, FaultType, TypeFacts DEF SubmitRefused, SubmitFails, WatchEnds
  <1>4. LockExact' /\ submit_lock' \in Tasks \cup {None}
    BY <1>1, <1>2, RetryableFacts DEF Holding
  <1>5. PICK p \in {"err", "delay"} : TxMoves(t, p)
    BY <1>1, <1>2, RetryableFacts DEF Holding
  <1>6. TypeOK'
    BY <1>1, <1>2, <1>3, <1>4, <1>5, TypeFacts
       DEF TypeOK, TxMoves, LockExact, Holding, chainVars, respVars, replicaVars
  <1>7. ChallengeMoves
    BY <1>2 DEF ChallengeMoves, chainVars
  <1>8. LoopsInStep' /\ OnlyKnown' /\ CallsHeld' /\ SuccessClosesChallenge'
    BY <1>2, <1>5, <1>7, SubmissionMoves DEF TxPcs, chainVars, respVars, replicaVars
  <1>9. WatchesOwn'
    BY <1>1, <1>2, <1>5 DEF WatchesOwn, TxMoves
  <1> QED
    BY <1>6, <1>8, <1>9 DEF DutyInv

\* and so does a retry.
LEMMA RetryStep ==
    ASSUME DutyInv, NEW t \in Tasks, Retry(t), UNCHANGED <<respVars, replicaVars>>
    PROVE  DutyInv'
  <1>1. TypeOK /\ WatchesOwn
    BY DEF DutyInv
  <1>2. /\ tx[t].pc = "delay" /\ UNCHANGED <<chainVars, submit_lock, pool, faults>>
    BY DEF Retry
  <1>3. TxMoves(t, "submit")
    <2> DEFINE r == [tx[t] EXCEPT !.pc = "submit", !.retrying = TRUE]
    <2>0. tx[t] \in Submissions /\ TRUE \in BOOLEAN
      BY <1>1, TypeFacts
    <2>1. r \in Submissions /\ r.pc = "submit" /\ r.call = tx[t].call
      BY <2>0 DEF Submissions
    <2>2. tx' = [tx EXCEPT ![t] = r]
      BY <1>1, TypeFacts DEF Retry, Submissions
    <2> HIDE DEF r
    <2>3. /\ tx' \in [Tasks -> Submissions] /\ tx'[t] = r
          /\ \A u \in Tasks \ {t} : tx'[u] = tx[u]
      BY <1>1, <2>1, <2>2, TxUpdate
    <2> QED
      BY <2>1, <2>3 DEF TxMoves
  <1>4. LockExact' /\ submit_lock' \in Tasks \cup {None}
    BY <1>1, <1>2, <1>3, LockStep DEF TxPcs, Holding
  <1>5. TypeOK'
    BY <1>1, <1>2, <1>3, <1>4, TypeFacts
       DEF TypeOK, TxMoves, LockExact, Holding, chainVars, respVars, replicaVars
  <1>6. ChallengeMoves
    BY <1>2 DEF ChallengeMoves, chainVars
  <1>7. LoopsInStep' /\ OnlyKnown' /\ CallsHeld' /\ SuccessClosesChallenge'
    BY <1>2, <1>3, <1>6, SubmissionMoves DEF TxPcs, chainVars, respVars, replicaVars
  <1>8. WatchesOwn'
    BY <1>1, <1>2, <1>3 DEF WatchesOwn, TxMoves
  <1> QED
    BY <1>5, <1>7, <1>8 DEF DutyInv

\* The chain, the pool and the responder's lists move on; no submission does.
LEMMA NoSubmissionMoves ==
    ASSUME DutyInv, ChallengeMoves, UNCHANGED tx,
           \A i \in DOMAIN feed'.events :
               feed'.events[i] \in Challenges => Known(feed.events[i])',
           \A i \in DOMAIN responder'.todo : Known(responder.todo[i])',
           replica'.pc = "source" => replica'.target \in 0..MaxRoot,
           held \subseteq held',
           last_sync' = last_sync \/ last_sync'.root \in held,
           pool' = pool \/ pool' = None
    PROVE  OnlyKnown' /\ CallsHeld' /\ WatchesOwn' /\ SuccessClosesChallenge'
  <1>1. TypeOK /\ OnlyKnown /\ CallsHeld /\ SuccessClosesChallenge /\ WatchesOwn
    BY DEF DutyInv
  <1>2. OnlyKnown'
    <2>1. \A c \in Challenges :
              tx'["responder"].pc # "idle" /\ tx'["responder"].call = RespondCall(c) => Known(c)'
      BY <1>1, KnownStays DEF OnlyKnown
    <2> QED
      BY <2>1 DEF OnlyKnown
  <1>3. CallsHeld'
    <2>1. \A u \in Tasks : tx'[u].pc # "idle"
              => tx'[u].call \in Calls /\ AttestsHeld(tx[u].call)'
      BY <1>1 DEF CallsHeld, AttestsHeld
    <2>2. pool' # None => AttestsHeld(pool.call)'
      BY <1>1 DEF CallsHeld, AttestsHeld
    <2>3. last_sync' # None => last_sync'.root \in held'
      BY <1>1 DEF CallsHeld
    <2>4. tx'["replica"].pc # "idle" => tx'["replica"].call.name = "confirm_replica_sync"
      BY <1>1 DEF CallsHeld
    <2> QED
      BY <2>1, <2>2, <2>3, <2>4 DEF CallsHeld
  <1>4. WatchesOwn'
    BY <1>1 DEF WatchesOwn
  <1>5. SuccessClosesChallenge'
    <2> SUFFICES ASSUME NEW c \in Challenges,
                        tx["responder"].pc = "ok", tx["responder"].call = RespondCall(c)
                 PROVE  challenge'[c].status # "open"
      BY DEF SuccessClosesChallenge, Success, RespondCall
    <2>1. challenge[c].status # "open" /\ Known(c)
      BY <1>1 DEF SuccessClosesChallenge, Success, OnlyKnown
    <2> QED
      BY <1>1, <2>1, KnownStays
  <1> QED
    BY <1>2, <1>3, <1>4, <1>5

\* What was known stays known when neither list changes.
LEMMA ListsKept ==
    ASSUME TypeOK, OnlyKnown, ChallengeMoves, UNCHANGED <<feed, responder>>
    PROVE  /\ \A i \in DOMAIN feed'.events :
                  feed'.events[i] \in Challenges => Known(feed.events[i])'
           /\ \A i \in DOMAIN responder'.todo : Known(responder.todo[i])'
  <1>1. \A i \in DOMAIN feed'.events : feed'.events[i] \in Challenges => Known(feed.events[i])'
    BY KnownStays DEF OnlyKnown, Known
  <1>2. \A i \in DOMAIN responder'.todo : Known(responder.todo[i])'
    BY KnownStays, TodoElement DEF OnlyKnown, Known
  <1> QED
    BY <1>1, <1>2

\* The transaction lands.  Only the pass that submitted it takes its verdict for
\* its own, and a verdict it reports as success closes the challenge.
LEMMA LandStep ==
    ASSUME DutyInv, Land, UNCHANGED <<respVars, replicaVars>>
    PROVE  DutyInv'
  <1>1. TypeOK /\ WatchesOwn /\ CallsHeld /\ OnlyKnown /\ LoopsInStep
    BY DEF DutyInv
  <1>2. pool # None /\ pool' = None /\ Dispatch(pool.call) /\ faults' = faults
    BY DEF Land
  <1>3. pool \in Pending
    BY <1>1, <1>2, TypeFacts
  <1>4. pool.call \in Calls /\ pool.task \in Tasks
    BY <1>3 DEF Pending
  <1>5. /\ challenge' \in [Challenges -> ChallengeRecords] /\ ChallengeMoves
        /\ last_sync' \in SyncRecords \cup {None}
        /\ \/ last_sync' = last_sync
           \/ pool.call.name = "confirm_replica_sync" /\ last_sync'.root = pool.call.arg
        /\ UNCHANGED <<scenario, anchor_block, snapshot>>
    BY <1>1, <1>2, <1>4, DispatchFacts
  <1>6. last_sync' = last_sync \/ last_sync'.root \in held
    BY <1>1, <1>2, <1>5 DEF CallsHeld, AttestsHeld
  <1>7. CASE UNCHANGED <<tx, submit_lock>>
    <2>1. TypeOK'
      BY <1>1, <1>2, <1>5, <1>7, TypeFacts DEF TypeOK, respVars, replicaVars
    <2>2. LoopsInStep'
      BY <1>1, <1>7 DEF LoopsInStep, respVars, replicaVars
    <2>3. OnlyKnown' /\ CallsHeld' /\ WatchesOwn' /\ SuccessClosesChallenge'
      <3>1. UNCHANGED <<feed, responder, replica, held>>
        BY DEF respVars, replicaVars
      <3>2. /\ \A i \in DOMAIN feed'.events :
                  feed'.events[i] \in Challenges => Known(feed.events[i])'
            /\ \A i \in DOMAIN responder'.todo : Known(responder.todo[i])'
        BY <1>1, <1>5, <3>1, ListsKept
      <3>3. replica'.pc = "source" => replica'.target \in 0..MaxRoot
        BY <1>1, <3>1 DEF CallsHeld
      <3> QED
        BY <1>2, <1>5, <1>6, <1>7, <3>1, <3>2, <3>3, NoSubmissionMoves
    <2> QED
      BY <2>1, <2>2, <2>3 DEF DutyInv
  <1>8. CASE tx[pool.task].pc = "watch" /\ Watched(pool.task, Verdict(pool.call))
    <2> DEFINE t == pool.task
               verdict == Verdict(pool.call)
               p == IF verdict = "ok" \/ is_already_done(t, verdict) THEN "ok" ELSE "err"
    <2>1. p \in {"ok", "err"} /\ p \in TxPcs
      BY DEF TxPcs
    <2>2. tx' = [tx EXCEPT ![t].pc = p] /\ submit_lock' = None
      BY <1>8 DEF Watched
    <2>3. p = "ok" => verdict \in {"ok", "ChallengeNotFound", "SyncTooFrequent"}
      BY DEF is_already_done, ALREADY_DONE_ERRORS
    <2>4. tx[t].call = pool.call
      BY <1>1, <1>2, <1>4, <1>8 DEF WatchesOwn
    <2>5. p = "ok" => \A c \in Challenges : tx[t].call = RespondCall(c)
                                            => challenge'[c].status # "open"
      BY <1>1, <1>2, <1>4, <2>3, <2>4, DispatchFacts
    <2>6. t \in Tasks /\ tx[t].pc = "watch"
      BY <1>4, <1>8
    <2> HIDE DEF t, verdict, p
    <2>7. TxMoves(t, p)
      BY <1>1, <2>1, <2>2, <2>6, PcUpdate
    <2>8. LockExact' /\ submit_lock' \in Tasks \cup {None}
      BY <1>1, <2>1, <2>2, <2>6, <2>7, LockStep DEF Holding
    <2>9. TypeOK'
      BY <1>1, <1>2, <1>5, <2>7, <2>8, TypeFacts
         DEF TypeOK, TxMoves, LockExact, Holding, respVars, replicaVars
    <2>10. LoopsInStep' /\ OnlyKnown' /\ CallsHeld' /\ SuccessClosesChallenge'
      <3>1. UNCHANGED <<feed, responder, replica, held>>
        BY DEF respVars, replicaVars
      <3> QED
        BY <1>2, <1>5, <1>6, <2>1, <2>5, <2>6, <2>7, <3>1, SubmissionMoves
    <2>11. WatchesOwn'
      BY <1>2 DEF WatchesOwn
    <2> QED
      BY <2>9, <2>10, <2>11 DEF DutyInv
  <1> QED
    BY <1>7, <1>8 DEF Land

\* A dropped transaction keeps the invariant.
LEMMA DropStep ==
    ASSUME DutyInv, Drop, UNCHANGED <<respVars, replicaVars>>
    PROVE  DutyInv'
  <1>1. TypeOK /\ CallsHeld /\ OnlyKnown /\ LoopsInStep
    BY DEF DutyInv
  <1>2. pool' = None /\ Fault /\ UNCHANGED <<chainVars, submit_lock, tx>>
    BY DEF Drop
  <1>3. TypeOK'
    BY <1>1, <1>2, FaultType, TypeFacts DEF TypeOK, chainVars, respVars, replicaVars
  <1>4. LoopsInStep'
    BY <1>1, <1>2 DEF LoopsInStep, respVars, replicaVars
  <1>5. ChallengeMoves
    BY <1>2 DEF ChallengeMoves, chainVars
  <1>6. UNCHANGED <<feed, responder, replica, held, last_sync>>
    BY <1>2 DEF respVars, replicaVars, chainVars
  <1>7. /\ \A i \in DOMAIN feed'.events :
              feed'.events[i] \in Challenges => Known(feed.events[i])'
        /\ \A i \in DOMAIN responder'.todo : Known(responder.todo[i])'
    BY <1>1, <1>5, <1>6, ListsKept
  <1>8. replica'.pc = "source" => replica'.target \in 0..MaxRoot
    BY <1>1, <1>6 DEF CallsHeld
  <1>9. OnlyKnown' /\ CallsHeld' /\ WatchesOwn' /\ SuccessClosesChallenge'
    BY <1>2, <1>5, <1>6, <1>7, <1>8, NoSubmissionMoves
  <1> QED
    BY <1>3, <1>4, <1>9 DEF DutyInv

----------------------------------------------------------------------------
(* The responder's lists                                                    *)

\* The responder's loop state is well typed.
LEMMA LoopFacts ==
    ASSUME TypeOK, NEW todo \in Seq(Challenges),
           NEW pc \in {"select", "fetch", "scan", "respond", "submit"}
    PROVE  /\ Loop(pc, todo) \in ResponderStates
           /\ Loop(pc, todo).pc = pc /\ Loop(pc, todo).todo = todo
  <1>1. responder \in ResponderStates
    BY TypeFacts
  <1> QED
    BY <1>1 DEF Loop, ResponderStates

\* The next challenge of the list, or back to the select.
LEMMA ContinueFacts ==
    ASSUME TypeOK, NEW todo \in Seq(Challenges)
    PROVE  /\ Continue(todo) \in ResponderStates /\ Continue(todo).todo = todo
           /\ Continue(todo).pc \in {"select", "respond"}
           /\ Continue(todo).pc = "respond" => todo # <<>>
  <1>1. CASE todo = <<>>
    BY <1>1, LoopFacts DEF Continue
  <1>2. CASE todo # <<>>
    BY <1>2, LoopFacts DEF Continue
  <1> QED
    BY <1>1, <1>2

\* The empty list of challenges.
LEMMA EmptyList == <<>> \in Seq(Challenges) /\ DOMAIN <<>> = {}
  <1>1. <<>> \in Seq(Challenges)
    OBVIOUS
  <1> QED
    BY <1>1

\* Every element of the tail is one of the list.
LEMMA TailElement ==
    ASSUME NEW S, NEW s \in Seq(S), s # <<>>
    PROVE  /\ Tail(s) \in Seq(S) /\ Head(s) \in S
           /\ \A i \in DOMAIN Tail(s) : \E j \in DOMAIN s : Tail(s)[i] = s[j]
           /\ \E j \in DOMAIN s : Head(s) = s[j]
  <1>1. /\ Len(s) \in Nat /\ Len(s) > 0 /\ DOMAIN s = 1..Len(s)
        /\ DOMAIN Tail(s) = 1..(Len(s) - 1)
        /\ \A i \in 1..(Len(s) - 1) : Tail(s)[i] = s[i + 1]
        /\ Head(s) = s[1]
        /\ Tail(s) \in Seq(S) /\ Head(s) \in S
    OBVIOUS
  <1>2. ASSUME NEW i \in DOMAIN Tail(s) PROVE \E j \in DOMAIN s : Tail(s)[i] = s[j]
    <2>1. i + 1 \in DOMAIN s /\ Tail(s)[i] = s[i + 1]
      BY <1>1
    <2> QED
      BY <2>1
  <1>3. 1 \in DOMAIN s
    BY <1>1
  <1> QED
    BY <1>1, <1>2, <1>3

\* An element at the end of a list.
LEMMA AppendElement ==
    ASSUME NEW S, NEW s \in Seq(S), NEW e \in S
    PROVE  /\ Append(s, e) \in Seq(S) /\ Len(Append(s, e)) = Len(s) + 1
           /\ \A i \in DOMAIN Append(s, e) :
                  Append(s, e)[i] = e \/ \E j \in DOMAIN s : Append(s, e)[i] = s[j]
  <1>1. /\ Len(s) \in Nat /\ DOMAIN s = 1..Len(s)
        /\ DOMAIN Append(s, e) = 1..(Len(s) + 1)
        /\ \A i \in 1..Len(s) : Append(s, e)[i] = s[i]
        /\ Append(s, e)[Len(s) + 1] = e
        /\ Append(s, e) \in Seq(S) /\ Len(Append(s, e)) = Len(s) + 1
    OBVIOUS
  <1>2. ASSUME NEW i \in DOMAIN Append(s, e)
        PROVE  Append(s, e)[i] = e \/ \E j \in DOMAIN s : Append(s, e)[i] = s[j]
    <2>1. i = Len(s) + 1 \/ i \in 1..Len(s)
      BY <1>1
    <2> QED
      BY <1>1, <2>1
  <1> QED
    BY <1>1, <1>2

\* The channel keeps to its capacity, and holds the new event and old ones.
LEMMA SentFacts ==
    ASSUME TypeOK, NEW event \in Events
    PROVE  /\ Sent(event) \in [events: Seq(Events), lagged: BOOLEAN]
           /\ Len(Sent(event).events) <= ChannelCapacity
           /\ \A i \in DOMAIN Sent(event).events :
                  \/ Sent(event).events[i] = event
                  \/ \E j \in DOMAIN feed.events : Sent(event).events[i] = feed.events[j]
  <1>1. /\ feed.events \in Seq(Events) /\ feed.lagged \in BOOLEAN
        /\ Len(feed.events) \in Nat /\ Len(feed.events) <= ChannelCapacity
        /\ ChannelCapacity \in Nat \ {0}
    BY TypeFacts
  <1>2. CASE Len(feed.events) < ChannelCapacity
    <2> DEFINE q == Append(feed.events, event)
    <2>1. /\ q \in Seq(Events) /\ Len(q) = Len(feed.events) + 1
          /\ \A i \in DOMAIN q : q[i] = event \/ \E j \in DOMAIN feed.events : q[i] = feed.events[j]
      BY <1>1, AppendElement
    <2>2. Sent(event) = [feed EXCEPT !.events = q]
      BY <1>2 DEF Sent
    <2> HIDE DEF q
    <2>3. Sent(event) \in [events: Seq(Events), lagged: BOOLEAN] /\ Sent(event).events = q
      BY <2>1, <2>2, TypeFacts
    <2> QED
      BY <1>1, <1>2, <2>1, <2>3
  <1>3. CASE ~(Len(feed.events) < ChannelCapacity)
    <2>1. Len(feed.events) = ChannelCapacity /\ feed.events # <<>>
      BY <1>1, <1>3
    <2> DEFINE s == Tail(feed.events)
               q == Append(s, event)
    <2>2. /\ s \in Seq(Events) /\ Len(s) = ChannelCapacity - 1
          /\ \A i \in DOMAIN s : \E j \in DOMAIN feed.events : s[i] = feed.events[j]
      <3>1. Len(s) = Len(feed.events) - 1
        BY <1>1, <2>1
      <3> QED
        BY <1>1, <2>1, <3>1, TailElement
    <2> HIDE DEF s
    <2>3. /\ q \in Seq(Events) /\ Len(q) = Len(s) + 1
          /\ \A i \in DOMAIN q : q[i] = event \/ \E j \in DOMAIN s : q[i] = s[j]
      BY <2>2, AppendElement
    <2>4. Sent(event) = [events |-> q, lagged |-> TRUE]
      BY <1>3 DEF Sent, s
    <2> HIDE DEF q
    <2>5. TRUE \in BOOLEAN
      OBVIOUS
    <2>6. Sent(event) \in [events: Seq(Events), lagged: BOOLEAN] /\ Sent(event).events = q
      BY <2>3, <2>4, <2>5
    <2> QED
      BY <1>1, <2>2, <2>3, <2>6
  <1> QED
    BY <1>2, <1>3

\* The scan's list of the open challenges holds only open challenges.
LEMMA ScanList ==
    ASSUME NEW S \in SUBSET Challenges
    PROVE  /\ SetToSeq(S) \in Seq(Challenges)
           /\ \A i \in DOMAIN SetToSeq(S) : SetToSeq(S)[i] \in S
  <1>1. IsFiniteSet(S)
    BY DutiesAssumption, FS_Subset
  <1>2. Cardinality(S) \in Nat /\ ExistsBijection(1..Cardinality(S), S)
    BY <1>1, FS_CardinalityType
  <1>3. \E f \in [1..Cardinality(S) -> S] : IsInjective(f)
    <2>1. PICK f : f \in Bijection(1..Cardinality(S), S)
      BY <1>2 DEF ExistsBijection
    <2>2. /\ f \in [1..Cardinality(S) -> S]
          /\ \A a, b \in 1..Cardinality(S) : f[a] = f[b] => a = b
      BY <2>1 DEF Bijection, Injection, IsInjective
    <2>3. IsInjective(f)
      BY <2>2 DEF IsInjective
    <2> QED
      BY <2>2, <2>3
  <1>4. SetToSeq(S) \in [1..Cardinality(S) -> S]
    BY <1>3 DEF SetToSeq
  <1> DEFINE f == SetToSeq(S)
  <1> HIDE DEF f
  <1>5. f \in [1..Cardinality(S) -> S]
    BY <1>4 DEF f
  <1>6. f \in Seq(Challenges)
    BY <1>2, <1>5
  <1>7. \A i \in DOMAIN f : f[i] \in S
    BY <1>5
  <1> QED
    BY <1>6, <1>7 DEF f

----------------------------------------------------------------------------
(* Steps of the responder and of its feed                                   *)

\* A step of the responder that submits nothing: its lists still hold known
\* challenges only, and it has one at hand where it needs it.
LEMMA ResponderQuiet ==
    ASSUME DutyInv,
           UNCHANGED <<scenario, anchor_block, snapshot, last_sync, submit_lock, tx, pool>>,
           UNCHANGED replicaVars,
           challenge' \in [Challenges -> ChallengeRecords], ChallengeMoves,
           faults' \in 0..MaxFaults,
           follower' \in [up: BOOLEAN, connects: Nat],
           feed' \in [events: Seq(Events), lagged: BOOLEAN],
           Len(feed'.events) <= ChannelCapacity,
           responder' \in ResponderStates,
           \A i \in DOMAIN feed'.events :
               feed'.events[i] \in Challenges => Known(feed.events[i])',
           \A i \in DOMAIN responder'.todo : Known(responder.todo[i])',
           responder'.pc \in {"fetch", "respond", "submit"} => responder'.todo # <<>>,
           responder'.pc # "submit" => responder.pc # "submit"
    PROVE  DutyInv'
  <1>1. TypeOK /\ CallsHeld /\ LoopsInStep
    BY DEF DutyInv
  <1>2. TypeOK'
    BY <1>1, TypeFacts DEF TypeOK, replicaVars
  <1>3. LoopsInStep'
    BY <1>1 DEF LoopsInStep, replicaVars
  <1>4. replica'.pc = "source" => replica'.target \in 0..MaxRoot
    BY <1>1 DEF CallsHeld, replicaVars
  <1>5. OnlyKnown' /\ CallsHeld' /\ WatchesOwn' /\ SuccessClosesChallenge'
    BY <1>4, NoSubmissionMoves DEF replicaVars
  <1> QED
    BY <1>2, <1>3, <1>5 DEF DutyInv

\* The same with the chain and the feed as they were.
LEMMA ResponderLocal ==
    ASSUME DutyInv, UNCHANGED <<chainVars, submit_lock, tx, pool>>,
           UNCHANGED followerVars, UNCHANGED replicaVars,
           faults' \in 0..MaxFaults, responder' \in ResponderStates,
           \A i \in DOMAIN responder'.todo : Known(responder'.todo[i]),
           responder'.pc \in {"fetch", "respond", "submit"} => responder'.todo # <<>>,
           responder'.pc # "submit" => responder.pc # "submit"
    PROVE  DutyInv'
  <1>1. TypeOK /\ OnlyKnown
    BY DEF DutyInv
  <1>2. challenge' \in [Challenges -> ChallengeRecords] /\ ChallengeMoves
    BY <1>1, TypeFacts DEF ChallengeMoves, chainVars
  <1>3. /\ follower' \in [up: BOOLEAN, connects: Nat]
        /\ feed' \in [events: Seq(Events), lagged: BOOLEAN]
        /\ Len(feed'.events) <= ChannelCapacity
    BY <1>1, TypeFacts DEF followerVars
  <1>4. \A i \in DOMAIN feed'.events : feed'.events[i] \in Challenges => Known(feed.events[i])'
    BY <1>1 DEF OnlyKnown, Known, followerVars, chainVars
  <1>5. \A i \in DOMAIN responder'.todo : Known(responder.todo[i])'
    BY DEF Known, chainVars
  <1> QED
    BY <1>2, <1>3, <1>4, <1>5, ResponderQuiet DEF chainVars

\* The list goes on: a part of the responder's own list, or an empty one.
LEMMA ResponderContinues ==
    ASSUME DutyInv, UNCHANGED <<chainVars, submit_lock, tx, pool>>,
           UNCHANGED followerVars, UNCHANGED replicaVars,
           faults' \in 0..MaxFaults, responder.pc # "submit",
           NEW todo \in Seq(Challenges), responder' = Continue(todo),
           \A i \in DOMAIN todo : Known(todo[i])
    PROVE  DutyInv'
  <1>1. /\ responder' \in ResponderStates /\ responder'.todo = todo
        /\ responder'.pc \in {"select", "respond"}
        /\ responder'.pc = "respond" => todo # <<>>
    BY ContinueFacts DEF DutyInv
  <1> QED
    BY <1>1, ResponderLocal

\* Pause and resume keep the invariant.
LEMMA PauseStep ==
    ASSUME DutyInv, NEW paused \in BOOLEAN, Pause(paused), UNCHANGED replicaVars
    PROVE  DutyInv'
  <1>1. TypeOK /\ OnlyKnown /\ LoopsInStep
    BY DEF DutyInv
  <1>2. /\ responder' \in ResponderStates /\ responder'.pc = responder.pc
        /\ responder'.todo = responder.todo
    BY <1>1, TypeFacts DEF Pause, ResponderStates
  <1>3. \A i \in DOMAIN responder'.todo : Known(responder'.todo[i])
    BY <1>1, <1>2 DEF OnlyKnown
  <1>4. UNCHANGED <<chainVars, submit_lock, tx, pool>> /\ UNCHANGED followerVars
        /\ faults' \in 0..MaxFaults
    BY <1>1, TypeFacts DEF Pause, txVars
  <1> QED
    BY <1>1, <1>2, <1>3, <1>4, ResponderLocal DEF LoopsInStep

\* The responder takes an event: the challenge it names was created.
LEMMA RecvEventStep ==
    ASSUME DutyInv, RecvEvent, UNCHANGED replicaVars
    PROVE  DutyInv'
  <1>1. TypeOK /\ OnlyKnown /\ LoopsInStep
    BY DEF DutyInv
  <1>2. /\ UNCHANGED <<chainVars, txVars, follower>> /\ responder.pc = "select"
        /\ feed.lagged \/ feed.events # <<>>
    BY DEF RecvEvent, Selecting, EventReady
  <1>3. /\ feed \in [events: Seq(Events), lagged: BOOLEAN]
        /\ feed.events \in Seq(Events) /\ Len(feed.events) <= ChannelCapacity
        /\ ChannelCapacity \in Nat
    BY <1>1, TypeFacts
  <1>4. CASE feed.lagged
    <2>1. /\ feed' \in [events: Seq(Events), lagged: BOOLEAN]
          /\ feed'.events = feed.events
      <3>1. feed' = [feed EXCEPT !.lagged = FALSE] /\ FALSE \in BOOLEAN
        BY <1>4 DEF RecvEvent
      <3> QED
        BY <1>3, <3>1
    <2>2. responder' = Handling(Resubscribed)
      BY <1>4 DEF RecvEvent
    <2>3. responder' = responder \/ responder' = Loop("scan", <<>>)
      BY <2>2 DEF Handling, Resubscribed, MembershipScopeUnknown
    <2>4. /\ responder' \in ResponderStates
          /\ responder'.pc \in {"select", "scan"}
          /\ \A i \in DOMAIN responder'.todo : Known(responder'.todo[i])
      <3>1. CASE responder' = responder
        BY <1>1, <1>2, <3>1, TypeFacts DEF OnlyKnown
      <3>2. CASE responder' = Loop("scan", <<>>)
        BY <1>1, <3>2, LoopFacts, EmptyList
      <3> QED
        BY <2>3, <3>1, <3>2
    <2>5. \A i \in DOMAIN feed'.events : feed'.events[i] \in Challenges => Known(feed.events[i])'
      BY <1>1, <1>2, <2>1 DEF OnlyKnown, Known, chainVars
    <2>6. \A i \in DOMAIN responder'.todo : Known(responder.todo[i])'
      BY <1>2, <2>4 DEF Known, chainVars
    <2>7. challenge' \in [Challenges -> ChallengeRecords] /\ ChallengeMoves
          /\ follower' \in [up: BOOLEAN, connects: Nat] /\ faults' \in 0..MaxFaults
      BY <1>1, <1>2, TypeFacts DEF ChallengeMoves, chainVars, txVars
    <2> QED
      BY <1>2, <1>3, <2>1, <2>4, <2>5, <2>6, <2>7, ResponderQuiet DEF chainVars, txVars
  <1>5. CASE ~feed.lagged
    <2>0. feed.events # <<>>
      BY <1>2, <1>5
    <2> DEFINE event == Head(feed.events)
    <2>1. /\ feed' = [feed EXCEPT !.events = Tail(feed.events)]
          /\ responder' = Handling(event)
      BY <1>5 DEF RecvEvent
    <2>2. /\ Tail(feed.events) \in Seq(Events) /\ event \in Events
          /\ \A i \in DOMAIN Tail(feed.events) :
                 \E j \in DOMAIN feed.events : Tail(feed.events)[i] = feed.events[j]
          /\ \E j \in DOMAIN feed.events : event = feed.events[j]
      BY <1>3, <2>0, TailElement
    <2>3. Len(Tail(feed.events)) <= ChannelCapacity
      BY <1>3, <2>0
    <2>4. /\ feed' \in [events: Seq(Events), lagged: BOOLEAN]
          /\ feed'.events = Tail(feed.events)
      BY <1>3, <2>1, <2>2
    <2>5. event \in Challenges => Known(event)
      BY <1>1, <2>2 DEF OnlyKnown
    <2> HIDE DEF event
    <2>6. /\ responder' \in ResponderStates
          /\ responder'.pc \in {"select", "scan", "fetch"}
          /\ responder'.pc = "fetch" => responder'.todo # <<>>
          /\ \A i \in DOMAIN responder'.todo : Known(responder'.todo[i])
      <3>1. CASE responder' = responder
        BY <1>1, <1>2, <3>1, TypeFacts DEF OnlyKnown
      <3>2. CASE responder' = Loop("scan", <<>>)
        BY <1>1, <3>2, LoopFacts, EmptyList
      <3>3. CASE responder' = Loop("fetch", <<event>>) /\ event \in Challenges
        <4>1. <<event>> \in Seq(Challenges) /\ <<event>> # <<>>
          BY <3>3
        <4>2. \A i \in DOMAIN <<event>> : <<event>>[i] = event
          OBVIOUS
        <4>3. /\ responder' \in ResponderStates /\ responder'.pc = "fetch"
              /\ responder'.todo = <<event>>
          BY <1>1, <3>3, <4>1, LoopFacts
        <4> QED
          BY <2>5, <3>3, <4>1, <4>2, <4>3
      <3> QED
        BY <2>1, <2>2, <3>1, <3>2, <3>3 DEF Handling, Events
    <2>7. \A i \in DOMAIN feed'.events : feed'.events[i] \in Challenges => Known(feed.events[i])'
      <3> SUFFICES ASSUME NEW i \in DOMAIN feed'.events, feed'.events[i] \in Challenges
                   PROVE  Known(feed'.events[i])
        BY <1>2 DEF Known, chainVars
      <3> QED
        BY <1>1, <2>2, <2>4 DEF OnlyKnown
    <2>8. \A i \in DOMAIN responder'.todo : Known(responder.todo[i])'
      BY <1>2, <2>6 DEF Known, chainVars
    <2>9. challenge' \in [Challenges -> ChallengeRecords] /\ ChallengeMoves
          /\ follower' \in [up: BOOLEAN, connects: Nat] /\ faults' \in 0..MaxFaults
      BY <1>1, <1>2, TypeFacts DEF ChallengeMoves, chainVars, txVars
    <2> QED
      BY <1>2, <2>3, <2>4, <2>6, <2>7, <2>8, <2>9, ResponderQuiet DEF chainVars, txVars
  <1> QED
    BY <1>4, <1>5

\* The safety-net tick keeps the invariant.
LEMMA IntervalTickStep ==
    ASSUME DutyInv, IntervalTick, UNCHANGED replicaVars
    PROVE  DutyInv'
  <1>1. TypeOK
    BY DEF DutyInv
  <1>2. /\ UNCHANGED <<chainVars, submit_lock, tx, pool>> /\ UNCHANGED followerVars
        /\ faults' \in 0..MaxFaults /\ responder.pc = "select"
        /\ responder' = Loop("scan", <<>>)
    BY <1>1, TypeFacts DEF IntervalTick, Selecting, txVars
  <1>3. /\ responder' \in ResponderStates /\ responder'.pc = "scan"
        /\ responder'.todo = <<>>
    BY <1>1, <1>2, LoopFacts, EmptyList
  <1> QED
    BY <1>2, <1>3, EmptyList, ResponderLocal

\* The reads of the chain: one challenge, or all that are open.
LEMMA ReadSteps ==
    ASSUME DutyInv, fetch_challenge \/ poll_challenges \/ ReadFails, UNCHANGED replicaVars
    PROVE  DutyInv'
  <1>1. TypeOK /\ OnlyKnown /\ LoopsInStep
    BY DEF DutyInv
  <1>2. /\ UNCHANGED <<chainVars, submit_lock, tx, pool>> /\ UNCHANGED followerVars
        /\ responder.pc \in {"fetch", "scan"}
    BY DEF fetch_challenge, poll_challenges, ReadFails, txVars
  <1>3. faults' \in 0..MaxFaults
    BY <1>1, TypeFacts, FaultType DEF fetch_challenge, poll_challenges, ReadFails, txVars
  <1>4. CASE responder' = Continue(<<>>)
    BY <1>2, <1>3, <1>4, EmptyList, ResponderContinues
  <1>5. CASE responder' = Continue(responder.todo)
    <2>1. responder.todo \in Seq(Challenges)
      BY <1>1, TypeFacts DEF ResponderStates
    <2>2. \A i \in DOMAIN responder.todo : Known(responder.todo[i])
      BY <1>1 DEF OnlyKnown
    <2> QED
      BY <1>2, <1>3, <1>5, <2>1, <2>2, ResponderContinues
  <1>6. CASE responder' = Continue(SetToSeq({c \in Challenges : challenge[c].status = "open"}))
    <2> DEFINE S == {c \in Challenges : challenge[c].status = "open"}
               list == SetToSeq(S)
    <2>1. list \in Seq(Challenges) /\ \A i \in DOMAIN list : list[i] \in S
      BY ScanList
    <2>2. \A i \in DOMAIN list : Known(list[i])
      BY <2>1 DEF Known
    <2>3. responder' = Continue(list)
      BY <1>6
    <2> HIDE DEF list
    <2> QED
      BY <1>2, <1>3, <2>1, <2>2, <2>3, ResponderContinues
  <1> QED
    BY <1>4, <1>5, <1>6 DEF fetch_challenge, poll_challenges, ReadFails

\* The challenge at hand is given up.
LEMMA GiveUpStep ==
    ASSUME DutyInv, DataNotFound \/ ProofGenerationFailed, UNCHANGED replicaVars
    PROVE  DutyInv'
  <1>1. TypeOK /\ OnlyKnown /\ LoopsInStep
    BY DEF DutyInv
  <1>2. /\ UNCHANGED <<chainVars, submit_lock, tx, pool>> /\ UNCHANGED followerVars
        /\ responder.pc = "respond" /\ responder' = Continue(Tail(responder.todo))
    BY DEF DataNotFound, ProofGenerationFailed, NextChallenge, txVars
  <1>3. faults' \in 0..MaxFaults
    BY <1>1, TypeFacts, FaultType DEF DataNotFound, ProofGenerationFailed, txVars
  <1>4. responder.todo \in Seq(Challenges) /\ responder.todo # <<>>
    BY <1>1, <1>2, TypeFacts DEF ResponderStates, LoopsInStep
  <1>5. /\ Tail(responder.todo) \in Seq(Challenges)
        /\ \A i \in DOMAIN Tail(responder.todo) : Known(Tail(responder.todo)[i])
    BY <1>1, <1>4, TailElement DEF OnlyKnown
  <1> QED
    BY <1>2, <1>3, <1>5, ResponderContinues

\* A challenge is created, and the node may hear of it.
LEMMA ChallengeCreatedStep ==
    ASSUME DutyInv, NEW c \in Challenges, ChallengeCreated(c), UNCHANGED replicaVars
    PROVE  DutyInv'
  <1>1. TypeOK /\ OnlyKnown /\ LoopsInStep
    BY DEF DutyInv
  <1>2. create_challenge(c) /\ UNCHANGED <<submit_lock, tx, pool, follower, responder>>
    BY DEF ChallengeCreated
  <1>3. /\ challenge' \in [Challenges -> ChallengeRecords] /\ ChallengeMoves
        /\ challenge'[c].status = "open"
        /\ UNCHANGED <<scenario, anchor_block, snapshot, last_sync>>
    BY <1>1, <1>2, CreateFacts
  <1>4. \/ feed' = feed /\ faults' = faults
        \/ feed' = Sent(c) /\ faults' = faults
        \/ Fault /\ feed' = Sent(MembershipScopeUnknown)
    BY DEF ChallengeCreated, BroadcastBlock
  <1>5. faults' \in 0..MaxFaults
    BY <1>1, <1>4, TypeFacts, FaultType
  <1>6. c \in Events /\ MembershipScopeUnknown \in Events
    BY DEF Events
  <1>7. /\ feed' \in [events: Seq(Events), lagged: BOOLEAN]
        /\ Len(feed'.events) <= ChannelCapacity
        /\ \A i \in DOMAIN feed'.events :
               \/ feed'.events[i] \in {c, MembershipScopeUnknown}
               \/ \E j \in DOMAIN feed.events : feed'.events[i] = feed.events[j]
    <2>1. CASE feed' = feed
      BY <1>1, <2>1, TypeFacts
    <2>2. CASE feed' = Sent(c)
      BY <1>1, <1>6, <2>2, SentFacts
    <2>3. CASE feed' = Sent(MembershipScopeUnknown)
      BY <1>1, <1>6, <2>3, SentFacts
    <2> QED
      BY <1>4, <2>1, <2>2, <2>3
  <1>8. \A i \in DOMAIN feed'.events : feed'.events[i] \in Challenges => Known(feed.events[i])'
    <2> SUFFICES ASSUME NEW i \in DOMAIN feed'.events, feed'.events[i] \in Challenges
                 PROVE  challenge'[feed'.events[i]].status # "unopened"
      BY DEF Known
    <2>1. CASE feed'.events[i] = c
      BY <1>3, <2>1
    <2>2. CASE \E j \in DOMAIN feed.events : feed'.events[i] = feed.events[j]
      <3>1. Known(feed'.events[i])
        BY <1>1, <2>2 DEF OnlyKnown
      <3> QED
        BY <1>3, <3>1 DEF Known, ChallengeMoves
    <2> QED
      BY <1>7, <2>1, <2>2, DutiesAssumption
  <1>9. \A i \in DOMAIN responder'.todo : Known(responder.todo[i])'
    BY <1>1, <1>2, <1>3, KnownStays, TodoElement DEF OnlyKnown, Known
  <1>10. follower' \in [up: BOOLEAN, connects: Nat] /\ responder' \in ResponderStates
    BY <1>1, <1>2, TypeFacts
  <1>11. responder'.pc \in {"fetch", "respond", "submit"} => responder'.todo # <<>>
    BY <1>1, <1>2 DEF LoopsInStep
  <1> QED
    BY <1>2, <1>3, <1>5, <1>7, <1>8, <1>9, <1>10, <1>11, ResponderQuiet

\* The follower's connection keeps the invariant.
LEMMA FollowStep ==
    ASSUME DutyInv, Connect \/ Disconnect, UNCHANGED replicaVars
    PROVE  DutyInv'
  <1>1. TypeOK /\ OnlyKnown /\ LoopsInStep
    BY DEF DutyInv
  <1>2. UNCHANGED <<chainVars, txVars, responder>>
    BY DEF Connect, Disconnect
  <1>3. follower' \in [up: BOOLEAN, connects: Nat]
    <2>1. follower \in [up: BOOLEAN, connects: Nat] /\ TRUE \in BOOLEAN /\ FALSE \in BOOLEAN
      BY <1>1, TypeFacts
    <2>2. CASE Connect
      <3>1. follower' = [follower EXCEPT !.up = TRUE, !.connects = @ + 1]
        BY <2>2 DEF Connect
      <3>2. follower.connects + 1 \in Nat
        BY <2>1
      <3> QED
        BY <2>1, <3>1, <3>2
    <2>3. CASE Disconnect
      BY <2>1, <2>3 DEF Disconnect
    <2> QED
      BY <2>2, <2>3
  <1>4. Resubscribed \in Events
    BY DEF Events
  <1>5. feed' = feed \/ feed' = Sent(Resubscribed)
    BY DEF Connect, Disconnect
  <1>6. /\ feed' \in [events: Seq(Events), lagged: BOOLEAN]
        /\ Len(feed'.events) <= ChannelCapacity
        /\ \A i \in DOMAIN feed'.events :
               \/ feed'.events[i] = Resubscribed
               \/ \E j \in DOMAIN feed.events : feed'.events[i] = feed.events[j]
    <2>1. CASE feed' = feed
      BY <1>1, <2>1, TypeFacts
    <2>2. CASE feed' = Sent(Resubscribed)
      BY <1>1, <1>4, <2>2, SentFacts
    <2> QED
      BY <1>5, <2>1, <2>2
  <1>7. \A i \in DOMAIN feed'.events : feed'.events[i] \in Challenges => Known(feed.events[i])'
    <2> SUFFICES ASSUME NEW i \in DOMAIN feed'.events, feed'.events[i] \in Challenges
                 PROVE  Known(feed'.events[i])
      BY <1>2 DEF Known, chainVars
    <2> QED
      BY <1>1, <1>6, DutiesAssumption DEF OnlyKnown
  <1>8. \A i \in DOMAIN responder'.todo : Known(responder.todo[i])'
    BY <1>1, <1>2 DEF OnlyKnown, Known, chainVars
  <1>9. /\ challenge' \in [Challenges -> ChallengeRecords] /\ ChallengeMoves
        /\ faults' \in 0..MaxFaults /\ responder' \in ResponderStates
    BY <1>1, <1>2, TypeFacts DEF ChallengeMoves, chainVars, txVars
  <1>10. responder'.pc \in {"fetch", "respond", "submit"} => responder'.todo # <<>>
    BY <1>1, <1>2 DEF LoopsInStep
  <1> QED
    BY <1>2, <1>3, <1>6, <1>7, <1>8, <1>9, <1>10, ResponderQuiet DEF chainVars, txVars

\* A task begins or forgets its submission, with the lock in nobody's hands or
\* another's.
LEMMA OwnTxStep ==
    ASSUME TypeOK, NEW t \in Tasks, NEW r \in Submissions, tx' = [tx EXCEPT ![t] = r],
           tx[t].pc \notin Holding, r.pc \notin Holding, submit_lock' = submit_lock
    PROVE  LockExact'
  <1>1. LockExact
    BY TypeFacts DEF LockExact, Holding
  <1>2. /\ tx'[t] = r /\ \A u \in Tasks \ {t} : tx'[u] = tx[u]
    BY TxUpdate
  <1>3. ASSUME NEW u \in Tasks PROVE submit_lock' = u <=> tx'[u].pc \in Holding
    <2>1. submit_lock = u <=> tx[u].pc \in Holding
      BY <1>1 DEF LockExact
    <2>2. tx'[u].pc \in Holding <=> tx[u].pc \in Holding
      BY <1>2
    <2> QED
      BY <2>1, <2>2
  <1> QED
    BY <1>3 DEF LockExact

\* The responder submits the answer to the challenge at hand, or is done with it.
LEMMA RespondStep ==
    ASSUME DutyInv, respond_to_challenge \/ submit_response, UNCHANGED replicaVars
    PROVE  DutyInv'
  <1>1. TypeOK /\ OnlyKnown /\ LoopsInStep /\ CallsHeld /\ WatchesOwn
    BY DEF DutyInv
  <1>2. UNCHANGED <<chainVars, submit_lock, pool, faults, followerVars>>
    BY DEF respond_to_challenge, submit_response
  <1>3. responder.todo \in Seq(Challenges) /\ responder.todo # <<>>
    BY <1>1, TypeFacts DEF ResponderStates, LoopsInStep, respond_to_challenge, submit_response
  <1>4. /\ Tail(responder.todo) \in Seq(Challenges) /\ Head(responder.todo) \in Challenges
        /\ \A i \in DOMAIN Tail(responder.todo) : Known(Tail(responder.todo)[i])
        /\ Known(Head(responder.todo))
    BY <1>1, <1>3, TailElement DEF OnlyKnown
  <1> DEFINE head == Head(responder.todo)
  <1>5. PICK r \in Submissions :
            /\ tx' = [tx EXCEPT !["responder"] = r]
            /\ \/ r.pc = "lock" /\ r.call = RespondCall(head) /\ responder'.pc = "submit"
               \/ r.pc = "idle"
            /\ responder' \in ResponderStates
            /\ \A i \in DOMAIN responder'.todo : Known(responder'.todo[i])
            /\ responder'.pc \in {"fetch", "respond", "submit"} => responder'.todo # <<>>
            /\ tx["responder"].pc \in {"idle", "ok", "err"}
    <2>1. CASE respond_to_challenge
      <3>1. /\ tx' = [tx EXCEPT !["responder"] = Submission(RespondCall(head))]
            /\ responder' = Loop("submit", responder.todo) /\ responder.pc = "respond"
        BY <2>1 DEF respond_to_challenge
      <3>2. /\ Submission(RespondCall(head)) \in Submissions
            /\ Submission(RespondCall(head)).pc = "lock"
            /\ Submission(RespondCall(head)).call = RespondCall(head)
        BY <1>4, CallFacts, SubmissionFacts
      <3>3. /\ responder' \in ResponderStates /\ responder'.pc = "submit"
            /\ responder'.todo = responder.todo
        BY <1>1, <1>3, <3>1, LoopFacts
      <3>4. \A i \in DOMAIN responder'.todo : Known(responder'.todo[i])
        BY <1>1, <3>3 DEF OnlyKnown
      <3>5. tx["responder"].pc = "idle"
        BY <1>1, <3>1 DEF LoopsInStep
      <3> QED
        BY <1>3, <3>1, <3>2, <3>3, <3>4, <3>5
    <2>2. CASE submit_response
      <3>1. /\ tx' = [tx EXCEPT !["responder"] = NoTx]
            /\ responder' = Continue(Tail(responder.todo))
            /\ tx["responder"].pc \in {"ok", "err"}
        BY <2>2 DEF submit_response, NextChallenge, Returned
      <3>2. /\ responder' \in ResponderStates /\ responder'.todo = Tail(responder.todo)
            /\ responder'.pc \in {"select", "respond"}
            /\ responder'.pc = "respond" => responder'.todo # <<>>
        BY <1>1, <1>4, <3>1, ContinueFacts
      <3> QED
        BY <1>4, <3>1, <3>2, SubmissionFacts
    <2> QED
      BY <2>1, <2>2
  <1> HIDE DEF head
  <1>6. /\ tx' \in [Tasks -> Submissions] /\ tx'["responder"] = r
        /\ \A u \in Tasks \ {"responder"} : tx'[u] = tx[u]
        /\ "responder" \in Tasks /\ "replica" \in Tasks
    BY <1>1, <1>5, TxUpdate, TypeFacts
  <1>7. LockExact'
    BY <1>1, <1>2, <1>5, <1>6, OwnTxStep DEF Holding
  <1>8. TypeOK'
    BY <1>1, <1>2, <1>5, <1>6, <1>7, TypeFacts
       DEF TypeOK, LockExact, Holding, chainVars, followerVars, replicaVars
  <1>9. LoopsInStep'
    BY <1>1, <1>5, <1>6 DEF LoopsInStep, replicaVars
  <1>10. OnlyKnown'
    <2>1. \A i \in DOMAIN feed'.events : feed'.events[i] \in Challenges => Known(feed.events[i])'
      BY <1>1, <1>2 DEF OnlyKnown, Known, followerVars, chainVars
    <2>2. \A i \in DOMAIN responder'.todo : Known(responder.todo[i])'
      BY <1>2, <1>5 DEF Known, chainVars
    <2>3. ASSUME NEW c \in Challenges, tx'["responder"].pc # "idle",
                 tx'["responder"].call = RespondCall(c)
          PROVE  Known(c)'
      <3>1. RespondCall(c) = RespondCall(head)
        BY <1>5, <1>6, <2>3
      <3>2. c = head
        BY <1>4, <3>1, CallFacts DEF head
      <3>3. Known(c)
        BY <1>4, <3>2 DEF head
      <3> QED
        BY <1>2, <3>3 DEF Known, chainVars
    <2> QED
      BY <2>1, <2>2, <2>3 DEF OnlyKnown
  <1>11. CallsHeld'
    <2>1. RespondCall(head) \in Calls /\ AttestsHeld(RespondCall(head))
      BY <1>4, CallFacts DEF AttestsHeld, head
    <2>2. ASSUME NEW u \in Tasks, tx'[u].pc # "idle"
          PROVE  tx'[u].call \in Calls /\ AttestsHeld(tx'[u].call)
      <3>1. CASE u = "responder"
        BY <1>5, <1>6, <2>1, <2>2, <3>1
      <3>2. CASE u # "responder"
        BY <1>1, <1>6, <2>2, <3>2 DEF CallsHeld
      <3> QED
        BY <3>1, <3>2
    <2>3. \A u \in Tasks : tx'[u].pc # "idle"
              => tx'[u].call \in Calls /\ AttestsHeld(tx[u].call)'
      BY <2>2 DEF AttestsHeld, replicaVars
    <2>4. pool' # None => AttestsHeld(pool.call)'
      BY <1>1, <1>2 DEF CallsHeld, AttestsHeld, replicaVars
    <2>5. /\ last_sync' # None => last_sync'.root \in held'
          /\ replica'.pc = "source" => replica'.target \in 0..MaxRoot
      BY <1>1, <1>2 DEF CallsHeld, chainVars, replicaVars
    <2>6. tx'["replica"].pc # "idle" => tx'["replica"].call.name = "confirm_replica_sync"
      <3>1. "replica" # "responder"
        OBVIOUS
      <3> QED
        BY <1>1, <1>6, <3>1 DEF CallsHeld
    <2> QED
      BY <2>3, <2>4, <2>5, <2>6 DEF CallsHeld
  <1>12. WatchesOwn'
    BY <1>1, <1>2, <1>5, <1>6 DEF WatchesOwn
  <1>13. SuccessClosesChallenge'
    BY <1>5, <1>6 DEF SuccessClosesChallenge, Success
  <1> QED
    BY <1>8, <1>9, <1>10, <1>11, <1>12, <1>13 DEF DutyInv

----------------------------------------------------------------------------
(* Steps of the replica coordinator and of the chain                        *)

\* A step that leaves both tasks' submissions and the responder alone.
LEMMA ReplicaQuiet ==
    ASSUME DutyInv, UNCHANGED <<txVars, respVars>>,
           anchor_block' \in 0..MaxBlock, snapshot' \in 0..MaxRoot,
           challenge' \in [Challenges -> ChallengeRecords], ChallengeMoves,
           last_sync' = last_sync,
           replica' \in ReplicaStates, replica'.pc # "confirm" => replica.pc # "confirm",
           replica'.pc = "source" => replica'.target \in 0..MaxRoot,
           held \subseteq held', local_root' \in held', held' \subseteq 0..MaxRoot
    PROVE  DutyInv'
  <1>1. TypeOK /\ OnlyKnown /\ LoopsInStep
    BY DEF DutyInv
  <1>2. TypeOK'
    BY <1>1, TypeFacts DEF TypeOK, txVars, respVars
  <1>3. LoopsInStep'
    BY <1>1 DEF LoopsInStep, txVars, respVars
  <1>4. /\ \A i \in DOMAIN feed'.events :
              feed'.events[i] \in Challenges => Known(feed.events[i])'
        /\ \A i \in DOMAIN responder'.todo : Known(responder.todo[i])'
    BY <1>1, ListsKept DEF respVars
  <1>5. OnlyKnown' /\ CallsHeld' /\ WatchesOwn' /\ SuccessClosesChallenge'
    BY <1>4, NoSubmissionMoves DEF txVars
  <1> QED
    BY <1>2, <1>3, <1>5 DEF DutyInv

\* The chain's own steps keep the invariant.
LEMMA ChainStep ==
    ASSUME DutyInv, ChainSteps
    PROVE  DutyInv'
  <1>1. TypeOK /\ CallsHeld
    BY DEF DutyInv
  <1>2. UNCHANGED <<txVars, respVars, replicaVars>>
    BY DEF ChainSteps
  <1>3. /\ anchor_block' \in 0..MaxBlock /\ snapshot' \in 0..MaxRoot
        /\ challenge' \in [Challenges -> ChallengeRecords] /\ ChallengeMoves
        /\ last_sync' = last_sync
    <2>1. CASE NextBlock
      BY <1>1, <2>1, TypeFacts DEF NextBlock, ChallengeMoves
    <2>2. CASE \E c \in Challenges : resolve_expired_challenge(c)
      BY <1>1, <2>2, ResolveFacts, TypeFacts DEF resolve_expired_challenge
    <2> QED
      BY <2>1, <2>2 DEF ChainSteps
  <1> QED
    BY <1>1, <1>2, <1>3, ReplicaQuiet, TypeFacts DEF CallsHeld, replicaVars

\* The bucket changes, a pass begins, or it ends without a confirmation.
LEMMA ReplicaLocalStep ==
    ASSUME DutyInv, UNCHANGED respVars,
           \/ run_duty_pass \/ ForceSync \/ BucketCheckpointed \/ SourcesUnavailable
           \/ \E root \in 0..MaxRoot : LocalCommit(root)
    PROVE  DutyInv'
  <1>1. TypeOK /\ CallsHeld
    BY DEF DutyInv
  <1>2. /\ UNCHANGED <<txVars, scenario, anchor_block, challenge, last_sync>>
    BY DEF run_duty_pass, ForceSync, BucketCheckpointed, SourcesUnavailable, LocalCommit,
           chainVars, checkpoint
  <1>3. snapshot' \in 0..MaxRoot
    BY <1>1, TypeFacts DEF run_duty_pass, ForceSync, BucketCheckpointed, SourcesUnavailable,
                           LocalCommit, chainVars, checkpoint
  <1>4. Done \in ReplicaStates /\ Done.pc = "select"
    BY DEF Done, ReplicaStates
  <1>5. Duty \in ReplicaStates /\ Duty.pc \in {"select", "source"}
        /\ (Duty.pc = "source" => Duty.target \in 0..MaxRoot)
    <2>1. CASE snapshot \in {0, local_root}
      BY <1>4, <2>1 DEF Duty
    <2>2. CASE snapshot \notin {0, local_root}
      <3>1. Duty = [pc |-> "source", target |-> snapshot] /\ snapshot \in 0..MaxRoot
        BY <1>1, <2>2, TypeFacts DEF Duty
      <3> QED
        BY <3>1 DEF ReplicaStates
    <2> QED
      BY <2>1, <2>2
  <1>6. /\ replica' \in ReplicaStates
        /\ replica'.pc # "confirm" => replica.pc # "confirm"
        /\ replica'.pc = "source" => replica'.target \in 0..MaxRoot
    <2>1. CASE run_duty_pass \/ ForceSync
      BY <1>5, <2>1 DEF run_duty_pass, ForceSync
    <2>2. CASE SourcesUnavailable
      BY <1>4, <2>2 DEF SourcesUnavailable
    <2>3. CASE replica' = replica
      BY <1>1, <2>3, TypeFacts DEF CallsHeld
    <2> QED
      BY <2>1, <2>2, <2>3 DEF BucketCheckpointed, LocalCommit
  <1>7. held \subseteq held' /\ local_root' \in held' /\ held' \subseteq 0..MaxRoot
    <2>1. CASE \E root \in 0..MaxRoot : LocalCommit(root)
      BY <1>1, <2>1, TypeFacts DEF LocalCommit
    <2>2. CASE UNCHANGED <<local_root, held>>
      BY <1>1, <2>2, TypeFacts
    <2> QED
      BY <2>1, <2>2 DEF run_duty_pass, ForceSync, BucketCheckpointed, SourcesUnavailable
  <1>8. /\ ChallengeMoves /\ challenge' \in [Challenges -> ChallengeRecords]
        /\ anchor_block' \in 0..MaxBlock
    BY <1>1, <1>2, TypeFacts DEF ChallengeMoves
  <1>9. UNCHANGED <<txVars, respVars>> /\ last_sync' = last_sync
    BY <1>2
  <1> QED
    BY <1>3, <1>6, <1>7, <1>8, <1>9, ReplicaQuiet

\* The coordinator attests the root its bucket has now, gives the pass up, or is
\* done with the confirmation.
LEMMA ConfirmStep ==
    ASSUME DutyInv, UNCHANGED respVars, sync_and_confirm \/ submit_sync_confirmation
    PROVE  DutyInv'
  <1>1. TypeOK /\ OnlyKnown /\ LoopsInStep /\ CallsHeld /\ WatchesOwn
    BY DEF DutyInv
  <1>2. UNCHANGED <<chainVars, submit_lock, pool, faults, local_root, held>>
    BY DEF sync_and_confirm, submit_sync_confirmation
  <1>3. Done \in ReplicaStates /\ Done.pc = "select"
    BY DEF Done, ReplicaStates
  <1>4. CASE sync_and_confirm /\ local_root # replica.target
    <2>1. replica' = Done /\ tx' = tx /\ replica.pc = "source"
      BY <1>4 DEF sync_and_confirm
    <2>2. UNCHANGED <<txVars, respVars>>
      BY <1>2, <2>1 DEF txVars
    <2>3. ChallengeMoves
      BY <1>2 DEF ChallengeMoves, chainVars
    <2> QED
      BY <1>1, <1>2, <1>3, <2>1, <2>2, <2>3, ReplicaQuiet, TypeFacts DEF chainVars
  <1>5. CASE ~(sync_and_confirm /\ local_root # replica.target)
    <2>1. PICK r \in Submissions :
              /\ tx' = [tx EXCEPT !["replica"] = r]
              /\ \/ r.pc = "lock" /\ r.call = ConfirmCall(local_root) /\ replica'.pc = "confirm"
                 \/ r.pc = "idle" /\ replica'.pc = "select"
              /\ replica' \in ReplicaStates
              /\ tx["replica"].pc \in {"idle", "ok", "err"}
      <3>1. CASE sync_and_confirm
        <4>1. /\ replica' = [replica EXCEPT !.pc = "confirm"]
              /\ tx' = [tx EXCEPT !["replica"] = Submission(ConfirmCall(replica.target))]
              /\ local_root = replica.target /\ replica.pc = "source"
          BY <1>5, <3>1 DEF sync_and_confirm, Confirming
        <4>2. replica' \in ReplicaStates /\ replica'.pc = "confirm"
          BY <1>1, <4>1, TypeFacts DEF ReplicaStates
        <4>3. local_root \in 0..MaxRoot
          BY <1>1, TypeFacts
        <4>4. /\ Submission(ConfirmCall(local_root)) \in Submissions
              /\ Submission(ConfirmCall(local_root)).pc = "lock"
              /\ Submission(ConfirmCall(local_root)).call = ConfirmCall(local_root)
          BY <4>3, CallFacts, SubmissionFacts
        <4>5. tx["replica"].pc = "idle"
          BY <1>1, <4>1 DEF LoopsInStep
        <4> QED
          BY <4>1, <4>2, <4>4, <4>5
      <3>2. CASE submit_sync_confirmation
        <4>1. /\ replica' = Done /\ tx' = [tx EXCEPT !["replica"] = NoTx]
              /\ tx["replica"].pc \in {"ok", "err"}
          BY <3>2 DEF submit_sync_confirmation, Returned
        <4> QED
          BY <1>3, <4>1, SubmissionFacts
      <3> QED
        BY <3>1, <3>2
    <2>2. /\ tx' \in [Tasks -> Submissions] /\ tx'["replica"] = r
          /\ \A u \in Tasks \ {"replica"} : tx'[u] = tx[u]
          /\ "responder" \in Tasks /\ "replica" \in Tasks
      BY <1>1, <2>1, TxUpdate, TypeFacts
    <2>3. tx'["responder"] = tx["responder"]
      <3>1. "replica" # "responder"
        OBVIOUS
      <3> QED
        BY <2>2, <3>1
    <2>4. LockExact'
      BY <1>1, <1>2, <2>1, <2>2, OwnTxStep DEF Holding
    <2>5. TypeOK'
      BY <1>1, <1>2, <2>1, <2>2, <2>4, TypeFacts
         DEF TypeOK, LockExact, Holding, chainVars, respVars
    <2>6. LoopsInStep'
      BY <1>1, <2>1, <2>2, <2>3 DEF LoopsInStep, respVars
    <2>7. OnlyKnown'
      BY <1>1, <1>2, <2>3 DEF OnlyKnown, Known, chainVars, respVars
    <2>8. CallsHeld'
      <3>1. /\ ConfirmCall(local_root) \in Calls /\ AttestsHeld(ConfirmCall(local_root))
            /\ ConfirmCall(local_root).name = "confirm_replica_sync"
        BY <1>1, CallFacts, TypeFacts DEF AttestsHeld
      <3>2. ASSUME NEW u \in Tasks, tx'[u].pc # "idle"
            PROVE  tx'[u].call \in Calls /\ AttestsHeld(tx'[u].call)
        <4>1. CASE u = "replica"
          BY <2>1, <2>2, <3>1, <3>2, <4>1
        <4>2. CASE u # "replica"
          BY <1>1, <2>2, <3>2, <4>2 DEF CallsHeld
        <4> QED
          BY <4>1, <4>2
      <3>3. \A u \in Tasks : tx'[u].pc # "idle"
                => tx'[u].call \in Calls /\ AttestsHeld(tx[u].call)'
        BY <1>2, <3>2 DEF AttestsHeld
      <3>4. pool' # None => AttestsHeld(pool.call)'
        BY <1>1, <1>2 DEF CallsHeld, AttestsHeld
      <3>5. /\ last_sync' # None => last_sync'.root \in held'
            /\ replica'.pc # "source"
        BY <1>1, <1>2, <2>1 DEF CallsHeld, chainVars
      <3>6. tx'["replica"].pc # "idle" => tx'["replica"].call.name = "confirm_replica_sync"
        BY <2>1, <2>2, <3>1
      <3> QED
        BY <3>3, <3>4, <3>5, <3>6 DEF CallsHeld
    <2>9. WatchesOwn'
      BY <1>1, <1>2, <2>1, <2>2 DEF WatchesOwn
    <2>10. SuccessClosesChallenge'
      BY <1>2, <2>3 DEF DutyInv, SuccessClosesChallenge, Success, chainVars
    <2> QED
      BY <2>5, <2>6, <2>7, <2>8, <2>9, <2>10 DEF DutyInv
  <1> QED
    BY <1>4, <1>5

----------------------------------------------------------------------------
(* The invariant                                                            *)

\* The invariant holds at the start,
LEMMA DutyInvInit == Init => DutyInv
  <1> SUFFICES ASSUME Init PROVE DutyInv
    OBVIOUS
  <1> USE DEF Init, ChainInit, TxInit, ResponderInit, ReplicaInit
  <1>1. Unopened \in ChallengeRecords /\ FALSE \in BOOLEAN
    BY DEF Unopened, ChallengeRecords
  <1>2. challenge \in [Challenges -> ChallengeRecords]
    BY <1>1
  <1>3. NoTx \in Submissions /\ NoTx.pc = "idle"
    BY SubmissionFacts
  <1>4. tx \in [Tasks -> Submissions] /\ \A t \in Tasks : tx[t].pc = "idle"
    BY <1>3
  <1>5. feed \in [events: Seq(Events), lagged: BOOLEAN] /\ Len(feed.events) = 0
        /\ DOMAIN feed.events = {}
    <2>1. <<>> \in Seq(Events) /\ Len(<<>>) = 0 /\ DOMAIN <<>> = {}
      <3>1. <<>> \in Seq(Events) /\ Len(<<>>) = 0
        OBVIOUS
      <3> QED
        BY <3>1
    <2> QED
      BY <1>1, <2>1
  <1>6. /\ responder \in ResponderStates /\ responder.pc = "select"
        /\ DOMAIN responder.todo = {}
    BY <1>1, EmptyList DEF ResponderStates
  <1>7. replica \in ReplicaStates /\ replica.pc = "select"
    BY DEF ReplicaStates
  <1>8. follower \in [up: BOOLEAN, connects: Nat]
    BY <1>1
  <1>9. /\ "responder" \in Tasks /\ "replica" \in Tasks /\ None \notin Tasks
        /\ anchor_block \in 0..MaxBlock /\ snapshot \in 0..MaxRoot /\ faults \in 0..MaxFaults
        /\ local_root \in held /\ held \subseteq 0..MaxRoot
    BY DutiesAssumption, ChainAssumption, FaultsAssumption
  <1>10. TypeOK
    BY <1>2, <1>4, <1>5, <1>6, <1>7, <1>8, <1>9, ChannelAssumption DEF TypeOK
  <1>11. LoopsInStep /\ OnlyKnown /\ CallsHeld /\ WatchesOwn /\ SuccessClosesChallenge
    BY <1>4, <1>5, <1>6, <1>7, <1>9
       DEF LoopsInStep, OnlyKnown, CallsHeld, WatchesOwn, SuccessClosesChallenge, Success
  <1> QED
    BY <1>10, <1>11 DEF DutyInv

\* is kept by every step,
LEMMA DutyInvStep == DutyInv /\ [Next]_vars => DutyInv'
  <1> SUFFICES ASSUME DutyInv, [Next]_vars PROVE DutyInv'
    OBVIOUS
  <1>1. CASE ChainSteps
    BY <1>1, ChainStep
  <1>2. CASE TxSteps
    BY <1>2, AcquireLockStep, SubmitStep, PassEndsStep, RetryStep, LandStep, DropStep
       DEF TxSteps, TxNext
  <1>3. CASE ResponderNext /\ UNCHANGED replicaVars
    <2>1. TRUE \in BOOLEAN /\ FALSE \in BOOLEAN
      OBVIOUS
    <2>2. CASE Pause(TRUE) \/ Pause(FALSE)
      BY <1>3, <2>1, <2>2, PauseStep
    <2>3. CASE ResponderSteps
      BY <1>3, <2>3, RecvEventStep, IntervalTickStep, ReadSteps, RespondStep, GiveUpStep
         DEF ResponderSteps
    <2>4. CASE ReadFails \/ ProofGenerationFailed
      BY <1>3, <2>4, ReadSteps, GiveUpStep
    <2>5. CASE Connect \/ Disconnect \/ \E c \in Challenges : ChallengeCreated(c)
      BY <1>3, <2>5, FollowStep, ChallengeCreatedStep
    <2> QED
      BY <1>3, <2>2, <2>3, <2>4, <2>5 DEF ResponderNext
  <1>4. CASE ReplicaNext /\ UNCHANGED respVars
    BY <1>4, ReplicaLocalStep, ConfirmStep DEF ReplicaNext, ReplicaSteps
  <1>5. CASE UNCHANGED vars
    <2>1. TypeOK /\ CallsHeld
      BY DEF DutyInv
    <2>2. ChallengeMoves
      BY <1>5 DEF ChallengeMoves, vars, chainVars
    <2> QED
      BY <1>5, <2>1, <2>2, ReplicaQuiet, TypeFacts
         DEF vars, chainVars, replicaVars, CallsHeld
  <1> QED
    BY <1>1, <1>2, <1>3, <1>4, <1>5 DEF Next

\* and so holds always.
LEMMA DutyInvAlways == Spec => []DutyInv
  BY DutyInvInit, DutyInvStep, PTL DEF Spec

----------------------------------------------------------------------------
(* Theorems                                                                 *)

\* The types of the tasks' state, the event channel within its capacity, and the
\* submission lock held by exactly the task whose pass is under way.
THEOREM DutiesTypeOK == Spec => []TypeOK
  <1>1. DutyInv => TypeOK
    BY DEF DutyInv
  <1> QED
    BY <1>1, DutyInvAlways, PTL

\* A Success report of the responder is never about an open challenge, also when
\* the retry met ChallengeNotFound, transactions of an earlier pass landed late,
\* or the replica coordinator held the lock in between.
THEOREM SuccessIsAboutClosed == Spec => []SuccessClosesChallenge
  <1>1. DutyInv => SuccessClosesChallenge
    BY DEF DutyInv
  <1> QED
    BY <1>1, DutyInvAlways, PTL

\* What the replica signs, and what the chain records as its last sync, is a root
\* its bucket had.
THEOREM AttestedWasHeld == Spec => []AttestedRootWasHeld
  <1>1. DutyInv => AttestedRootWasHeld
    <2> SUFFICES ASSUME DutyInv PROVE AttestedRootWasHeld
      OBVIOUS
    <2>1. TypeOK /\ CallsHeld
      BY DEF DutyInv
    <2>2. "replica" \in Tasks
      BY <2>1, TypeFacts
    <2> QED
      BY <2>1, <2>2 DEF CallsHeld, AttestsHeld, AttestedRootWasHeld
  <1> QED
    BY <1>1, DutyInvAlways, PTL

=============================================================================
