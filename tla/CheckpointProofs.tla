-------------------------- MODULE CheckpointProofs --------------------------
(***************************************************************************)
(* Proofs about CheckpointManager, for every set of providers, history of   *)
(* the bucket, threshold and bound: the types, that no mark is lost, and    *)
(* that only a checkpoint whose floor was stale can take the committed      *)
(* range backwards.                                                         *)
(***************************************************************************)
EXTENDS CheckpointManager, FiniteSetTheorems, SequenceTheorems, TLAPS

----------------------------------------------------------------------------
(* The inductive invariant                                                  *)

\* Commitment c reaches what provider p had applied at the caller's last mark.
CoversMark(c, p) == NotBehind(c, Commitment(History[mark[p]]))

\* Every signer of t signed at least what it had applied at the mark.
SignersCover(t) == \A p \in DOMAIN t.signed : CoversMark(t.signed[p], p)

NoQueuedMark == \A i \in DOMAIN commands : commands[i] # "MarkDirty"

\* The floor that transaction t's answers were held against.
AboveFloor(t) == t.floor # None => NotBehind(t.commitment, t.floor)

\* Providers only go forward, so they keep what they had applied at the mark.
MarkedIsApplied ==
    mark # None => \A p \in Providers : mark[p] <= position[p]

\* The stages of submit_checkpoint: no answer before the floor is read, a chosen
\* transaction from then on, which is the one in the pool while it is watched.
Stages ==
    /\ attempt.at \in {"providers", "floor"} => DOMAIN attempt.replies = {}
    /\ attempt.at \in {"submit", "watch"} => attempt.chosen \in Transactions
    /\ attempt.at = "watch" => tx = attempt.chosen

\* An attempt under way while no mark waits in the channel began after the last
\* one was taken from it, so its answers cover the mark.
AttemptCoversMark ==
    mark # None /\ NoQueuedMark =>
        /\ attempt.at = "collect" =>
               \A p \in DOMAIN attempt.replies :
                   attempt.replies[p] # None => CoversMark(attempt.replies[p], p)
        /\ attempt.at \in {"submit", "watch"} => SignersCover(attempt.chosen)

\* A transaction left in the pool from before the mark keeps later ones out, so
\* the flag is not cleared while it is there.
PoolCoversMark == mark # None /\ ~MarkPending /\ tx # None => SignersCover(tx)

CheckpointInv ==
    TypeOK /\ MarkedIsApplied /\ Stages /\ AttemptCoversMark /\ PoolCoversMark
           /\ CleanIsCheckpointed

FloorsHeld ==
    /\ attempt.at \in {"submit", "watch"} => AboveFloor(attempt.chosen)
    /\ tx # None => AboveFloor(tx)

----------------------------------------------------------------------------
(* Commitments                                                              *)

\* A position's commitment has natural-number bounds and ends where the range
\* does.
LEMMA CommitmentFacts ==
    ASSUME NEW i \in 1..Len(History)
    PROVE  /\ Commitment(History[i]) \in Commitments
           /\ Commitment(History[i]).start_seq = History[i].start
           /\ End(Commitment(History[i])) = History[i].end
           /\ History[i].start \in Nat /\ History[i].end \in Nat
  <1>1. History[i] \in [start: Nat, end: Nat]
    <2>1. History \in Seq([start: Nat, end: Nat])
      BY HistoryAssumption
    <2> QED
      BY <2>1, ElementOfSeq
  <1>2. Commitment(History[i]) \in Commitments
    BY DEF Commitments
  <1>3. /\ Commitment(History[i]).start_seq = History[i].start
        /\ Commitment(History[i]).leaf_count = History[i].end - History[i].start
    BY DEF Commitment
  <1>4. History[i].start \in Nat /\ History[i].end \in Nat
    BY <1>1
  <1>5. End(Commitment(History[i])) = History[i].end
    BY <1>3, <1>4 DEF End
  <1> QED
    BY <1>2, <1>3, <1>4, <1>5

\* A later position of the bucket is not behind an earlier one.
LEMMA LaterNotBehind ==
    ASSUME NEW i \in 1..Len(History), NEW j \in 1..Len(History), i <= j
    PROVE  NotBehind(Commitment(History[j]), Commitment(History[i]))
  BY CommitmentFacts, HistoryAssumption DEF NotBehind

\* No commitment is behind itself.
LEMMA NotBehindReflexive ==
    ASSUME NEW c \in Commitments
    PROVE  NotBehind(c, c)
  <1>1. PICK i \in 1..Len(History) : c = Commitment(History[i])
    BY DEF Commitments
  <1> QED
    BY <1>1, LaterNotBehind

----------------------------------------------------------------------------
(* Types                                                                    *)

\* A loop without an attempt is well typed.
LEMMA IdleTyped ==
    ASSUME NEW at \in {"select", "providers", "hung", "stopped"}
    PROVE  /\ [Idle EXCEPT !.at = at] \in Attempts
           /\ [Idle EXCEPT !.at = at].at = at
           /\ DOMAIN [Idle EXCEPT !.at = at].replies = {}
           /\ [Idle EXCEPT !.at = at].providers = {}
           /\ Idle \in Attempts /\ Idle.at = "select"
           /\ DOMAIN Idle.replies = {} /\ Idle.providers = {}
  <1>1. [p \in {} |-> None] \in Replies
    <2>1. {} \in SUBSET Providers
      OBVIOUS
    <2>2. [p \in {} |-> None] \in [{} -> Commitments \cup {None}]
      OBVIOUS
    <2> QED
      BY <2>1, <2>2 DEF Replies
  <1> QED
    BY <1>1 DEF Idle, Attempts

\* What the end of an iteration leaves: an idle or stopped loop.
LEMMA EndIterationFacts ==
    ASSUME NEW s \in Statuses, EndIteration(s)
    PROVE  /\ status' \in Statuses
           /\ status'.dirty = s.dirty
           /\ attempt' \in Attempts /\ DOMAIN attempt'.replies = {}
           /\ attempt'.at \in {"select", "stopped"}
  <1>1. MaxFailures \in Nat
    BY ManagerAssumption
  <1>2. s.consecutive_failures \in Nat /\ s.paused \in BOOLEAN
    BY DEF Statuses
  <1>3. (s.paused \/ s.consecutive_failures >= MaxFailures) \in BOOLEAN
    OBVIOUS
  <1>4. /\ status' \in Statuses
        /\ status'.dirty = s.dirty
    BY <1>3 DEF EndIteration, Statuses
  <1> QED
    BY <1>4, IdleTyped DEF EndIteration

\* An attempt's end clears the flag only when its transaction went in.
LEMMA ExecutedFacts ==
    ASSUME status \in Statuses, NEW result, Executed(result)
    PROVE  /\ status' \in Statuses
           /\ result # "Submitted" => status'.dirty = status.dirty
           /\ attempt' \in Attempts /\ DOMAIN attempt'.replies = {}
           /\ attempt'.at \in {"select", "stopped"}
  <1> DEFINE s == [status EXCEPT !.recent = TRUE,
                       !.dirty = @ /\ result # "Submitted",
                       !.consecutive_failures = IF result = "Submitted" THEN 0 ELSE @ + 1]
  <1>1. (status.dirty /\ result # "Submitted") \in BOOLEAN
    OBVIOUS
  <1>2. (IF result = "Submitted" THEN 0 ELSE status.consecutive_failures + 1) \in Nat
    BY DEF Statuses
  <1>3. s \in Statuses
    BY <1>1, <1>2 DEF Statuses
  <1>4. s.dirty = (status.dirty /\ result # "Submitted")
    BY DEF Statuses
  <1>5. EndIteration(s)
    BY DEF Executed
  <1> HIDE DEF s
  <1>6. result # "Submitted" => s.dirty = status.dirty
    BY <1>4 DEF Statuses
  <1> QED
    BY <1>3, <1>5, <1>6, EndIterationFacts

\* What TypeOK says of each variable, for citation.
LEMMA TypeFacts ==
    ASSUME TypeOK
    PROVE  /\ position \in [Providers -> 1..Len(History)]
           /\ written \in 1..Len(History)
           /\ mark \in [Providers -> 1..Len(History)] \cup {None}
           /\ Len(History) \in Nat
           /\ bucket \in [primary_providers: PrimarySets, snapshot: Commitments \cup {None}]
           /\ cache \in (SUBSET Providers) \cup {None}
           /\ status \in Statuses
           /\ commands \in Seq(Commands) /\ Len(commands) <= QueueCapacity
           /\ attempt \in Attempts /\ DOMAIN attempt.replies \subseteq attempt.providers
           /\ tx \in Transactions \cup {None}
           /\ budget \in [commands: 0..MaxCommands, churn: 0..MaxChurn, faults: 0..MaxFaults]
           /\ MaxCommands \in Nat /\ MaxChurn \in Nat /\ MaxFaults \in Nat
           /\ QueueCapacity \in Nat
  <1>1. Len(History) \in Nat
    BY HistoryAssumption
  <1> QED
    BY <1>1, ManagerAssumption DEF TypeOK

\* Faults stay within their bound.
LEMMA FaultType ==
    ASSUME TypeOK, Fault
    PROVE  budget' \in [commands: 0..MaxCommands, churn: 0..MaxChurn, faults: 0..MaxFaults]
  BY TypeFacts DEF Fault

\* A command sent to the loop keeps the channel typed.
LEMMA SendType ==
    ASSUME TypeOK, NEW c \in Commands, Send(c)
    PROVE  /\ commands' \in Seq(Commands) /\ Len(commands') <= QueueCapacity
           /\ budget' \in [commands: 0..MaxCommands, churn: 0..MaxChurn, faults: 0..MaxFaults]
           /\ commands' = Append(commands, c)
  <1>1. /\ commands' \in Seq(Commands)
        /\ Len(commands') = Len(commands) + 1
    BY TypeFacts DEF Send
  <1>2. budget' \in [commands: 0..MaxCommands, churn: 0..MaxChurn, faults: 0..MaxFaults]
    BY TypeFacts, SMTT(30) DEF Send
  <1> QED
    BY <1>1, <1>2, TypeFacts, SMTT(30) DEF Send

\* The commands the loop takes from the channel.
LEMMA RecvCommandFacts ==
    ASSUME TypeOK, RecvCommand
    PROVE  /\ commands' \in Seq(Commands) /\ Len(commands') <= QueueCapacity
           /\ commands' = Tail(commands) /\ commands # <<>>
           /\ status' \in Statuses
           /\ attempt' \in Attempts /\ DOMAIN attempt'.replies = {}
           /\ attempt'.at \in {"select", "providers", "stopped"}
           /\ status'.dirty = (status.dirty \/ Head(commands) = "MarkDirty")
  <1>1. /\ commands \in Seq(Commands) /\ commands # <<>> /\ commands' = Tail(commands)
        /\ Len(commands) <= QueueCapacity
    BY TypeFacts DEF RecvCommand
  <1>2. commands' \in Seq(Commands) /\ Len(commands') <= QueueCapacity
    BY <1>1, TypeFacts
  <1>3. Head(commands) \in Commands
    BY <1>1
  <1>4. status \in Statuses
    BY TypeFacts
  <1>5. CASE Head(commands) = "SubmitNow"
    <2>1. StartCheckpoint
      BY <1>5 DEF RecvCommand
    <2>2. /\ attempt' \in Attempts /\ DOMAIN attempt'.replies = {}
          /\ attempt'.at = "providers"
      BY <2>1, IdleTyped DEF StartCheckpoint
    <2>3. status' = status /\ status.dirty \in BOOLEAN
      BY <2>1, <1>4 DEF StartCheckpoint, Statuses
    <2>4. status'.dirty = (status.dirty \/ Head(commands) = "MarkDirty")
      BY <2>3, <1>5
    <2> QED
      BY <1>1, <1>2, <1>4, <2>2, <2>3, <2>4
  <1>6. CASE Head(commands) # "SubmitNow"
    <2>1. PICK s \in Statuses : EndIteration(s) /\ s.dirty = (status.dirty \/ Head(commands) = "MarkDirty")
      <3>1. CASE Head(commands) = "MarkDirty"
        <4>1. EndIteration([status EXCEPT !.dirty = TRUE])
          BY <3>1 DEF RecvCommand
        <4>2. [status EXCEPT !.dirty = TRUE] \in Statuses /\ [status EXCEPT !.dirty = TRUE].dirty = TRUE
          BY <1>4 DEF Statuses
        <4> QED
          BY <4>1, <4>2, <3>1
      <3>2. CASE Head(commands) = "Pause"
        <4> DEFINE u == [status EXCEPT !.paused = TRUE]
        <4>1. EndIteration(u)
          BY <3>2 DEF RecvCommand
        <4>2. /\ u \in Statuses
              /\ u.dirty = status.dirty
              /\ status.dirty \in BOOLEAN
          BY <1>4 DEF Statuses
        <4>3. (status.dirty \/ Head(commands) = "MarkDirty") = status.dirty
          BY <4>2, <3>2
        <4> HIDE DEF u
        <4> QED
          BY <4>1, <4>2, <4>3
      <3>3. CASE Head(commands) = "Resume"
        <4> DEFINE u == [status EXCEPT !.paused = FALSE]
        <4>1. EndIteration(u)
          BY <3>3 DEF RecvCommand
        <4>2. /\ u \in Statuses
              /\ u.dirty = status.dirty
              /\ status.dirty \in BOOLEAN
          BY <1>4 DEF Statuses
        <4>3. (status.dirty \/ Head(commands) = "MarkDirty") = status.dirty
          BY <4>2, <3>3
        <4> HIDE DEF u
        <4> QED
          BY <4>1, <4>2, <4>3
      <3>4. CASE Head(commands) = "Stop"
        <4> DEFINE u == [status EXCEPT !.running = FALSE]
        <4>1. EndIteration(u)
          BY <3>4 DEF RecvCommand
        <4>2. /\ u \in Statuses
              /\ u.dirty = status.dirty
              /\ status.dirty \in BOOLEAN
          BY <1>4 DEF Statuses
        <4>3. (status.dirty \/ Head(commands) = "MarkDirty") = status.dirty
          BY <4>2, <3>4
        <4> HIDE DEF u
        <4> QED
          BY <4>1, <4>2, <4>3
      <3> QED
        BY <1>3, <1>6, <3>1, <3>2, <3>3, <3>4 DEF Commands
    <2> QED
      BY <2>1, <1>1, <1>2, EndIterationFacts
  <1> QED
    BY <1>5, <1>6

\* A tick starts an attempt or changes nothing but the pause.
LEMMA IntervalTickFacts ==
    ASSUME TypeOK, IntervalTick
    PROVE  /\ status' \in Statuses /\ status'.dirty = status.dirty
           /\ attempt' \in Attempts /\ DOMAIN attempt'.replies = {}
           /\ attempt'.at \in {"select", "providers", "stopped"}
  <1>1. CASE StartCheckpoint
    BY <1>1, IdleTyped, TypeFacts DEF StartCheckpoint
  <1>2. CASE EndIteration(status)
    BY <1>2, EndIterationFacts, TypeFacts
  <1> QED
    BY <1>1, <1>2 DEF IntervalTick

\* The list of providers an attempt goes on with, or the attempt's end.
LEMMA GetProvidersFacts ==
    ASSUME TypeOK, get_providers
    PROVE  /\ cache' \in (SUBSET Providers) \cup {None}
           /\ status' \in Statuses /\ status'.dirty = status.dirty
           /\ attempt' \in Attempts
           /\ attempt'.at \in {"floor", "select", "stopped"}
           /\ attempt'.replies = attempt.replies \/ DOMAIN attempt'.replies = {}
           /\ DOMAIN attempt.replies = {} => DOMAIN attempt'.replies \subseteq attempt'.providers
  <1>0. \A P \in Listings : P \in SUBSET Providers
    <2>1. bucket.primary_providers \in SUBSET Providers
      BY TypeFacts, ManagerAssumption
    <2>2. cache # None => cache \in SUBSET Providers
      BY TypeFacts
    <2>3. SUBSET status.provider_endpoints \subseteq SUBSET Providers
      BY TypeFacts, ManagerAssumption DEF Statuses
    <2> QED
      BY <2>1, <2>2, <2>3 DEF Listings
  <1>1. PICK P \in SUBSET Providers :
            IF P = {} THEN Executed("TransactionFailed") /\ UNCHANGED cache
                      ELSE /\ cache' = P
                           /\ attempt' = [attempt EXCEPT !.at = "floor", !.providers = P]
                           /\ UNCHANGED status
    BY <1>0 DEF get_providers
  <1>2. CASE P = {}
    BY <1>1, <1>2, ExecutedFacts, TypeFacts
  <1>3. CASE P # {}
    <2>1. attempt' = [attempt EXCEPT !.at = "floor", !.providers = P] /\ UNCHANGED status /\ cache' = P
      BY <1>1, <1>3
    <2>2. /\ attempt' \in Attempts /\ attempt'.at = "floor"
          /\ attempt'.replies = attempt.replies
      BY <2>1, TypeFacts DEF Attempts
    <2> QED
      BY <2>1, <2>2, TypeFacts
  <1> QED
    BY <1>2, <1>3

\* One provider's answer joins the ones collected so far.
LEMMA QueryFacts ==
    ASSUME TypeOK, NEW p \in Providers, query_provider_commitment(p)
    PROVE  /\ attempt' \in Attempts /\ attempt'.at = "collect"
           /\ DOMAIN attempt'.replies \subseteq attempt'.providers
           /\ DOMAIN attempt'.replies = DOMAIN attempt.replies \cup {p}
           /\ \A q \in DOMAIN attempt.replies \ {p} : attempt'.replies[q] = attempt.replies[q]
           /\ attempt'.replies[p] \in {Commitment(History[position[p]]), None}
  <1>1. PICK r \in {Commitment(History[position[p]]), None} :
            attempt' = [attempt EXCEPT
                !.replies = [q \in DOMAIN @ \cup {p} |-> IF q = p THEN r ELSE @[q]]]
    BY DEF query_provider_commitment
  <1> DEFINE R == [q \in DOMAIN attempt.replies \cup {p} |-> IF q = p THEN r ELSE attempt.replies[q]]
  <1>2. position[p] \in 1..Len(History)
    BY TypeFacts
  <1>3. r \in Commitments \cup {None}
    BY <1>2, CommitmentFacts
  <1>4. PICK P \in SUBSET Providers : attempt.replies \in [P -> Commitments \cup {None}]
    BY TypeFacts DEF Attempts, Replies
  <1>5. R \in [P \cup {p} -> Commitments \cup {None}] /\ P \cup {p} \in SUBSET Providers
    BY <1>3, <1>4
  <1>6. R \in Replies
    BY <1>5 DEF Replies
  <1>7. /\ DOMAIN R = DOMAIN attempt.replies \cup {p}
        /\ \A q \in DOMAIN attempt.replies \ {p} : R[q] = attempt.replies[q]
        /\ R[p] = r
    OBVIOUS
  <1>8. attempt' = [attempt EXCEPT !.replies = R]
    BY <1>1
  <1> HIDE DEF R
  <1>9. /\ attempt' \in Attempts /\ attempt'.replies = R
        /\ attempt'.at = attempt.at /\ attempt'.providers = attempt.providers
    BY <1>6, <1>8, TypeFacts DEF Attempts
  <1>10. attempt.at = "collect" /\ p \in attempt.providers
    BY DEF query_provider_commitment
  <1> QED
    BY <1>3, <1>7, <1>9, <1>10, TypeFacts

\* An answer that counts is a commitment, and not behind the floor.
LEMMA UsableFacts ==
    ASSUME TypeOK, DOMAIN attempt.replies = attempt.providers, NEW p \in Usable
    PROVE  /\ p \in Providers /\ p \in DOMAIN attempt.replies
           /\ attempt.replies[p] \in Commitments /\ attempt.replies[p] # None
           /\ attempt.floor # None => NotBehind(attempt.replies[p], attempt.floor)
  <1>1. PICK P \in SUBSET Providers : attempt.replies \in [P -> Commitments \cup {None}]
    BY TypeFacts DEF Attempts, Replies
  <1>2. p \in attempt.providers /\ attempt.replies[p] # None
    BY DEF Usable
  <1>3. commitment_within_floor(attempt.replies[p], attempt.floor)
    BY DEF Usable
  <1>4. p \in P
    BY <1>1, <1>2
  <1> QED
    BY <1>1, <1>2, <1>3, <1>4 DEF commitment_within_floor

\* Once all answers are in, the attempt ends, or goes on with a transaction made
\* of answers that count.
LEMMA CollectFacts ==
    ASSUME TypeOK, collect_commitments
    PROVE  /\ tx' = tx /\ budget' = budget
           /\ status' \in Statuses /\ status'.dirty = status.dirty
           /\ attempt' \in Attempts
           /\ DOMAIN attempt'.replies \subseteq attempt'.providers
           /\ \/ attempt'.at \in {"select", "stopped"} /\ DOMAIN attempt'.replies = {}
              \/ /\ attempt'.at = "submit" /\ attempt'.chosen \in Transactions
                 /\ attempt'.chosen.floor = attempt.floor
                 /\ \E first \in Usable : attempt'.chosen.commitment = attempt.replies[first]
                 /\ DOMAIN attempt'.chosen.signed \subseteq Usable
                 /\ \A p \in DOMAIN attempt'.chosen.signed :
                        attempt'.chosen.signed[p] = attempt.replies[p]
  <1>1. attempt.at = "collect" /\ DOMAIN attempt.replies = attempt.providers
    BY DEF collect_commitments
  <1>2. CASE \E result \in {"ProvidersUnreachable", "InsufficientConsensus"} :
                 Executed(result) /\ UNCHANGED <<tx, budget>>
    <2>1. PICK result : /\ result \in {"ProvidersUnreachable", "InsufficientConsensus"}
                        /\ Executed(result) /\ UNCHANGED <<tx, budget>>
      BY <1>2
    <2>2. result # "Submitted"
      BY <2>1
    <2> QED
      BY <2>1, <2>2, ExecutedFacts, TypeFacts
  <1>3. CASE \E root \in MajorityRoots : \E first \in Agreeing(root) :
                 /\ attempt' = [attempt EXCEPT !.at = "submit", !.chosen =
                        [commitment |-> attempt.replies[first],
                         signed |-> [p \in Agreeing(root) |-> attempt.replies[p]],
                         floor |-> attempt.floor]]
                 /\ UNCHANGED <<status, tx, budget>>
    <2>0. PICK root \in MajorityRoots : \E first \in Agreeing(root) :
                 /\ attempt' = [attempt EXCEPT !.at = "submit", !.chosen =
                        [commitment |-> attempt.replies[first],
                         signed |-> [p \in Agreeing(root) |-> attempt.replies[p]],
                         floor |-> attempt.floor]]
                 /\ UNCHANGED <<status, tx, budget>>
      BY <1>3
    <2>1. PICK first \in Agreeing(root) :
                 /\ attempt' = [attempt EXCEPT !.at = "submit", !.chosen =
                        [commitment |-> attempt.replies[first],
                         signed |-> [p \in Agreeing(root) |-> attempt.replies[p]],
                         floor |-> attempt.floor]]
                 /\ UNCHANGED <<status, tx, budget>>
      BY <2>0
    <2> DEFINE t == [commitment |-> attempt.replies[first],
                     signed |-> [p \in Agreeing(root) |-> attempt.replies[p]],
                     floor |-> attempt.floor]
    <2>2. Agreeing(root) \subseteq Usable
      BY DEF Agreeing
    <2>3. \A p \in Agreeing(root) : p \in Providers /\ attempt.replies[p] \in Commitments
      BY <1>1, <2>2, UsableFacts
    <2>4. [p \in Agreeing(root) |-> attempt.replies[p]]
              \in UNION {[P -> Commitments] : P \in SUBSET Providers}
      <3>1. Agreeing(root) \in SUBSET Providers
        BY <2>3
      <3>2. [p \in Agreeing(root) |-> attempt.replies[p]] \in [Agreeing(root) -> Commitments]
        BY <2>3
      <3> QED
        BY <3>1, <3>2
    <2>5. attempt.floor \in Commitments \cup {None}
      BY TypeFacts DEF Attempts
    <2>6. t \in Transactions
      BY <2>3, <2>4, <2>5 DEF Transactions
    <2>7. /\ t.commitment = attempt.replies[first] /\ t.floor = attempt.floor
          /\ DOMAIN t.signed = Agreeing(root)
          /\ \A p \in Agreeing(root) : t.signed[p] = attempt.replies[p]
      OBVIOUS
    <2>8. attempt' = [attempt EXCEPT !.at = "submit", !.chosen = t]
      BY <2>1
    <2> HIDE DEF t
    <2>9. /\ attempt' \in Attempts /\ attempt'.at = "submit" /\ attempt'.chosen = t
          /\ attempt'.replies = attempt.replies /\ attempt'.providers = attempt.providers
      BY <2>6, <2>8, TypeFacts DEF Attempts
    <2> QED
      BY <2>1, <2>2, <2>6, <2>7, <2>9, TypeFacts
  <1> QED
    BY <1>2, <1>3 DEF collect_commitments

\* An attempt that waits for ever has nothing left.
LEMMA HangFacts ==
    ASSUME RequestHangs \/ WatchHangs
    PROVE  /\ attempt' \in Attempts /\ attempt'.at = "hung"
           /\ DOMAIN attempt'.replies = {}
  <1>1. attempt' = [Idle EXCEPT !.at = "hung"]
    BY DEF RequestHangs, WatchHangs
  <1> QED
    BY <1>1, IdleTyped

\* What inclusion leaves on chain: the old snapshot or the transaction's.
LEMMA CheckpointFacts ==
    ASSUME TypeOK, tx # None, bucket' = checkpoint(bucket, tx)
    PROVE  /\ bucket' \in [primary_providers: PrimarySets, snapshot: Commitments \cup {None}]
           /\ tx \in Transactions /\ tx.commitment \in Commitments
           /\ Accepts(bucket, tx) => bucket'.snapshot = tx.commitment
           /\ ~Accepts(bucket, tx) => bucket' = bucket
  <1>1. tx \in Transactions
    BY TypeFacts
  <1>2. tx.commitment \in Commitments
    BY <1>1 DEF Transactions
  <1> QED
    BY <1>1, <1>2, TypeFacts DEF checkpoint

\* Every step keeps the types.
LEMMA TypeStep ==
    TypeOK /\ Stages /\ [Next]_vars => TypeOK'
  <1> SUFFICES ASSUME TypeOK, Stages, [Next]_vars PROVE TypeOK'
    OBVIOUS
  <1>1. ASSUME Write PROVE TypeOK'
    BY <1>1, TypeFacts DEF Write, TypeOK
  <1>2. ASSUME NEW p \in Providers, Apply(p) PROVE TypeOK'
    BY <1>2, TypeFacts DEF Apply, TypeOK
  <1>3. ASSUME ChangePrimaries PROVE TypeOK'
    <2>0. PICK P \in PrimarySets : bucket' = [bucket EXCEPT !.primary_providers = P]
      BY <1>3 DEF ChangePrimaries
    <2>1. bucket' \in [primary_providers: PrimarySets, snapshot: Commitments \cup {None}]
      BY <2>0, TypeFacts
    <2>2. budget' \in [commands: 0..MaxCommands, churn: 0..MaxChurn, faults: 0..MaxFaults]
      <3>1. budget.churn > 0 /\ budget' = [budget EXCEPT !.churn = @ - 1]
        BY <1>3 DEF ChangePrimaries
      <3> QED
        BY <3>1, TypeFacts, SMTT(30)
    <2> QED
      BY <1>3, <2>1, <2>2, TypeFacts DEF ChangePrimaries, TypeOK
  <1>4. ASSUME NEW c \in Commands, Request(c) PROVE TypeOK'
    BY <1>4, SendType, TypeFacts DEF Request, TypeOK
  <1>5. ASSUME mark_dirty PROVE TypeOK'
    BY <1>5, SendType, TypeFacts DEF mark_dirty, TypeOK, Commands
  <1>6. ASSUME stop PROVE TypeOK'
    <2>1. status' \in Statuses
      BY <1>6, TypeFacts DEF stop, Statuses
    <2> QED
      BY <1>6, <2>1, SendType, TypeFacts DEF stop, TypeOK, Commands
  <1>7. ASSUME invalidate_cache PROVE TypeOK'
    BY <1>7, TypeFacts DEF invalidate_cache, TypeOK
  <1>8. ASSUME IntervalTick PROVE TypeOK'
    BY <1>8, IntervalTickFacts, TypeFacts DEF IntervalTick, TypeOK
  <1>9. ASSUME RetryDelayElapses PROVE TypeOK'
    <2>1. status' \in Statuses
      BY <1>9, TypeFacts DEF RetryDelayElapses, Statuses
    <2> QED
      BY <1>9, <2>1, TypeFacts DEF RetryDelayElapses, TypeOK
  <1>10. ASSUME RecvCommand PROVE TypeOK'
    BY <1>10, RecvCommandFacts, TypeFacts DEF RecvCommand, TypeOK
  <1>11. ASSUME get_providers PROVE TypeOK'
    <2>1. DOMAIN attempt.replies = {}
      BY <1>11 DEF Stages, get_providers
    <2> QED
      BY <1>11, <2>1, GetProvidersFacts, TypeFacts DEF get_providers, TypeOK
  <1>12. ASSUME snapshot_floor PROVE TypeOK'
    <2>1. /\ attempt' \in Attempts /\ attempt'.replies = attempt.replies
          /\ attempt'.providers = attempt.providers
      BY <1>12, TypeFacts DEF snapshot_floor, Attempts
    <2> QED
      BY <1>12, <2>1, TypeFacts DEF snapshot_floor, TypeOK
  <1>13. ASSUME NEW p \in Providers, query_provider_commitment(p) PROVE TypeOK'
    BY <1>13, QueryFacts, TypeFacts DEF query_provider_commitment, TypeOK
  <1>14. ASSUME collect_commitments PROVE TypeOK'
    BY <1>14, CollectFacts, TypeFacts DEF collect_commitments, TypeOK
  <1>15. ASSUME submit_commitment_onchain PROVE TypeOK'
    <2>1. CASE tx = None
      <3>1. /\ attempt' \in Attempts /\ attempt'.replies = attempt.replies
            /\ attempt'.providers = attempt.providers
            /\ tx' \in Transactions \cup {None}
        BY <1>15, <2>1, TypeFacts DEF submit_commitment_onchain, Attempts
      <3> QED
        BY <1>15, <2>1, <3>1, TypeFacts DEF submit_commitment_onchain, TypeOK
    <2>2. CASE tx # None
      <3>1. Executed("TransactionFailed") /\ tx' = tx
        BY <1>15, <2>2 DEF submit_commitment_onchain
      <3> QED
        BY <1>15, <3>1, ExecutedFacts, TypeFacts DEF submit_commitment_onchain, TypeOK
    <2> QED
      BY <2>1, <2>2
  <1>16. ASSUME ReadFails PROVE TypeOK'
    BY <1>16, FaultType, ExecutedFacts, TypeFacts DEF ReadFails, TypeOK
  <1>17. ASSUME SubmissionFails PROVE TypeOK'
    BY <1>17, FaultType, ExecutedFacts, TypeFacts DEF SubmissionFails, TypeOK
  <1>18. ASSUME Finalize PROVE TypeOK'
    <2>1. CASE attempt.at = "watch"
      <3>1. PICK result : Executed(result)
        BY <1>18, <2>1 DEF Finalize
      <3> QED
        BY <1>18, <3>1, CheckpointFacts, ExecutedFacts, TypeFacts DEF Finalize, TypeOK
    <2>2. CASE attempt.at # "watch"
      BY <1>18, <2>2, CheckpointFacts, TypeFacts DEF Finalize, TypeOK
    <2> QED
      BY <2>1, <2>2
  <1>19. ASSUME Drop PROVE TypeOK'
    <2>1. CASE attempt.at = "watch"
      BY <1>19, <2>1, FaultType, ExecutedFacts, TypeFacts DEF Drop, TypeOK
    <2>2. CASE attempt.at # "watch"
      BY <1>19, <2>2, FaultType, TypeFacts DEF Drop, TypeOK
    <2> QED
      BY <2>1, <2>2
  <1>20. ASSUME RequestHangs \/ WatchHangs PROVE TypeOK'
    BY <1>20, HangFacts, TypeFacts DEF RequestHangs, WatchHangs, TypeOK
  <1>21. ASSUME UNCHANGED vars PROVE TypeOK'
    BY <1>21 DEF vars, TypeOK
  <1> QED
    BY <1>1, <1>2, <1>3, <1>4, <1>5, <1>6, <1>7, <1>8, <1>9, <1>10, <1>11, <1>12, <1>13,
       <1>14, <1>15, <1>16, <1>17, <1>18, <1>19, <1>20, <1>21 DEF Next, LoopStep

----------------------------------------------------------------------------
(* The marks                                                                *)

\* A pending mark is in the flag or in the channel.
LEMMA MarkPendingSplit == ~MarkPending <=> ~status.dirty /\ NoQueuedMark
  BY DEF MarkPending, NoQueuedMark

\* Sending adds one command at the end of the channel.
LEMMA SentMarks ==
    ASSUME TypeOK, NEW c \in Commands, commands' = Append(commands, c)
    PROVE  NoQueuedMark' <=> NoQueuedMark /\ c # "MarkDirty"
  <1>1. /\ DOMAIN commands' = 1 .. (Len(commands) + 1)
        /\ DOMAIN commands = 1 .. Len(commands) /\ Len(commands) \in Nat
        /\ commands'[Len(commands) + 1] = c
        /\ \A i \in 1..Len(commands) : commands'[i] = commands[i]
    BY TypeFacts
  <1>2. NoQueuedMark /\ c # "MarkDirty" => NoQueuedMark'
    BY <1>1 DEF NoQueuedMark
  <1>3. NoQueuedMark' => NoQueuedMark /\ c # "MarkDirty"
    BY <1>1 DEF NoQueuedMark
  <1> QED
    BY <1>2, <1>3

\* Taking the first command leaves the others.
LEMMA ReceivedMarks ==
    ASSUME TypeOK, commands # <<>>, commands' = Tail(commands)
    PROVE  NoQueuedMark' /\ Head(commands) # "MarkDirty" => NoQueuedMark
  <1>1. /\ Len(commands) \in Nat /\ Len(commands) > 0
        /\ DOMAIN commands = 1 .. Len(commands)
        /\ Head(commands) = commands[1]
        /\ DOMAIN commands' = 1 .. (Len(commands) - 1)
        /\ \A i \in 1..(Len(commands) - 1) : commands'[i] = commands[i + 1]
    BY TypeFacts
  <1> SUFFICES ASSUME NoQueuedMark', Head(commands) # "MarkDirty",
                      NEW i \in 1..Len(commands)
               PROVE  commands[i] # "MarkDirty"
    BY <1>1 DEF NoQueuedMark
  <1>2. CASE i = 1
    BY <1>1, <1>2
  <1>3. CASE i # 1
    <2>1. i - 1 \in 1..(Len(commands) - 1) /\ (i - 1) + 1 = i
      BY <1>1, <1>3
    <2> QED
      BY <1>1, <2>1 DEF NoQueuedMark
  <1> QED
    BY <1>2, <1>3

----------------------------------------------------------------------------
(* The steps                                                                *)

\* A step that ends an attempt, or begins one, without a checkpoint landing.
LEMMA BetweenAttempts ==
    ASSUME CheckpointInv,
           attempt'.at \in {"select", "providers", "floor", "hung", "stopped"},
           DOMAIN attempt'.replies = {},
           tx' = tx \/ tx' = None,
           bucket'.snapshot = bucket.snapshot,
           UNCHANGED <<position, written, mark>>,
           ~MarkPending' => ~MarkPending
    PROVE  MarkedIsApplied' /\ Stages' /\ AttemptCoversMark' /\ PoolCoversMark'
           /\ CleanIsCheckpointed'
  <1>1. MarkedIsApplied'
    BY DEF CheckpointInv, MarkedIsApplied
  <1>2. Stages'
    BY DEF Stages
  <1>3. AttemptCoversMark'
    BY DEF AttemptCoversMark
  <1>4. PoolCoversMark'
    BY DEF CheckpointInv, PoolCoversMark, SignersCover, CoversMark
  <1>5. CleanIsCheckpointed'
    BY DEF CheckpointInv, CleanIsCheckpointed, Covered, Checkpointed
  <1> QED
    BY <1>1, <1>2, <1>3, <1>4, <1>5

\* A step outside the attempt: the caller, the providers, the primaries.
LEMMA OutsideAttempt ==
    ASSUME CheckpointInv,
           UNCHANGED <<attempt, tx, mark>>, bucket'.snapshot = bucket.snapshot,
           MarkedIsApplied', NoQueuedMark' => NoQueuedMark,
           status'.dirty = status.dirty
    PROVE  MarkedIsApplied' /\ Stages' /\ AttemptCoversMark' /\ PoolCoversMark'
           /\ CleanIsCheckpointed'
  <1>1. Stages'
    BY DEF CheckpointInv, Stages
  <1>2. AttemptCoversMark'
    BY DEF CheckpointInv, AttemptCoversMark, SignersCover, CoversMark
  <1>3. ~MarkPending' => ~MarkPending
    BY MarkPendingSplit DEF MarkPending, NoQueuedMark
  <1>4. PoolCoversMark'
    BY <1>3 DEF CheckpointInv, PoolCoversMark, SignersCover, CoversMark
  <1>5. CleanIsCheckpointed'
    BY <1>3 DEF CheckpointInv, CleanIsCheckpointed, Covered, Checkpointed
  <1> QED
    BY <1>1, <1>2, <1>4, <1>5

\* The caller's mark: whatever is under way, the mark is now in the channel.
LEMMA MarkStep ==
    ASSUME CheckpointInv, mark_dirty
    PROVE  MarkedIsApplied' /\ Stages' /\ AttemptCoversMark' /\ PoolCoversMark'
           /\ CleanIsCheckpointed'
  <1>1. TypeOK
    BY DEF CheckpointInv
  <1>2. commands' = Append(commands, "MarkDirty") /\ "MarkDirty" \in Commands
    BY DEF mark_dirty, Send, Commands
  <1>3. ~NoQueuedMark'
    BY <1>1, <1>2, SentMarks
  <1>4. MarkPending'
    BY <1>3 DEF MarkPending, NoQueuedMark
  <1>5. MarkedIsApplied'
    BY <1>1, TypeFacts DEF mark_dirty, MarkedIsApplied
  <1>6. Stages'
    BY DEF CheckpointInv, Stages, mark_dirty
  <1> QED
    BY <1>3, <1>4, <1>5, <1>6 DEF AttemptCoversMark, PoolCoversMark, CleanIsCheckpointed

\* A provider's answer covers every mark the provider had applied.
LEMMA QueryStep ==
    ASSUME CheckpointInv, NEW p \in Providers, query_provider_commitment(p)
    PROVE  MarkedIsApplied' /\ Stages' /\ AttemptCoversMark' /\ PoolCoversMark'
           /\ CleanIsCheckpointed'
  <1>1. TypeOK
    BY DEF CheckpointInv
  <1>2. UNCHANGED <<position, written, bucket, status, commands, tx, mark>>
    BY DEF query_provider_commitment
  <1>3. MarkedIsApplied' /\ Stages'
    BY <1>1, <1>2, QueryFacts DEF CheckpointInv, MarkedIsApplied, Stages
  <1>4. mark # None => CoversMark(Commitment(History[position[p]]), p)
    <2> SUFFICES ASSUME mark # None PROVE CoversMark(Commitment(History[position[p]]), p)
      OBVIOUS
    <2>1. mark[p] <= position[p]
      BY DEF CheckpointInv, MarkedIsApplied
    <2>2. mark[p] \in 1..Len(History) /\ position[p] \in 1..Len(History)
      BY <1>1, TypeFacts
    <2> QED
      BY <2>1, <2>2, LaterNotBehind DEF CoversMark
  <1>5. AttemptCoversMark'
    <2> SUFFICES ASSUME mark # None, NoQueuedMark', NEW q \in DOMAIN attempt'.replies,
                        attempt'.replies[q] # None
                 PROVE  CoversMark(attempt'.replies[q], q)
      BY <1>1, <1>2, QueryFacts DEF AttemptCoversMark, CoversMark
    <2>1. NoQueuedMark /\ attempt.at = "collect"
      BY <1>2 DEF NoQueuedMark, query_provider_commitment
    <2>2. CASE q = p
      BY <1>1, <1>4, <2>2, QueryFacts
    <2>3. CASE q # p
      <3>1. q \in DOMAIN attempt.replies /\ attempt'.replies[q] = attempt.replies[q]
        BY <1>1, <2>3, QueryFacts
      <3>2. CoversMark(attempt.replies[q], q)
        BY <2>1, <3>1 DEF CheckpointInv, AttemptCoversMark
      <3> QED
        BY <3>1, <3>2
    <2> QED
      BY <2>2, <2>3
  <1>6. PoolCoversMark' /\ CleanIsCheckpointed'
    BY <1>2 DEF CheckpointInv, PoolCoversMark, CleanIsCheckpointed, MarkPending,
                SignersCover, CoversMark, Covered, Checkpointed
  <1> QED
    BY <1>3, <1>5, <1>6

\* What the signers signed are answers, so it covers the mark as they do.
LEMMA CollectStep ==
    ASSUME CheckpointInv, collect_commitments
    PROVE  MarkedIsApplied' /\ Stages' /\ AttemptCoversMark' /\ PoolCoversMark'
           /\ CleanIsCheckpointed'
  <1>1. TypeOK
    BY DEF CheckpointInv
  <1>2. UNCHANGED <<position, written, bucket, commands, tx, mark>>
    BY <1>1, CollectFacts DEF collect_commitments
  <1>3. status'.dirty = status.dirty
    BY <1>1, CollectFacts
  <1>4. ~MarkPending' => ~MarkPending
    BY <1>2, <1>3 DEF MarkPending
  <1>5. CASE attempt'.at \in {"select", "stopped"} /\ DOMAIN attempt'.replies = {}
    BY <1>2, <1>4, <1>5, BetweenAttempts
  <1>6. CASE /\ attempt'.at = "submit" /\ attempt'.chosen \in Transactions
             /\ DOMAIN attempt'.chosen.signed \subseteq Usable
             /\ \A p \in DOMAIN attempt'.chosen.signed :
                    attempt'.chosen.signed[p] = attempt.replies[p]
    <2>1. MarkedIsApplied'
      BY <1>2 DEF CheckpointInv, MarkedIsApplied
    <2>2. Stages'
      BY <1>2, <1>6 DEF Stages
    <2>3. AttemptCoversMark'
      <3> SUFFICES ASSUME mark # None, NoQueuedMark', NEW p \in DOMAIN attempt'.chosen.signed
                   PROVE  CoversMark(attempt'.chosen.signed[p], p)
        BY <1>2, <1>6 DEF AttemptCoversMark, SignersCover, CoversMark
      <3>1. attempt.at = "collect" /\ DOMAIN attempt.replies = attempt.providers
        BY DEF collect_commitments
      <3>2. p \in DOMAIN attempt.replies /\ attempt.replies[p] # None
        BY <1>1, <1>6, <3>1, UsableFacts
      <3>3. NoQueuedMark
        BY <1>2 DEF NoQueuedMark
      <3>4. CoversMark(attempt.replies[p], p)
        BY <3>1, <3>2, <3>3 DEF CheckpointInv, AttemptCoversMark
      <3> QED
        BY <1>6, <3>4
    <2>4. PoolCoversMark' /\ CleanIsCheckpointed'
      BY <1>2, <1>4 DEF CheckpointInv, PoolCoversMark, CleanIsCheckpointed,
                        SignersCover, CoversMark, Covered, Checkpointed
    <2> QED
      BY <2>1, <2>2, <2>3, <2>4
  <1> QED
    BY <1>1, <1>5, <1>6, CollectFacts

\* The transaction joins an empty pool, or the attempt ends.
LEMMA SubmitStep ==
    ASSUME CheckpointInv, submit_commitment_onchain
    PROVE  MarkedIsApplied' /\ Stages' /\ AttemptCoversMark' /\ PoolCoversMark'
           /\ CleanIsCheckpointed'
  <1>1. TypeOK
    BY DEF CheckpointInv
  <1>2. UNCHANGED <<position, written, bucket, commands, mark>> /\ attempt.at = "submit"
    BY DEF submit_commitment_onchain
  <1>3. CASE tx # None
    <2>1. Executed("TransactionFailed") /\ tx' = tx
      BY <1>3 DEF submit_commitment_onchain
    <2>2. status'.dirty = status.dirty
      BY <1>1, <2>1, ExecutedFacts, TypeFacts
    <2>3. ~MarkPending' => ~MarkPending
      BY <1>2, <2>2 DEF MarkPending
    <2> QED
      BY <1>1, <1>2, <2>1, <2>3, ExecutedFacts, TypeFacts, BetweenAttempts
  <1>4. CASE tx = None
    <2>1. /\ tx' = attempt.chosen /\ attempt' = [attempt EXCEPT !.at = "watch"]
          /\ status' = status
      BY <1>4 DEF submit_commitment_onchain
    <2>2. attempt'.at = "watch" /\ attempt'.chosen = attempt.chosen
      BY <1>1, <2>1, TypeFacts DEF Attempts
    <2>3. MarkedIsApplied'
      BY <1>2 DEF CheckpointInv, MarkedIsApplied
    <2>4. Stages'
      BY <1>2, <2>1, <2>2 DEF CheckpointInv, Stages
    <2>5. mark # None /\ NoQueuedMark => SignersCover(attempt.chosen)
      BY <1>2 DEF CheckpointInv, AttemptCoversMark
    <2>6. (NoQueuedMark' => NoQueuedMark) /\ (~MarkPending' => NoQueuedMark)
      BY <1>2 DEF NoQueuedMark, MarkPending
    <2>7. AttemptCoversMark'
      BY <1>2, <2>2, <2>5, <2>6 DEF AttemptCoversMark, SignersCover, CoversMark
    <2>8. PoolCoversMark'
      BY <1>2, <2>1, <2>5, <2>6 DEF PoolCoversMark, SignersCover, CoversMark
    <2>9. CleanIsCheckpointed'
      BY <1>2, <2>1 DEF CheckpointInv, CleanIsCheckpointed, Covered, Checkpointed, MarkPending
    <2> QED
      BY <2>3, <2>4, <2>7, <2>8, <2>9
  <1> QED
    BY <1>3, <1>4

\* A checkpoint that lands covers the mark for each of its signers, and the chain
\* takes none with fewer than min_providers of them.
LEMMA LandedCovers ==
    ASSUME TypeOK, mark # None, tx # None, Accepts(bucket, tx), SignersCover(tx),
           bucket' = checkpoint(bucket, tx), mark' = mark
    PROVE  (Covered # {} /\ Cardinality(Covered) >= MinProviders)'
  <1> DEFINE D == DOMAIN tx.signed
  <1>1. bucket'.snapshot = tx.commitment /\ tx.commitment # None /\ tx \in Transactions
    BY CheckpointFacts, NoneAssumption
  <1>2. D \subseteq Providers
    BY <1>1 DEF Transactions
  <1>3. /\ \A p \in D : tx.signed[p] = tx.commitment
        /\ Cardinality(D) >= MinProviders /\ D # {}
    BY DEF Accepts
  <1>4. \A p \in D : Checkpointed(mark[p])'
    BY <1>1, <1>3 DEF SignersCover, CoversMark, Checkpointed
  <1>5. D \subseteq Covered' /\ Covered' \subseteq Providers
    BY <1>2, <1>4 DEF Covered
  <1>6. IsFiniteSet(Providers) /\ MinProviders \in Nat
    BY ManagerAssumption
  <1>7. IsFiniteSet(Covered')
    BY <1>5, <1>6, FS_Subset
  <1>8. IsFiniteSet(D) /\ Cardinality(D) <= Cardinality(Covered')
    BY <1>5, <1>7, FS_Subset
  <1>9. Cardinality(D) \in Nat /\ Cardinality(Covered') \in Nat
    BY <1>7, <1>8, FS_CardinalityType
  <1> HIDE DEF D
  <1>10. Covered' # {}
    BY <1>3, <1>5
  <1>11. Cardinality(Covered') >= MinProviders
    BY <1>3, <1>6, <1>8, <1>9
  <1> QED
    BY <1>10, <1>11

\* A checkpoint lands.  If the loop still watches it, it is the attempt's own and
\* covers every mark outside the channel; if not, it is one from before, which
\* covers the mark unless one is pending.
LEMMA FinalizeStep ==
    ASSUME CheckpointInv, Finalize
    PROVE  MarkedIsApplied' /\ Stages' /\ AttemptCoversMark' /\ PoolCoversMark'
           /\ CleanIsCheckpointed'
  <1>1. TypeOK
    BY DEF CheckpointInv
  <1>2. /\ UNCHANGED <<position, written, commands, mark>>
        /\ tx # None /\ tx' = None /\ bucket' = checkpoint(bucket, tx)
    BY DEF Finalize
  <1>3. MarkedIsApplied'
    BY <1>2 DEF CheckpointInv, MarkedIsApplied
  <1>4. PoolCoversMark'
    BY <1>2 DEF PoolCoversMark
  <1>5. NoQueuedMark' => NoQueuedMark
    BY <1>2 DEF NoQueuedMark
  <1>6. ~Accepts(bucket, tx) => bucket' = bucket
    BY <1>1, <1>2, CheckpointFacts
  <1>7. mark # None /\ Accepts(bucket, tx) /\ SignersCover(tx) => CleanIsCheckpointed'
    BY <1>1, <1>2, LandedCovers DEF CleanIsCheckpointed
  <1>8. CASE attempt.at = "watch"
    <2>1. PICK result : Executed(result)
      BY <1>8 DEF Finalize
    <2>2. /\ attempt'.at \in {"select", "stopped"} /\ DOMAIN attempt'.replies = {}
      BY <1>1, <2>1, ExecutedFacts, TypeFacts
    <2>3. Stages' /\ AttemptCoversMark'
      BY <2>2 DEF Stages, AttemptCoversMark
    <2>4. CASE Accepts(bucket, tx)
      <3>1. tx = attempt.chosen
        BY <1>8 DEF CheckpointInv, Stages
      <3>2. mark # None /\ NoQueuedMark => SignersCover(tx)
        BY <1>8, <3>1 DEF CheckpointInv, AttemptCoversMark
      <3>3. ~MarkPending' => NoQueuedMark
        BY <1>2 DEF MarkPending, NoQueuedMark
      <3>4. CleanIsCheckpointed'
        BY <1>2, <1>7, <2>4, <3>2, <3>3 DEF CleanIsCheckpointed
      <3> QED
        BY <1>3, <1>4, <2>3, <3>4
    <2>5. CASE ~Accepts(bucket, tx)
      <3>1. Executed("TransactionFailed")
        BY <1>8, <2>5 DEF Finalize
      <3>2. status'.dirty = status.dirty
        BY <1>1, <3>1, ExecutedFacts, TypeFacts
      <3>3. bucket' = bucket
        BY <1>6, <2>5
      <3>4. CleanIsCheckpointed'
        BY <1>2, <3>2, <3>3 DEF CheckpointInv, CleanIsCheckpointed, Covered, Checkpointed, MarkPending
      <3> QED
        BY <1>3, <1>4, <2>3, <3>4
    <2> QED
      BY <2>4, <2>5
  <1>9. CASE attempt.at # "watch"
    <2>1. UNCHANGED <<status, attempt>>
      BY <1>9 DEF Finalize
    <2>2. Stages'
      BY <1>9, <2>1 DEF CheckpointInv, Stages
    <2>3. AttemptCoversMark'
      BY <1>2, <1>5, <2>1 DEF CheckpointInv, AttemptCoversMark, SignersCover, CoversMark
    <2>4. ~MarkPending' => ~MarkPending
      BY <1>2, <2>1 DEF MarkPending
    <2>5. CASE ~Accepts(bucket, tx)
      <3>1. CleanIsCheckpointed'
        BY <1>2, <1>6, <2>4, <2>5 DEF CheckpointInv, CleanIsCheckpointed, Covered, Checkpointed
      <3> QED
        BY <1>3, <1>4, <2>2, <2>3, <3>1
    <2>6. CASE Accepts(bucket, tx)
      <3>1. mark # None /\ ~MarkPending' => SignersCover(tx)
        BY <1>2, <2>4 DEF CheckpointInv, PoolCoversMark
      <3>2. CleanIsCheckpointed'
        BY <1>2, <1>7, <2>6, <3>1 DEF CleanIsCheckpointed
      <3> QED
        BY <1>3, <1>4, <2>2, <2>3, <3>2
    <2> QED
      BY <2>5, <2>6
  <1> QED
    BY <1>8, <1>9

\* Every step keeps the invariant,
LEMMA CheckpointInvStep ==
    CheckpointInv /\ [Next]_vars => CheckpointInv'
  <1> SUFFICES ASSUME CheckpointInv, [Next]_vars PROVE CheckpointInv'
    OBVIOUS
  <1> DEFINE Kept == MarkedIsApplied' /\ Stages' /\ AttemptCoversMark' /\ PoolCoversMark'
                     /\ CleanIsCheckpointed'
  <1>0. TypeOK /\ MarkedIsApplied /\ Stages
    BY DEF CheckpointInv
  <1>1. ASSUME Write PROVE Kept
    <2>1. MarkedIsApplied'
      BY <1>0, <1>1, TypeFacts DEF Write, MarkedIsApplied
    <2> QED
      BY <1>1, <2>1, OutsideAttempt DEF Write, NoQueuedMark
  <1>2. ASSUME NEW p \in Providers, Apply(p) PROVE Kept
    <2>1. MarkedIsApplied'
      <3> SUFFICES ASSUME mark # None, NEW q \in Providers
                   PROVE  mark[q] <= position'[q]
        BY <1>2 DEF Apply, MarkedIsApplied
      <3>1. position[q] \in Nat /\ position'[q] \in {position[q], position[q] + 1}
        BY <1>0, <1>2, TypeFacts DEF Apply
      <3>2. mark[q] \in Nat
        BY <1>0, TypeFacts
      <3>3. mark[q] <= position[q]
        BY <1>0 DEF MarkedIsApplied
      <3> QED
        BY <3>1, <3>2, <3>3
    <2> QED
      BY <1>2, <2>1, OutsideAttempt DEF Apply, NoQueuedMark
  <1>3. ASSUME ChangePrimaries PROVE Kept
    <2>0. PICK P \in PrimarySets : bucket' = [bucket EXCEPT !.primary_providers = P]
      BY <1>3 DEF ChangePrimaries
    <2>1. bucket'.snapshot = bucket.snapshot
      BY <1>0, <2>0, TypeFacts
    <2>2. MarkedIsApplied'
      BY <1>0, <1>3 DEF ChangePrimaries, MarkedIsApplied
    <2> QED
      BY <1>3, <2>1, <2>2, OutsideAttempt DEF ChangePrimaries, NoQueuedMark
  <1>4. ASSUME NEW c \in Commands, Request(c) PROVE Kept
    <2>1. NoQueuedMark' => NoQueuedMark
      BY <1>0, <1>4, SentMarks DEF Request, Send
    <2>2. MarkedIsApplied'
      BY <1>0, <1>4 DEF Request, MarkedIsApplied
    <2> QED
      BY <1>4, <2>1, <2>2, OutsideAttempt DEF Request
  <1>5. ASSUME mark_dirty PROVE Kept
    BY <1>5, MarkStep
  <1>6. ASSUME stop PROVE Kept
    <2>1. NoQueuedMark' => NoQueuedMark
      BY <1>0, <1>6, SentMarks DEF stop, Send, Commands
    <2>2. MarkedIsApplied'
      BY <1>0, <1>6 DEF stop, MarkedIsApplied
    <2>3. status'.dirty = status.dirty
      BY <1>0, <1>6, TypeFacts DEF stop, Statuses
    <2> QED
      BY <1>6, <2>1, <2>2, <2>3, OutsideAttempt DEF stop
  <1>7. ASSUME invalidate_cache PROVE Kept
    <2>1. MarkedIsApplied'
      BY <1>0, <1>7 DEF invalidate_cache, MarkedIsApplied
    <2> QED
      BY <1>7, <2>1, OutsideAttempt DEF invalidate_cache, NoQueuedMark
  <1>8. ASSUME IntervalTick PROVE Kept
    <2>1. ~MarkPending' => ~MarkPending
      BY <1>0, <1>8, IntervalTickFacts DEF IntervalTick, MarkPending
    <2> QED
      BY <1>0, <1>8, <2>1, IntervalTickFacts, BetweenAttempts DEF IntervalTick
  <1>9. ASSUME RetryDelayElapses PROVE Kept
    <2>1. MarkedIsApplied'
      BY <1>0, <1>9 DEF RetryDelayElapses, MarkedIsApplied
    <2>2. status'.dirty = status.dirty
      BY <1>0, <1>9, TypeFacts DEF RetryDelayElapses, Statuses
    <2> QED
      BY <1>9, <2>1, <2>2, OutsideAttempt DEF RetryDelayElapses, NoQueuedMark
  <1>10. ASSUME RecvCommand PROVE Kept
    <2>1. ~MarkPending' => ~MarkPending
      <3>1. NoQueuedMark' /\ Head(commands) # "MarkDirty" => NoQueuedMark
        BY <1>0, <1>10, ReceivedMarks DEF RecvCommand
      <3>2. ~status'.dirty => ~status.dirty /\ Head(commands) # "MarkDirty"
        BY <1>0, <1>10, RecvCommandFacts
      <3> QED
        BY <3>1, <3>2 DEF MarkPending, NoQueuedMark
    <2> QED
      BY <1>0, <1>10, <2>1, RecvCommandFacts, BetweenAttempts DEF RecvCommand
  <1>11. ASSUME get_providers PROVE Kept
    <2>1. DOMAIN attempt.replies = {}
      BY <1>0, <1>11 DEF Stages, get_providers
    <2>2. DOMAIN attempt'.replies = {}
      BY <1>0, <1>11, <2>1, GetProvidersFacts
    <2>3. ~MarkPending' => ~MarkPending
      BY <1>0, <1>11, GetProvidersFacts DEF get_providers, MarkPending
    <2> QED
      BY <1>0, <1>11, <2>2, <2>3, GetProvidersFacts, BetweenAttempts DEF get_providers
  <1>12. ASSUME snapshot_floor PROVE Kept
    <2>1. attempt'.at = "collect" /\ attempt'.replies = attempt.replies
      BY <1>0, <1>12, TypeFacts DEF snapshot_floor, Attempts
    <2>2. DOMAIN attempt'.replies = {}
      BY <1>0, <1>12, <2>1 DEF Stages, snapshot_floor
    <2>3. Stages' /\ AttemptCoversMark'
      BY <2>1, <2>2 DEF Stages, AttemptCoversMark
    <2>4. MarkedIsApplied'
      BY <1>0, <1>12 DEF snapshot_floor, MarkedIsApplied
    <2>5. PoolCoversMark' /\ CleanIsCheckpointed'
      BY <1>12 DEF snapshot_floor, CheckpointInv, PoolCoversMark, CleanIsCheckpointed,
                   MarkPending, SignersCover, CoversMark, Covered, Checkpointed
    <2> QED
      BY <2>3, <2>4, <2>5
  <1>13. ASSUME NEW p \in Providers, query_provider_commitment(p) PROVE Kept
    BY <1>13, QueryStep
  <1>14. ASSUME collect_commitments PROVE Kept
    BY <1>14, CollectStep
  <1>15. ASSUME submit_commitment_onchain PROVE Kept
    BY <1>15, SubmitStep
  <1>16. ASSUME ReadFails \/ SubmissionFails PROVE Kept
    <2>1. /\ Executed("TransactionFailed")
          /\ UNCHANGED <<position, written, bucket, commands, tx, mark>>
      BY <1>16 DEF ReadFails, SubmissionFails
    <2>2. ~MarkPending' => ~MarkPending
      BY <1>0, <2>1, ExecutedFacts, TypeFacts DEF MarkPending
    <2> QED
      BY <1>0, <2>1, <2>2, ExecutedFacts, TypeFacts, BetweenAttempts
  <1>17. ASSUME Finalize PROVE Kept
    BY <1>17, FinalizeStep
  <1>18. ASSUME Drop PROVE Kept
    <2>1. CASE attempt.at = "watch"
      <3>1. /\ Executed("TransactionFailed") /\ tx' = None
            /\ UNCHANGED <<position, written, bucket, commands, mark>>
        BY <1>18, <2>1 DEF Drop
      <3>2. ~MarkPending' => ~MarkPending
        BY <1>0, <3>1, ExecutedFacts, TypeFacts DEF MarkPending
      <3> QED
        BY <1>0, <3>1, <3>2, ExecutedFacts, TypeFacts, BetweenAttempts
    <2>2. CASE attempt.at # "watch"
      <3>1. UNCHANGED <<position, written, bucket, commands, mark, status, attempt>> /\ tx' = None
        BY <1>18, <2>2 DEF Drop
      <3>2. MarkedIsApplied' /\ Stages' /\ PoolCoversMark'
        BY <1>0, <2>2, <3>1 DEF MarkedIsApplied, Stages, PoolCoversMark
      <3>3. AttemptCoversMark' /\ CleanIsCheckpointed'
        BY <3>1 DEF CheckpointInv, AttemptCoversMark, CleanIsCheckpointed, MarkPending,
                    NoQueuedMark, SignersCover, CoversMark, Covered, Checkpointed
      <3> QED
        BY <3>2, <3>3
    <2> QED
      BY <2>1, <2>2
  <1>19. ASSUME RequestHangs \/ WatchHangs PROVE Kept
    <2>1. UNCHANGED <<position, written, bucket, status, commands, tx, mark>>
      BY <1>19 DEF RequestHangs, WatchHangs
    <2>2. ~MarkPending' => ~MarkPending
      BY <2>1 DEF MarkPending
    <2> QED
      BY <1>0, <1>19, <2>1, <2>2, HangFacts, BetweenAttempts
  <1>20. ASSUME UNCHANGED vars PROVE Kept
    <2>1. MarkedIsApplied'
      BY <1>0, <1>20 DEF vars, MarkedIsApplied
    <2> QED
      BY <1>20, <2>1, OutsideAttempt DEF vars, NoQueuedMark
  <1>21. Kept
    BY <1>1, <1>2, <1>3, <1>4, <1>5, <1>6, <1>7, <1>8, <1>9, <1>10, <1>11, <1>12, <1>13,
       <1>14, <1>15, <1>16, <1>17, <1>18, <1>19, <1>20 DEF Next, LoopStep
  <1> QED
    BY <1>0, <1>21, TypeStep DEF CheckpointInv

\* which holds at the start,
LEMMA CheckpointInvInit == Init => CheckpointInv /\ FloorsHeld
  <1> SUFFICES ASSUME Init PROVE CheckpointInv /\ FloorsHeld
    OBVIOUS
  <1>1. Len(History) \in Nat /\ Len(History) > 0 /\ 1 \in 1..Len(History)
    BY HistoryAssumption
  <1>2. Idle \in Attempts /\ Idle.at = "select" /\ DOMAIN Idle.replies = {}
    BY IdleTyped
  <1>3. status \in Statuses
    BY DEF Init, Statuses
  <1>4. commands \in Seq(Commands) /\ Len(commands) = 0
    BY DEF Init
  <1>5. bucket \in [primary_providers: PrimarySets, snapshot: Commitments \cup {None}]
    BY DEF Init
  <1>6. budget \in [commands: 0..MaxCommands, churn: 0..MaxChurn, faults: 0..MaxFaults]
    BY ManagerAssumption DEF Init
  <1>7. TypeOK
    BY <1>1, <1>2, <1>3, <1>4, <1>5, <1>6, ManagerAssumption DEF Init, TypeOK
  <1>8. MarkedIsApplied
    BY DEF Init, MarkedIsApplied
  <1>9. Stages /\ AttemptCoversMark /\ PoolCoversMark /\ FloorsHeld
    BY <1>2 DEF Init, Stages, AttemptCoversMark, PoolCoversMark, FloorsHeld
  <1>10. CleanIsCheckpointed
    BY DEF Init, CleanIsCheckpointed, Covered, Checkpointed
  <1> QED
    BY <1>7, <1>8, <1>9, <1>10 DEF CheckpointInv

\* and so always.
LEMMA CheckpointInvAlways == Spec => []CheckpointInv
  <1>1. Init => CheckpointInv
    BY CheckpointInvInit
  <1> QED
    BY <1>1, CheckpointInvStep, PTL DEF Spec

\* The answers behind a transaction passed the floor check of collect_commitments
\* against the floor the attempt had read.
LEMMA FloorsHeldStep ==
    CheckpointInv /\ FloorsHeld /\ [Next]_vars => FloorsHeld'
  <1> SUFFICES ASSUME CheckpointInv, FloorsHeld, [Next]_vars PROVE FloorsHeld'
    OBVIOUS
  <1>0. TypeOK /\ Stages
    BY DEF CheckpointInv
  <1> DEFINE Aside == attempt'.at \in {"select", "providers", "floor", "collect", "hung", "stopped"}
                      /\ (tx' = tx \/ tx' = None)
  <1>1. ASSUME Aside PROVE FloorsHeld'
    BY <1>1 DEF FloorsHeld, AboveFloor
  <1>2. ASSUME UNCHANGED attempt, tx' = tx \/ tx' = None PROVE FloorsHeld'
    BY <1>2 DEF FloorsHeld, AboveFloor
  <1>3. CASE \/ Write \/ ChangePrimaries \/ \E p \in Providers : Apply(p)
             \/ \E c \in Commands : Request(c)
             \/ mark_dirty \/ stop \/ invalidate_cache \/ RetryDelayElapses
             \/ UNCHANGED vars
    <2>1. UNCHANGED <<attempt, tx>>
      BY <1>3 DEF Write, ChangePrimaries, Apply, Request, mark_dirty, stop,
                  invalidate_cache, RetryDelayElapses, vars
    <2> QED
      BY <1>2, <2>1
  <1>4. CASE IntervalTick
    BY <1>0, <1>1, <1>4, IntervalTickFacts DEF IntervalTick
  <1>5. CASE RecvCommand
    BY <1>0, <1>1, <1>5, RecvCommandFacts DEF RecvCommand
  <1>6. CASE get_providers
    BY <1>0, <1>1, <1>6, GetProvidersFacts DEF get_providers
  <1>7. CASE snapshot_floor
    <2>1. attempt'.at = "collect" /\ tx' = tx
      BY <1>0, <1>7, TypeFacts DEF snapshot_floor, Attempts
    <2> QED
      BY <1>1, <2>1
  <1>8. CASE \E p \in Providers : query_provider_commitment(p)
    BY <1>0, <1>1, <1>8, QueryFacts DEF query_provider_commitment
  <1>9. CASE collect_commitments
    <2>1. tx' = tx
      BY <1>0, <1>9, CollectFacts
    <2>2. CASE attempt'.at \in {"select", "stopped"}
      BY <1>1, <2>1, <2>2
    <2>3. CASE /\ attempt'.at = "submit" /\ attempt'.chosen.floor = attempt.floor
               /\ \E first \in Usable : attempt'.chosen.commitment = attempt.replies[first]
      <3>1. PICK first \in Usable : attempt'.chosen.commitment = attempt.replies[first]
        BY <2>3
      <3>2. DOMAIN attempt.replies = attempt.providers
        BY <1>9 DEF collect_commitments
      <3>3. attempt.floor # None => NotBehind(attempt.replies[first], attempt.floor)
        BY <1>0, <3>2, UsableFacts
      <3> QED
        BY <2>1, <2>3, <3>1, <3>3 DEF FloorsHeld, AboveFloor
    <2> QED
      BY <1>0, <1>9, <2>2, <2>3, CollectFacts
  <1>10. CASE submit_commitment_onchain
    <2>1. CASE tx = None
      <3>1. tx' = attempt.chosen /\ attempt' = [attempt EXCEPT !.at = "watch"]
        BY <1>10, <2>1 DEF submit_commitment_onchain
      <3>2. attempt'.chosen = attempt.chosen
        BY <1>0, <3>1, TypeFacts DEF Attempts
      <3>3. AboveFloor(attempt.chosen)
        BY <1>10 DEF FloorsHeld, submit_commitment_onchain
      <3> QED
        BY <3>1, <3>2, <3>3 DEF FloorsHeld, AboveFloor
    <2>2. CASE tx # None
      <3>1. Executed("TransactionFailed") /\ tx' = tx
        BY <1>10, <2>2 DEF submit_commitment_onchain
      <3> QED
        BY <1>0, <1>1, <3>1, ExecutedFacts, TypeFacts
    <2> QED
      BY <2>1, <2>2
  <1>11. CASE ReadFails \/ SubmissionFails
    <2>1. Executed("TransactionFailed") /\ tx' = tx
      BY <1>11 DEF ReadFails, SubmissionFails
    <2> QED
      BY <1>0, <1>1, <2>1, ExecutedFacts, TypeFacts
  <1>12. CASE Finalize \/ Drop
    <2>1. tx' = None /\ (UNCHANGED attempt \/ \E result : Executed(result))
      BY <1>12 DEF Finalize, Drop
    <2>2. ASSUME NEW result, Executed(result) PROVE FloorsHeld'
      BY <1>0, <1>1, <2>1, <2>2, ExecutedFacts, TypeFacts
    <2> QED
      BY <1>2, <2>1, <2>2
  <1>13. CASE RequestHangs \/ WatchHangs
    BY <1>0, <1>1, <1>13, HangFacts DEF RequestHangs, WatchHangs
  <1> QED
    BY <1>3, <1>4, <1>5, <1>6, <1>7, <1>8, <1>9, <1>10, <1>11, <1>12, <1>13
       DEF Next, LoopStep

\* Chosen commitments are never behind their floor.
LEMMA FloorsHeldAlways == Spec => []FloorsHeld
  <1>1. Init => FloorsHeld
    BY CheckpointInvInit
  <1> QED
    BY <1>1, FloorsHeldStep, CheckpointInvAlways, PTL DEF Spec

----------------------------------------------------------------------------
(* Theorems                                                                 *)

\* The manager's state keeps its types: the channel never exceeds its capacity,
\* what submit_checkpoint has read and chosen are commitments of the bucket.
THEOREM ManagerTypeOK == Spec => []TypeOK
  <1>1. CheckpointInv => TypeOK
    BY DEF CheckpointInv
  <1> QED
    BY <1>1, CheckpointInvAlways, PTL

\* When the loop holds no mark, the snapshot on chain covers what min_providers of
\* the providers had applied at the last mark_dirty, for any number of providers,
\* however far they lag, any threshold, manual endpoints, failures, lost watches
\* and waits that never end.
THEOREM NoMarkIsLost == Spec => []CleanIsCheckpointed
  <1>1. CheckpointInv => CleanIsCheckpointed
    BY DEF CheckpointInv
  <1> QED
    BY <1>1, CheckpointInvAlways, PTL

\* A checkpoint that takes the committed range backwards was built against a
\* floor that is not the snapshot it replaces.
THEOREM RegressNeedsStaleFloor == Spec => RegressOnlyPastStaleFloor
  <1> DEFINE Regress == (/\ bucket.snapshot # None
                         /\ ~NotBehind(bucket'.snapshot, bucket.snapshot))
                        => tx.floor # bucket.snapshot
  <1>1. CheckpointInv /\ FloorsHeld /\ [Next]_vars => [Regress]_vars
    <2> SUFFICES ASSUME CheckpointInv, FloorsHeld, Next,
                        bucket.snapshot # None,
                        ~NotBehind(bucket'.snapshot, bucket.snapshot)
                 PROVE  tx.floor # bucket.snapshot
      OBVIOUS
    <2>0. TypeOK
      BY DEF CheckpointInv
    <2>1. bucket.snapshot \in Commitments
      BY <2>0, TypeFacts
    <2>2. NotBehind(bucket.snapshot, bucket.snapshot)
      BY <2>1, NotBehindReflexive
    <2>3. bucket'.snapshot # bucket.snapshot
      BY <2>2
    <2>4. CASE Finalize
      <3>1. bucket'.snapshot = tx.commitment
        BY <2>0, <2>3, <2>4, CheckpointFacts DEF Finalize
      <3>2. AboveFloor(tx)
        BY <2>4 DEF Finalize, FloorsHeld
      <3> QED
        BY <3>1, <3>2 DEF AboveFloor
    <2>5. CASE ChangePrimaries
      <3>1. PICK P \in PrimarySets : bucket' = [bucket EXCEPT !.primary_providers = P]
        BY <2>5 DEF ChangePrimaries
      <3> QED
        BY <2>0, <2>3, <3>1, TypeFacts
    <2>6. CASE UNCHANGED bucket
      BY <2>3, <2>6
    <2> QED
      BY <2>4, <2>5, <2>6 DEF Next, LoopStep, Write, Apply, Request, mark_dirty, stop,
         invalidate_cache, IntervalTick, RetryDelayElapses, RecvCommand, get_providers,
         snapshot_floor, query_provider_commitment, collect_commitments,
         submit_commitment_onchain, ReadFails, SubmissionFails, Drop, RequestHangs, WatchHangs
  <1> QED
    BY <1>1, CheckpointInvAlways, FloorsHeldAlways, PTL DEF Spec, RegressOnlyPastStaleFloor

=============================================================================
