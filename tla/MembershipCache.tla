-------------------------- MODULE MembershipCache --------------------------
(***************************************************************************)
(* The provider node's authorization cache (crates/providers/auth,          *)
(* membership.rs), its invalidation feed (provider-node, membership.rs) and *)
(* the follower that feeds it (crates/providers/coordinator).               *)
(*                                                                          *)
(* Lookups run concurrently and share the cache, the epoch and one feed; a  *)
(* step is what happens between two points where another lookup may run.    *)
(* A bucket's access (members and visibility) is a version number.          *)
(***************************************************************************)
EXTENDS Integers, Sequences

CONSTANTS
    Lookups,         \* requests in flight at the same time
    Buckets,
    Requested,       \* the buckets requests are about
    None,
    All,             \* Resubscribed and MembershipScopeUnknown
    Capacity,        \* EVENT_CHANNEL_CAPACITY
    Ttl, MaxStale,   \* in clock ticks
    EmptyVersions,   \* versions of a bucket that has no members
    MaxVersion, MaxDisturbances, MaxTime  \* bounds of the model

ASSUME CacheAssumption ==
    /\ Capacity \in Nat \ {0} /\ Ttl \in Nat /\ MaxStale \in Nat
    /\ MaxVersion \in Nat /\ MaxDisturbances \in Nat /\ MaxTime \in Nat
    /\ All \notin Buckets /\ None \notin Nat /\ Requested \subseteq Buckets

VARIABLES
    clock,
    chain,      \* [Buckets -> Nat], the version on the finalized chain
    stream,     \* buckets with an event in a finalized block still to come
    missed,     \* buckets with an event the new subscription does not deliver
    follower,   \* "down", "bootstrap" or "following"
    drops, news,
    feed,       \* what the cache's receiver has not read yet
    lagged,     \* the receiver lost the events before feed
    cache,      \* [Buckets -> entry or None]
    epoch,
    req         \* [Lookups -> the state of a lookup]

chainVars == <<chain, stream, missed, follower, drops, news>>

vars == <<clock, chainVars, feed, lagged, cache, epoch, req>>

CachedMembership == [version : Nat, fetched_at : Nat]

\* A lookup that is not running.
Idle == [pc |-> "idle", bucket |-> None, todo |-> <<>>, epoch_before |-> 0,
         version |-> None, failed |-> FALSE]

Init ==
    /\ clock = 0
    /\ chain = [b \in Buckets |-> 0]
    /\ stream = {} /\ missed = {}
    /\ follower = "down" /\ drops = 0 /\ news = 0
    /\ feed = <<>> /\ lagged = FALSE
    /\ cache = [b \in Buckets |-> None]
    /\ epoch = 0
    /\ req = [l \in Lookups |-> Idle]

----------------------------------------------------------------------------
(* The chain and the follower                                               *)

\* BucketCreated, MemberSet, MemberRemoved, BucketDeleted or
\* BucketVisibilityChanged in a finalized block.
ChangeMembership(b) ==
    /\ chain[b] < MaxVersion
    /\ chain' = [chain EXCEPT ![b] = @ + 1]
    /\ stream' = stream \cup {b}
    /\ UNCHANGED <<clock, missed, follower, drops, news, feed, lagged, cache, epoch, req>>

\* ReplicaAgreementEstablished: an event for b that does not touch its access.
EstablishReplica(b) ==
    /\ drops + news < MaxDisturbances
    /\ news' = news + 1
    /\ stream' = stream \cup {b}
    /\ UNCHANGED <<clock, chain, missed, follower, drops, feed, lagged, cache, epoch, req>>

\* broadcast::Sender::send: a full channel loses its oldest event.
Send(event) ==
    IF Len(feed) < Capacity
    THEN feed' = Append(feed, event) /\ UNCHANGED lagged
    ELSE feed' = Append(Tail(feed), event) /\ lagged' = TRUE

\* Connecting subscribes to the finalized blocks from now on.
Connect ==
    /\ follower = "down"
    /\ follower' = "bootstrap"
    /\ missed' = missed \cup stream
    /\ stream' = {}
    /\ UNCHANGED <<clock, chain, drops, news, feed, lagged, cache, epoch, req>>

\* After the bootstrap reads: one marker for everything that was missed.
Resubscribe ==
    /\ follower = "bootstrap"
    /\ follower' = "following"
    /\ missed' = {}
    /\ Send(All)
    /\ UNCHANGED <<clock, chain, stream, drops, news, cache, epoch, req>>

\* The stream ends or stalls, or the bootstrap times out.
Disconnect ==
    /\ follower # "down"
    /\ drops + news < MaxDisturbances
    /\ drops' = drops + 1
    /\ follower' = "down"
    /\ UNCHANGED <<clock, chain, stream, missed, news, feed, lagged, cache, epoch, req>>

\* The next event of the stream is broadcast; if it cannot be decoded, or its
\* block cannot be read, MembershipScopeUnknown is broadcast in its place.
Follow(b, event) ==
    /\ follower = "following"
    /\ b \in stream
    /\ event \in {b, All}
    /\ stream' = stream \ {b}
    /\ Send(event)
    /\ UNCHANGED <<clock, chain, missed, follower, drops, news, cache, epoch, req>>

Tick ==
    /\ clock < MaxTime
    /\ clock' = clock + 1
    /\ UNCHANGED <<chainVars, feed, lagged, cache, epoch, req>>

----------------------------------------------------------------------------
(* The cache                                                                *)

is_fresh(entry) == clock - entry.fetched_at < Ttl

residency(entry) == IF entry.version \in EmptyVersions THEN Ttl ELSE MaxStale

\* moka's get: an entry past its residency is not there any more.
Resident(b) == cache[b] # None /\ clock - cache[b].fetched_at < residency(cache[b])

\* moka may drop an entry to stay within max_entries.
Evict(b) ==
    /\ cache[b] # None
    /\ cache' = [cache EXCEPT ![b] = None]
    /\ UNCHANGED <<clock, chainVars, feed, lagged, epoch, req>>

DropLagged(events, lag) ==
    IF \E i \in DOMAIN events : events[i] = All THEN <<All>> ELSE events

\* MembershipInvalidations::drain: what the feed asks to invalidate.
Drained(events, lag) ==
    IF lag \/ \E i \in DOMAIN events : events[i] = All THEN <<All>> ELSE events

\* The drain empties the feed into this lookup's todo, under the feed's lock.
DrainInto(l, state) ==
    /\ req' = [req EXCEPT ![l] = [state EXCEPT !.todo = Drained(feed, lagged)]]
    /\ feed' = <<>> /\ lagged' = FALSE

Advance(l, pc) ==
    req' = [req EXCEPT ![l] = [@ EXCEPT !.pc = pc]]

Finish(l) == req' = [req EXCEPT ![l] = Idle]

lookup(l, b) ==
    /\ req[l].pc = "idle"
    /\ DrainInto(l, [Idle EXCEPT !.pc = "apply", !.bucket = b])
    /\ UNCHANGED <<clock, chainVars, cache, epoch>>

\* invalidate and invalidate_all: the epoch first ...
BumpEpoch(l) ==
    /\ req[l].pc = "apply" /\ req[l].todo # <<>>
    /\ epoch' = epoch + 1
    /\ Advance(l, "remove")
    /\ UNCHANGED <<clock, chainVars, feed, lagged, cache>>

Removed(entries, event) ==
    [b \in Buckets |-> IF event \in {b, All} THEN None ELSE entries[b]]

\* ... then the removal.
Remove(l) ==
    /\ req[l].pc = "remove"
    /\ cache' = Removed(cache, Head(req[l].todo))
    /\ req' = [req EXCEPT ![l] = [@ EXCEPT !.pc = "apply", !.todo = Tail(req[l].todo)]]
    /\ UNCHANGED <<clock, chainVars, feed, lagged, epoch>>

Applied(l) ==
    /\ req[l].pc = "apply" /\ req[l].todo = <<>>
    /\ Advance(l, IF req[l].failed THEN "stale" ELSE "get")
    /\ UNCHANGED <<clock, chainVars, feed, lagged, cache, epoch>>

\* A fresh entry is the answer.
Hit(l) ==
    /\ req[l].pc = "get"
    /\ Resident(req[l].bucket) /\ is_fresh(cache[req[l].bucket])
    /\ Finish(l)
    /\ UNCHANGED <<clock, chainVars, feed, lagged, cache, epoch>>

Miss(l) ==
    /\ req[l].pc = "get"
    /\ ~(Resident(req[l].bucket) /\ is_fresh(cache[req[l].bucket]))
    /\ Advance(l, "sample")
    /\ UNCHANGED <<clock, chainVars, feed, lagged, cache, epoch>>

SampleEpoch(l) ==
    /\ req[l].pc = "sample"
    /\ req' = [req EXCEPT ![l] = [@ EXCEPT !.pc = "access", !.epoch_before = epoch]]
    /\ UNCHANGED <<clock, chainVars, feed, lagged, cache, epoch>>

\* The two chain reads of a resolution.
fetch_access(l) ==
    /\ req[l].pc = "access"
    /\ req' = [req EXCEPT ![l] = [@ EXCEPT !.pc = "standing",
                                           !.version = chain[req[l].bucket]]]
    /\ UNCHANGED <<clock, chainVars, feed, lagged, cache, epoch>>

fetch_serves_as_replica(l) ==
    /\ req[l].pc = "standing"
    /\ Advance(l, "check")
    /\ UNCHANGED <<clock, chainVars, feed, lagged, cache, epoch>>

CacheFailure(l) ==
    /\ req[l].pc \in {"access", "standing"}
    /\ req' = [req EXCEPT ![l] = [@ EXCEPT !.pc = "check", !.version = None]]
    /\ UNCHANGED <<clock, chainVars, feed, lagged, cache, epoch>>

\* Either read fails: drain again, then look for a stale entry.
FetchFails(l) ==
    /\ req[l].pc \in {"access", "standing"}
    /\ DrainInto(l, [req[l] EXCEPT !.pc = "apply", !.failed = TRUE, !.version = None])
    /\ UNCHANGED <<clock, chainVars, cache, epoch>>

\* The fetched entry is the answer either way; it is cached only if no
\* invalidation has been processed since the epoch was sampled.
CheckEpoch(l) ==
    /\ req[l].pc = "check"
    /\ IF epoch = req[l].epoch_before THEN Advance(l, "insert") ELSE Finish(l)
    /\ UNCHANGED <<clock, chainVars, feed, lagged, cache, epoch>>

Insert(l) ==
    /\ req[l].pc = "insert"
    /\ cache' = [cache EXCEPT ![req[l].bucket] =
                    [version |-> req[l].version, fetched_at |-> clock]]
    /\ Advance(l, "recheck")
    /\ UNCHANGED <<clock, chainVars, feed, lagged, epoch>>

TrustInsert(l) ==
    /\ req[l].pc = "recheck"
    /\ Finish(l)
    /\ UNCHANGED <<clock, chainVars, feed, lagged, cache, epoch>>

RecheckEpoch(l) ==
    /\ req[l].pc = "recheck"
    /\ IF epoch = req[l].epoch_before THEN Finish(l) ELSE Advance(l, "undo")
    /\ UNCHANGED <<clock, chainVars, feed, lagged, cache, epoch>>

UndoInsert(l) ==
    /\ req[l].pc = "undo"
    /\ cache' = [cache EXCEPT ![req[l].bucket] = None]
    /\ Finish(l)
    /\ UNCHANGED <<clock, chainVars, feed, lagged, epoch>>

\* Stale-if-error: whatever is still resident is the answer ...
ServeStale(l) ==
    /\ req[l].pc = "stale"
    /\ Resident(req[l].bucket)
    /\ Finish(l)
    /\ UNCHANGED <<clock, chainVars, feed, lagged, cache, epoch>>

\* ... else the error.
Refuse(l) ==
    /\ req[l].pc = "stale"
    /\ ~Resident(req[l].bucket)
    /\ Finish(l)
    /\ UNCHANGED <<clock, chainVars, feed, lagged, cache, epoch>>

----------------------------------------------------------------------------
\* To the cache, a change of a bucket nobody asks for is an event like any other.
ChainNext ==
    \/ \E b \in Requested : ChangeMembership(b)
    \/ \E b \in Buckets : EstablishReplica(b)
    \/ Disconnect

FollowerNext ==
    \/ Connect
    \/ Resubscribe
    \/ \E b \in Buckets, event \in Buckets \cup {All} : Follow(b, event)

LookupStep(l) ==
    \/ BumpEpoch(l) \/ Remove(l) \/ Applied(l) \/ Hit(l) \/ Miss(l)
    \/ SampleEpoch(l) \/ fetch_access(l) \/ fetch_serves_as_replica(l) \/ FetchFails(l)
    \/ CheckEpoch(l) \/ Insert(l) \/ RecheckEpoch(l) \/ UndoInsert(l) \/ ServeStale(l)
    \/ Refuse(l)

Next ==
    \/ ChainNext
    \/ FollowerNext
    \/ Tick
    \/ \E b \in Buckets : Evict(b)
    \/ \E l \in Lookups : LookupStep(l) \/ \E b \in Requested : lookup(l, b)

Spec == Init /\ [][Next]_vars

\* The follower's task and every request's task keep running, and requests
\* keep coming.
FairSpec ==
    /\ Spec
    /\ WF_vars(FollowerNext)
    /\ \A l \in Lookups : WF_vars(LookupStep(l)) /\ WF_vars(\E b \in Requested : lookup(l, b))

----------------------------------------------------------------------------
(* Properties                                                               *)

Request ==
    [pc : {"idle", "apply", "remove", "get", "sample", "access", "standing", "check",
           "insert", "recheck", "undo", "stale"},
     bucket : Buckets \cup {None}, todo : Seq(Buckets \cup {All}), epoch_before : Nat,
     version : Nat \cup {None}, failed : BOOLEAN]

\* The shared state, the follower and every lookup's locals are well typed.
TypeOK ==
    /\ clock \in Nat
    /\ chain \in [Buckets -> Nat]
    /\ stream \in SUBSET Buckets /\ missed \in SUBSET Buckets
    /\ follower \in {"down", "bootstrap", "following"}
    /\ drops \in Nat /\ news \in Nat
    /\ feed \in Seq(Buckets \cup {All}) /\ lagged \in BOOLEAN
    /\ cache \in [Buckets -> CachedMembership \cup {None}]
    /\ epoch \in Nat
    /\ req \in [Lookups -> Request]

Outdated(b) == cache[b] # None /\ cache[b].version < chain[b]

Names(event, b) == event \in {b, All}

\* An invalidation of b is on its way: in a block still to come, missed and
\* owed a marker, in the feed, or drained and not yet begun.
Coming(b) ==
    \/ b \in stream \cup missed
    \/ lagged
    \/ \E i \in DOMAIN feed : Names(feed[i], b)
    \/ \E l \in Lookups : \E i \in DOMAIN req[l].todo :
          Names(req[l].todo[i], b) /\ (i = 1 => req[l].pc # "remove")

\* A lookup in state q is about to remove b's entry.
Removes(q, b) ==
    \/ q.pc = "remove" /\ Names(Head(q.todo), b)
    \/ q.bucket = b /\ q.pc = "undo"
    \/ q.bucket = b /\ q.pc = "recheck" /\ epoch # q.epoch_before

BeingRemoved(b) == \E l \in Lookups : Removes(req[l], b)

\* No lookup resurrects revoked access: an outdated entry is in the cache
\* only while the invalidation that removes it is still on its way.  Once the
\* event was drained and its removal done, no lookup that read the chain
\* before the change leaves its answer behind for a TTL.
OutdatedIsDoomed ==
    \A b \in Buckets : Outdated(b) => Coming(b) \/ BeingRemoved(b)

\* A revocation takes effect although events are dropped, blocks cannot be
\* read, the follower reconnects, and the clock alone would not expire the
\* entry: as long as requests come, an outdated entry goes away.
RevocationTakesEffect ==
    \A b \in Buckets : Outdated(b) ~> ~Outdated(b)

=============================================================================
