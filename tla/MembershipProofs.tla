-------------------------- MODULE MembershipProofs -------------------------
(***************************************************************************)
(* An outdated entry of the membership cache is always about to go, for any *)
(* number of concurrent lookups, buckets and invalidations.  The argument   *)
(* is the one the comments in membership.rs sketch: the epoch moves before  *)
(* the removal and is read again after the insert.                          *)
(***************************************************************************)
EXTENDS MembershipCache, TLAPS

Events == Buckets \cup {All}

\* What a lookup's locals look like at each point of its way.
Shape(q) ==
    /\ q.pc # "idle" => q.bucket \in Buckets
    /\ q.pc \in {"standing", "check", "insert", "recheck", "undo"} => q.version \in Nat
    /\ q.pc = "remove" => q.todo # <<>>
    /\ q.pc \notin {"apply", "remove"} => q.todo = <<>>
    /\ q.epoch_before <= epoch

LookupShape == \A l \in Lookups : Shape(req[l])

\* On its way to an insert with something the chain no longer says.
CarriesOutdated(q) ==
    /\ q.pc \in {"standing", "check", "insert"}
    /\ q.version < chain[q.bucket]

\* Such a lookup will see the epoch move, before its insert or after it.
InFlight ==
    \A l \in Lookups :
        CarriesOutdated(req[l]) => Coming(req[l].bucket) \/ epoch # req[l].epoch_before

Inv == TypeOK /\ LookupShape /\ InFlight /\ OutdatedIsDoomed

----------------------------------------------------------------------------
(* Sequences of events                                                      *)

\* The drain loses nothing: what the feed, or the lag, asks for is in todo.
LEMMA DrainedCovers ==
    ASSUME NEW events \in Seq(Events), NEW lag \in BOOLEAN, NEW b \in Buckets
    PROVE  /\ Drained(events, lag) \in Seq(Events)
           /\ (lag \/ \E i \in DOMAIN events : Names(events[i], b)) =>
                 \E i \in DOMAIN Drained(events, lag) : Names(Drained(events, lag)[i], b)
<1>1. CASE lag \/ \E i \in DOMAIN events : events[i] = All
  <2>1. Drained(events, lag) = <<All>>
    BY <1>1 DEF Drained
  <2>2. 1 \in DOMAIN <<All>> /\ <<All>>[1] = All /\ <<All>> \in Seq(Events)
    BY DEF Events
  <2> QED BY <2>1, <2>2 DEF Names
<1>2. CASE ~(lag \/ \E i \in DOMAIN events : events[i] = All)
  <2>1. Drained(events, lag) = events
    BY <1>2 DEF Drained
  <2> QED BY <1>2, <2>1
<1> QED BY <1>1, <1>2

\* A broadcast reaches the feed, and what it displaces leaves a lag.
LEMMA SendCovers ==
    ASSUME TypeOK, NEW event \in Events, Send(event)
    PROVE  /\ feed' \in Seq(Events) /\ lagged' \in BOOLEAN
           /\ \E i \in DOMAIN feed' : feed'[i] = event
           /\ lagged => lagged'
           /\ \A b \in Buckets : (\E i \in DOMAIN feed : Names(feed[i], b)) =>
                 lagged' \/ \E i \in DOMAIN feed' : Names(feed'[i], b)
<1>1. feed \in Seq(Events) /\ lagged \in BOOLEAN /\ Capacity \in Nat \ {0}
  BY CacheAssumption DEF TypeOK, Events
<1>2. CASE Len(feed) < Capacity
  <2>1. feed' = Append(feed, event) /\ lagged' = lagged
    BY <1>2 DEF Send
  <2>2. /\ feed' \in Seq(Events)
        /\ Len(feed) + 1 \in DOMAIN feed' /\ feed'[Len(feed) + 1] = event
        /\ \A i \in DOMAIN feed : i \in DOMAIN feed' /\ feed'[i] = feed[i]
    BY <1>1, <2>1
  <2> QED BY <1>1, <2>1, <2>2
<1>3. CASE ~(Len(feed) < Capacity)
  <2>1. feed' = Append(Tail(feed), event) /\ lagged' = TRUE
    BY <1>3 DEF Send
  <2>2. feed # <<>>
    BY <1>1, <1>3
  <2>3. Tail(feed) \in Seq(Events)
    BY <1>1, <2>2
  <2> DEFINE rest == Tail(feed)
  <2> HIDE DEF rest
  <2>4. /\ Append(rest, event) \in Seq(Events)
        /\ Len(rest) + 1 \in DOMAIN Append(rest, event)
        /\ Append(rest, event)[Len(rest) + 1] = event
    BY <2>3 DEF rest
  <2> QED BY <2>1, <2>4 DEF rest
<1> QED BY <1>2, <1>3

----------------------------------------------------------------------------
(* Steps                                                                    *)

\* A step that leaves the news alone and begins no removal.
LEMMA ComingSame ==
    ASSUME UNCHANGED <<stream, missed, feed, lagged>>,
           \A l \in Lookups : /\ req'[l].todo = req[l].todo
                              /\ req'[l].pc = "remove" => req[l].pc = "remove"
    PROVE  \A b \in Buckets : Coming(b) => Coming(b)'
BY DEF Coming

\* A step of the chain or the follower: the invariant survives if no news is
\* lost and every change of the chain is news.
LEMMA OutsideStep ==
    ASSUME Inv, TypeOK', UNCHANGED <<cache, epoch, req>>,
           \A b \in Buckets : Coming(b) => Coming(b)',
           \A b \in Buckets : chain'[b] = chain[b] \/ Coming(b)'
    PROVE  Inv'
<1>1. LookupShape'
  BY DEF Inv, LookupShape, Shape
<1>2. InFlight'
  <2> SUFFICES ASSUME NEW l \in Lookups, CarriesOutdated(req[l])'
               PROVE  Coming(req[l].bucket)' \/ epoch # req[l].epoch_before
    BY DEF InFlight
  <2>1. req[l].bucket \in Buckets
    BY DEF CarriesOutdated, Inv, LookupShape, Shape
  <2>2. CASE chain'[req[l].bucket] = chain[req[l].bucket]
    BY <2>1, <2>2 DEF CarriesOutdated, Inv, InFlight
  <2> QED BY <2>1, <2>2
<1>3. OutdatedIsDoomed'
  <2> SUFFICES ASSUME NEW b \in Buckets, Outdated(b)'
               PROVE  Coming(b)' \/ BeingRemoved(b)'
    BY DEF OutdatedIsDoomed
  <2>1. CASE chain'[b] = chain[b]
    BY <2>1 DEF Inv, OutdatedIsDoomed, Outdated, BeingRemoved, Removes
  <2> QED BY <2>1
<1> QED BY <1>1, <1>2, <1>3 DEF Inv

\* A step of lookup l to state q that neither drains nor begins or ends an
\* invalidation.
LEMMA LocalStep ==
    ASSUME Inv, TypeOK', NEW l \in Lookups, NEW q \in Request,
           req' = [req EXCEPT ![l] = q],
           UNCHANGED <<chain, stream, missed, feed, lagged, epoch>>,
           q.todo = req[l].todo, q.pc # "remove", Shape(q),
           CarriesOutdated(q) => Coming(q.bucket) \/ epoch # q.epoch_before,
           \A b \in Buckets :
              \/ cache'[b] = None
              \/ cache'[b] = cache[b] /\ (Removes(req[l], b) => Removes(q, b))
              \/ cache'[b].version < chain[b] => Coming(b) \/ Removes(q, b)
    PROVE  Inv'
<1>1. req'[l] = q /\ \A m \in Lookups \ {l} : req'[m] = req[m]
  BY DEF Inv, TypeOK
<1>2. \A b \in Buckets : Coming(b) => Coming(b)'
  BY <1>1, ComingSame
<1>3. LookupShape'
  BY <1>1 DEF Inv, LookupShape, Shape
<1>4. InFlight'
  <2> SUFFICES ASSUME NEW m \in Lookups, CarriesOutdated(req[m])'
               PROVE  Coming(req[m].bucket)' \/ epoch # req'[m].epoch_before
    BY DEF InFlight
  <2>1. CarriesOutdated(req'[m]) /\ req'[m].bucket \in Buckets
    BY <1>3 DEF CarriesOutdated, LookupShape, Shape
  <2>2. Coming(req'[m].bucket) \/ epoch # req'[m].epoch_before
    BY <1>1, <2>1 DEF Inv, InFlight
  <2>3. \A b \in Buckets : Coming(b)' => b # req'[m].bucket \/ Coming(req[m].bucket)'
    BY DEF Coming
  <2> QED BY <1>2, <2>1, <2>2, <2>3
<1>5. OutdatedIsDoomed'
  <2> SUFFICES ASSUME NEW b \in Buckets, Outdated(b)'
               PROVE  Coming(b)' \/ BeingRemoved(b)'
    BY DEF OutdatedIsDoomed
  <2>1. \A m \in Lookups \ {l} : Removes(req[m], b) => Removes(req[m], b)'
    BY <1>1 DEF Removes
  <2>2. Removes(q, b) => Removes(req[l], b)'
    BY <1>1 DEF Removes
  <2>3. cache'[b] # None /\ cache'[b].version < chain[b]
    BY DEF Outdated
  <2>4. CASE cache'[b] = cache[b] /\ (Removes(req[l], b) => Removes(q, b))
    <3>1. Coming(b) \/ \E m \in Lookups : Removes(req[m], b)
      BY <2>3, <2>4 DEF Inv, OutdatedIsDoomed, Outdated, BeingRemoved
    <3> QED BY <1>2, <2>1, <2>2, <2>4, <3>1 DEF BeingRemoved
  <2> QED BY <1>2, <2>2, <2>3, <2>4 DEF BeingRemoved
<1> QED BY <1>3, <1>4, <1>5 DEF Inv

\* ChangeMembership, EstablishReplica and Disconnect.
LEMMA ChainNextStep == ASSUME Inv, ChainNext PROVE Inv'
<1>1. ASSUME NEW b \in Buckets, ChangeMembership(b) PROVE Inv'
  <2>1. TypeOK'
    BY <1>1 DEF ChangeMembership, Inv, TypeOK
  <2>2. \A c \in Buckets : Coming(c) => Coming(c)'
    BY <1>1 DEF ChangeMembership, Coming
  <2>3. Coming(b)' /\ \A c \in Buckets \ {b} : chain'[c] = chain[c]
    BY <1>1 DEF ChangeMembership, Coming, Inv, TypeOK
  <2> QED BY <1>1, <2>1, <2>2, <2>3, OutsideStep DEF ChangeMembership
<1>2. ASSUME NEW b \in Buckets, EstablishReplica(b) PROVE Inv'
  <2>1. TypeOK'
    BY <1>2 DEF EstablishReplica, Inv, TypeOK
  <2>2. \A c \in Buckets : Coming(c) => Coming(c)'
    BY <1>2 DEF EstablishReplica, Coming
  <2> QED BY <1>2, <2>1, <2>2, OutsideStep DEF EstablishReplica
<1>3. CASE Disconnect
  <2>1. TypeOK'
    BY <1>3 DEF Disconnect, Inv, TypeOK
  <2>2. \A c \in Buckets : Coming(c) => Coming(c)'
    BY <1>3 DEF Disconnect, Coming
  <2> QED BY <1>3, <2>1, <2>2, OutsideStep DEF Disconnect
<1> QED BY <1>1, <1>2, <1>3, CacheAssumption DEF ChainNext

\* A broadcast that takes news out of the stream puts them into the feed.
LEMMA BroadcastStep ==
    ASSUME Inv, TypeOK', NEW event \in Events, Send(event),
           UNCHANGED <<chain, cache, epoch, req>>,
           \A b \in Buckets : b \in (stream \cup missed) \ (stream' \cup missed')
                                  => Names(event, b)
    PROVE  Inv'
<1>1. ASSUME NEW b \in Buckets, Coming(b) PROVE Coming(b)'
  <2>1. CASE b \in stream \cup missed
    BY <2>1, SendCovers DEF Inv, Coming, Names
  <2>2. CASE lagged \/ \E i \in DOMAIN feed : Names(feed[i], b)
    BY <2>2, SendCovers DEF Inv, Coming
  <2>3. CASE \E l \in Lookups : \E i \in DOMAIN req[l].todo :
                Names(req[l].todo[i], b) /\ (i = 1 => req[l].pc # "remove")
    BY <2>3 DEF Coming
  <2> QED BY <1>1, <2>1, <2>2, <2>3 DEF Coming
<1> QED BY <1>1, OutsideStep

\* Connect, Resubscribe and Follow.
LEMMA FollowerNextStep == ASSUME Inv, FollowerNext PROVE Inv'
<1>1. CASE Connect
  <2>1. TypeOK'
    BY <1>1 DEF Connect, Inv, TypeOK
  <2>2. \A c \in Buckets : Coming(c) => Coming(c)'
    BY <1>1 DEF Connect, Coming
  <2> QED BY <1>1, <2>1, <2>2, OutsideStep DEF Connect
<1>2. CASE Resubscribe
  <2>1. Send(All) /\ All \in Events
    BY <1>2 DEF Resubscribe, Events
  <2>2. TypeOK'
    BY <1>2, <2>1, SendCovers DEF Resubscribe, Inv, TypeOK, Events
  <2> QED BY <1>2, <2>1, <2>2, BroadcastStep DEF Resubscribe, Names
<1>3. ASSUME NEW b \in Buckets, NEW event \in Buckets \cup {All}, Follow(b, event)
      PROVE  Inv'
  <2>1. Send(event) /\ event \in Events /\ Names(event, b)
    BY <1>3 DEF Follow, Events, Names
  <2>2. TypeOK'
    BY <1>3, <2>1, SendCovers DEF Follow, Inv, TypeOK, Events
  <2> QED BY <1>3, <2>1, <2>2, BroadcastStep DEF Follow
<1> QED BY <1>1, <1>2, <1>3 DEF FollowerNext

\* The clock ticks and moka evicts: no news, and no entry that was not there.
LEMMA QuietStep ==
    ASSUME Inv, Tick \/ (\E b \in Buckets : Evict(b)) \/ UNCHANGED vars
    PROVE  Inv'
<1>1. CASE Tick \/ UNCHANGED vars
  <2>1. TypeOK'
    BY <1>1 DEF Tick, vars, chainVars, Inv, TypeOK
  <2>2. \A c \in Buckets : Coming(c) => Coming(c)'
    BY <1>1 DEF Tick, vars, chainVars, Coming
  <2> QED BY <1>1, <2>1, <2>2, OutsideStep DEF Tick, vars, chainVars
<1>2. ASSUME NEW b \in Buckets, Evict(b) PROVE Inv'
  <2>1. TypeOK'
    BY <1>2 DEF Evict, chainVars, Inv, TypeOK
  <2>2. UNCHANGED <<chain, stream, missed, feed, lagged, epoch, req>>
    BY <1>2 DEF Evict, chainVars
  <2>3. LookupShape' /\ InFlight'
    BY <2>2 DEF Inv, LookupShape, Shape, InFlight, CarriesOutdated, Coming
  <2>4. OutdatedIsDoomed'
    <3> SUFFICES ASSUME NEW c \in Buckets, Outdated(c)'
                 PROVE  Coming(c)' \/ BeingRemoved(c)'
      BY DEF OutdatedIsDoomed
    <3>1. Outdated(c)
      BY <1>2, <2>2 DEF Evict, Outdated, Inv, TypeOK
    <3> QED BY <2>2, <3>1 DEF Inv, OutdatedIsDoomed, Coming, BeingRemoved, Removes
  <2> QED BY <2>1, <2>3, <2>4 DEF Inv
<1> QED BY <1>1, <1>2

\* A drain moves the news of the feed into the lookup's todo.
LEMMA DrainStep ==
    ASSUME Inv, NEW l \in Lookups, NEW state \in Request, DrainInto(l, state),
           UNCHANGED <<clock, chainVars, cache, epoch>>,
           req[l].todo = <<>>, req[l].pc \in {"idle", "access", "standing"},
           state.pc = "apply", state.bucket \in Buckets, state.epoch_before <= epoch
    PROVE  Inv'
<1> DEFINE todo == Drained(feed, lagged)
           q == [state EXCEPT !.todo = todo]
<1>0. feed \in Seq(Events) /\ lagged \in BOOLEAN
  BY DEF Inv, TypeOK, Events
<1>1. ASSUME NEW b \in Buckets
      PROVE  /\ todo \in Seq(Events)
             /\ (lagged \/ \E i \in DOMAIN feed : Names(feed[i], b)) =>
                   \E i \in DOMAIN todo : Names(todo[i], b)
  BY <1>0, DrainedCovers
<1>2. todo \in Seq(Events)
  BY <1>1
<1>3. feed' = <<>> /\ lagged' = FALSE /\ req' = [req EXCEPT ![l] = q]
  BY DEF DrainInto
<1> HIDE DEF todo
<1>4. /\ q \in Request /\ q.todo = todo /\ q.pc = "apply" /\ q.bucket \in Buckets
      /\ q.epoch_before <= epoch
  <2>1. todo \in Seq(Buckets \cup {All})
    BY <1>2 DEF Events
  <2>2. q \in Request
    BY <2>1 DEF Request
  <2> QED BY <2>2 DEF Request
<1> HIDE DEF q
<1>5. req'[l] = q /\ \A m \in Lookups \ {l} : req'[m] = req[m]
  BY <1>3 DEF Inv, TypeOK
<1>6. UNCHANGED <<chain, stream, missed, cache, epoch>>
  BY DEF chainVars
<1>7. TypeOK'
  <2>1. <<>> \in Seq(Buckets \cup {All})
    OBVIOUS
  <2>2. feed' \in Seq(Buckets \cup {All})
    BY <1>3, <2>1
  <2>3. lagged' \in BOOLEAN
    BY <1>3
  <2>4. req' \in [Lookups -> Request]
    BY <1>3, <1>4 DEF Inv, TypeOK
  <2> QED BY <2>2, <2>3, <2>4 DEF chainVars, Inv, TypeOK
<1>8. ASSUME NEW b \in Buckets, Coming(b) PROVE Coming(b)'
  <2>1. CASE b \in stream \cup missed
    BY <1>6, <2>1 DEF Coming
  <2>2. CASE lagged \/ \E i \in DOMAIN feed : Names(feed[i], b)
    <3>1. \E i \in DOMAIN todo : Names(todo[i], b)
      BY <1>1, <2>2
    <3> QED BY <1>4, <1>5, <3>1 DEF Coming, Names
  <2>3. CASE \E m \in Lookups : \E i \in DOMAIN req[m].todo :
                Names(req[m].todo[i], b) /\ (i = 1 => req[m].pc # "remove")
    <3>1. PICK m \in Lookups : \E i \in DOMAIN req[m].todo :
                Names(req[m].todo[i], b) /\ (i = 1 => req[m].pc # "remove")
      BY <2>3
    <3>2. m # l
      BY <3>1
    <3> QED BY <1>5, <3>1, <3>2 DEF Coming
  <2> QED BY <1>8, <2>1, <2>2, <2>3 DEF Coming
<1>9. LookupShape'
  BY <1>4, <1>5, <1>6 DEF Inv, LookupShape, Shape
<1>10. InFlight'
  <2> SUFFICES ASSUME NEW m \in Lookups, CarriesOutdated(req[m])'
               PROVE  Coming(req[m].bucket)' \/ epoch' # req'[m].epoch_before
    BY DEF InFlight
  <2>1. m # l /\ req'[m] = req[m]
    BY <1>4, <1>5 DEF CarriesOutdated
  <2>2. CarriesOutdated(req[m]) /\ req[m].bucket \in Buckets
    BY <1>6, <2>1 DEF CarriesOutdated, Inv, LookupShape, Shape
  <2>3. Coming(req[m].bucket) \/ epoch # req[m].epoch_before
    BY <2>2 DEF Inv, InFlight
  <2>4. \A b \in Buckets : Coming(b)' => b # req'[m].bucket \/ Coming(req[m].bucket)'
    BY DEF Coming
  <2> QED BY <1>6, <1>8, <2>1, <2>2, <2>3, <2>4
<1>11. OutdatedIsDoomed'
  <2> SUFFICES ASSUME NEW b \in Buckets, Outdated(b)'
               PROVE  Coming(b)' \/ BeingRemoved(b)'
    BY DEF OutdatedIsDoomed
  <2>1. Coming(b) \/ \E m \in Lookups : Removes(req[m], b)
    BY <1>6 DEF Inv, OutdatedIsDoomed, Outdated, BeingRemoved
  <2>2. ~Removes(req[l], b)
    BY DEF Removes
  <2>3. \A m \in Lookups \ {l} : Removes(req[m], b) => Removes(req[m], b)'
    BY <1>5, <1>6 DEF Removes
  <2> QED BY <1>8, <2>1, <2>2, <2>3 DEF BeingRemoved
<1> QED BY <1>7, <1>9, <1>10, <1>11 DEF Inv

\* The first drain, when a request comes, and the second, when a read fails.
LEMMA DrainingStep ==
    ASSUME Inv, NEW l \in Lookups,
           (\E b \in Buckets : lookup(l, b)) \/ FetchFails(l)
    PROVE  Inv'
<1>0. /\ req[l] \in Request /\ Shape(req[l]) /\ epoch \in Nat
  BY DEF Inv, TypeOK, LookupShape
<1>1. ASSUME NEW b \in Buckets, lookup(l, b) PROVE Inv'
  <2> DEFINE state == [Idle EXCEPT !.pc = "apply", !.bucket = b]
  <2>1. state \in Request /\ state.pc = "apply" /\ state.bucket = b /\ state.epoch_before = 0
    <3>1. <<>> \in Seq(Buckets \cup {All})
      OBVIOUS
    <3> QED BY <3>1 DEF Request, Idle
  <2>2. req[l].todo = <<>> /\ req[l].pc = "idle"
    BY <1>0, <1>1 DEF lookup, Shape
  <2>3. DrainInto(l, state) /\ UNCHANGED <<clock, chainVars, cache, epoch>>
    BY <1>1 DEF lookup
  <2> HIDE DEF state
  <2> QED BY <1>0, <2>1, <2>2, <2>3, DrainStep
<1>2. CASE FetchFails(l)
  <2> DEFINE state == [req[l] EXCEPT !.pc = "apply", !.failed = TRUE, !.version = None]
  <2>1. state \in Request /\ state.pc = "apply" /\ state.bucket = req[l].bucket
        /\ state.epoch_before = req[l].epoch_before
    BY <1>0 DEF Request
  <2>2. /\ req[l].todo = <<>> /\ req[l].pc \in {"access", "standing"}
        /\ req[l].bucket \in Buckets /\ req[l].epoch_before <= epoch
    BY <1>0, <1>2 DEF FetchFails, Shape
  <2>3. DrainInto(l, state) /\ UNCHANGED <<clock, chainVars, cache, epoch>>
    BY <1>2 DEF FetchFails
  <2> HIDE DEF state
  <2> QED BY <2>1, <2>2, <2>3, DrainStep
<1> QED BY <1>1, <1>2

\* An invalidation begins: every lookup that has sampled the epoch will see
\* that it moved, so nothing is owed to those in flight any more.
LEMMA BumpStep == ASSUME Inv, NEW l \in Lookups, BumpEpoch(l) PROVE Inv'
<1> DEFINE q == [req[l] EXCEPT !.pc = "remove"]
<1>1. /\ req[l] \in Request /\ Shape(req[l]) /\ epoch \in Nat
      /\ req[l].pc = "apply" /\ req[l].todo # <<>>
  BY DEF BumpEpoch, Inv, TypeOK, LookupShape
<1>2. /\ q \in Request /\ q.pc = "remove" /\ q.todo = req[l].todo
      /\ q.bucket = req[l].bucket /\ q.epoch_before = req[l].epoch_before
  BY <1>1 DEF Request
<1>3. req' = [req EXCEPT ![l] = q] /\ epoch' = epoch + 1
  BY DEF BumpEpoch, Advance
<1> HIDE DEF q
<1>4. req'[l] = q /\ \A m \in Lookups \ {l} : req'[m] = req[m]
  BY <1>3 DEF Inv, TypeOK
<1>5. UNCHANGED <<chain, stream, missed, feed, lagged, cache>>
  BY DEF BumpEpoch, chainVars
<1>6. TypeOK'
  <2>1. req' \in [Lookups -> Request] /\ epoch' \in Nat
    BY <1>1, <1>2, <1>3 DEF Inv, TypeOK
  <2> QED BY <2>1 DEF BumpEpoch, chainVars, Inv, TypeOK
<1>7. \A m \in Lookups : req'[m].epoch_before \in Nat /\ req'[m].epoch_before < epoch'
  <2>1. \A m \in Lookups : req[m].epoch_before \in Nat /\ req[m].epoch_before <= epoch
    BY DEF Inv, TypeOK, LookupShape, Shape, Request
  <2>2. \A m \in Lookups : req'[m].epoch_before = req[m].epoch_before
    BY <1>2, <1>4
  <2> QED BY <1>1, <1>3, <2>1, <2>2
<1>8. LookupShape'
  <2>1. \A m \in Lookups \ {l} : Shape(req[m])
    BY DEF Inv, LookupShape
  <2> QED BY <1>1, <1>2, <1>4, <1>7, <2>1, <1>6, SMTT(30) DEF LookupShape, Shape, TypeOK
<1>9. InFlight'
  BY <1>6, <1>7 DEF InFlight, TypeOK
<1>10. OutdatedIsDoomed'
  <2> SUFFICES ASSUME NEW b \in Buckets, Outdated(b)'
               PROVE  Coming(b)' \/ BeingRemoved(b)'
    BY DEF OutdatedIsDoomed
  <2>1. Coming(b) \/ \E m \in Lookups : Removes(req[m], b)
    BY <1>5 DEF Inv, OutdatedIsDoomed, Outdated, BeingRemoved
  <2>2. ~Removes(req[l], b)
    BY <1>1 DEF Removes
  <2>3. \A m \in Lookups \ {l} : Removes(req[m], b) => Removes(req[m], b)'
    BY <1>4, <1>6, <1>7 DEF Removes, TypeOK
  <2>4. CASE \E i \in DOMAIN req[l].todo : Names(req[l].todo[i], b)
    <3>1. PICK i \in DOMAIN req[l].todo : Names(req[l].todo[i], b)
      BY <2>4
    <3>2. CASE i = 1
      <4>1. Head(q.todo) = req[l].todo[1]
        BY <1>1, <1>2 DEF Request
      <4> QED BY <1>2, <1>4, <3>1, <3>2, <4>1 DEF BeingRemoved, Removes, Names
    <3>3. CASE i # 1
      BY <1>2, <1>4, <3>1, <3>3 DEF Coming, Names
    <3> QED BY <3>2, <3>3
  <2>5. CASE Coming(b) /\ ~ \E i \in DOMAIN req[l].todo : Names(req[l].todo[i], b)
    <3>1. CASE b \in stream \cup missed \/ lagged \/ \E i \in DOMAIN feed : Names(feed[i], b)
      BY <1>5, <3>1 DEF Coming, Names
    <3>2. CASE \E m \in Lookups \ {l} : \E i \in DOMAIN req[m].todo :
                  Names(req[m].todo[i], b) /\ (i = 1 => req[m].pc # "remove")
      BY <1>4, <3>2 DEF Coming, Names
    <3> QED BY <2>5, <3>1, <3>2 DEF Coming
  <2> QED BY <2>1, <2>2, <2>3, <2>4, <2>5 DEF BeingRemoved
<1> QED BY <1>6, <1>8, <1>9, <1>10 DEF Inv

\* An invalidation ends: the entry it was for is gone, the rest of todo is
\* still to come.
LEMMA RemoveStep == ASSUME Inv, NEW l \in Lookups, Remove(l) PROVE Inv'
<1> DEFINE rest == Tail(req[l].todo)
           q == [req[l] EXCEPT !.pc = "apply", !.todo = rest]
<1>1. /\ req[l] \in Request /\ Shape(req[l]) /\ req[l].pc = "remove"
      /\ req[l].todo \in Seq(Buckets \cup {All}) /\ req[l].todo # <<>>
  BY DEF Remove, Inv, TypeOK, LookupShape, Shape, Request
<1>2. /\ rest \in Seq(Buckets \cup {All})
      /\ \A i \in DOMAIN req[l].todo : i # 1 =>
            i - 1 \in DOMAIN rest /\ rest[i - 1] = req[l].todo[i]
      /\ Head(req[l].todo) \in Buckets \cup {All}
  BY <1>1
<1>3. req' = [req EXCEPT ![l] = q]
  BY DEF Remove
<1> HIDE DEF rest
<1>4. /\ q \in Request /\ q.pc = "apply" /\ q.todo = rest
      /\ q.bucket = req[l].bucket /\ q.epoch_before = req[l].epoch_before
  BY <1>1, <1>2 DEF Request
<1> HIDE DEF q
<1>5. req'[l] = q /\ \A m \in Lookups \ {l} : req'[m] = req[m]
  BY <1>3 DEF Inv, TypeOK
<1>6. UNCHANGED <<chain, stream, missed, feed, lagged, epoch>>
  BY DEF Remove, chainVars
<1>7. TypeOK'
  <2>1. req' \in [Lookups -> Request]
    BY <1>3, <1>4 DEF Inv, TypeOK
  <2>2. cache' \in [Buckets -> CachedMembership \cup {None}]
    BY DEF Remove, Removed, Inv, TypeOK
  <2> QED BY <2>1, <2>2 DEF Remove, chainVars, Inv, TypeOK
<1>8. ASSUME NEW b \in Buckets, Coming(b) PROVE Coming(b)'
  <2>1. CASE b \in stream \cup missed \/ lagged \/ \E i \in DOMAIN feed : Names(feed[i], b)
    BY <1>6, <2>1 DEF Coming, Names
  <2>2. ASSUME NEW m \in Lookups \ {l}, NEW i \in DOMAIN req[m].todo,
               Names(req[m].todo[i], b), i = 1 => req[m].pc # "remove"
        PROVE  Coming(b)'
    BY <1>5, <2>2 DEF Coming, Names
  <2>3. ASSUME NEW i \in DOMAIN req[l].todo, Names(req[l].todo[i], b), i # 1
        PROVE  Coming(b)'
    BY <1>2, <1>4, <1>5, <2>3 DEF Coming, Names
  <2> QED BY <1>1, <1>8, <2>1, <2>2, <2>3 DEF Coming
<1>9. LookupShape'
  BY <1>1, <1>4, <1>5, <1>6 DEF Inv, LookupShape, Shape
<1>10. InFlight'
  <2> SUFFICES ASSUME NEW m \in Lookups, CarriesOutdated(req[m])'
               PROVE  Coming(req[m].bucket)' \/ epoch' # req'[m].epoch_before
    BY DEF InFlight
  <2>1. m # l /\ req'[m] = req[m]
    BY <1>4, <1>5 DEF CarriesOutdated
  <2>2. CarriesOutdated(req[m]) /\ req[m].bucket \in Buckets
    BY <1>6, <2>1 DEF CarriesOutdated, Inv, LookupShape, Shape
  <2>3. Coming(req[m].bucket) \/ epoch # req[m].epoch_before
    BY <2>2 DEF Inv, InFlight
  <2>4. \A b \in Buckets : Coming(b)' => b # req'[m].bucket \/ Coming(req[m].bucket)'
    BY DEF Coming
  <2> QED BY <1>6, <1>8, <2>1, <2>2, <2>3, <2>4
<1>11. OutdatedIsDoomed'
  <2> SUFFICES ASSUME NEW b \in Buckets, Outdated(b)'
               PROVE  Coming(b)' \/ BeingRemoved(b)'
    BY DEF OutdatedIsDoomed
  <2>1. ~Names(Head(req[l].todo), b) /\ cache'[b] = cache[b]
    BY DEF Outdated, Remove, Removed, Names
  <2>2. Coming(b) \/ \E m \in Lookups : Removes(req[m], b)
    BY <1>6, <2>1 DEF Inv, OutdatedIsDoomed, Outdated, BeingRemoved
  <2>3. ~Removes(req[l], b)
    BY <1>1, <2>1 DEF Removes
  <2>4. \A m \in Lookups \ {l} : Removes(req[m], b) => Removes(req[m], b)'
    BY <1>5, <1>6 DEF Removes, Names
  <2> QED BY <1>8, <2>2, <2>3, <2>4 DEF BeingRemoved
<1> QED BY <1>7, <1>9, <1>10, <1>11 DEF Inv

\* A step of lookup l that leaves the cache alone.
LEMMA ReadingStep ==
    ASSUME Inv, NEW l \in Lookups, NEW q \in Request, req' = [req EXCEPT ![l] = q],
           UNCHANGED <<clock, chainVars, feed, lagged, cache, epoch>>,
           q.todo = req[l].todo, q.pc # "remove", Shape(q),
           CarriesOutdated(q) => Coming(q.bucket) \/ epoch # q.epoch_before,
           \A b \in Buckets : Removes(req[l], b) => Removes(q, b)
    PROVE  Inv'
<1>1. TypeOK'
  BY DEF chainVars, Inv, TypeOK
<1>2. UNCHANGED <<chain, stream, missed, feed, lagged, epoch>> /\ cache' = cache
  BY DEF chainVars
<1> QED BY <1>1, <1>2, LocalStep

\* A lookup that ends without anything left to remove.
LEMMA FinishStep ==
    ASSUME Inv, NEW l \in Lookups, Finish(l),
           UNCHANGED <<clock, chainVars, feed, lagged, cache, epoch>>,
           req[l].todo = <<>>, \A b \in Buckets : ~Removes(req[l], b)
    PROVE  Inv'
<1>1. epoch \in Nat
  BY DEF Inv, TypeOK
<1>2. Idle \in Request
  <2>1. <<>> \in Seq(Buckets \cup {All})
    OBVIOUS
  <2> QED BY <2>1 DEF Idle, Request
<1>3. /\ Shape(Idle) /\ ~CarriesOutdated(Idle)
      /\ Idle.todo = <<>> /\ Idle.pc = "idle"
  BY <1>1 DEF Idle, Shape, CarriesOutdated
<1>4. req' = [req EXCEPT ![l] = Idle]
  BY DEF Finish
<1> QED BY <1>2, <1>3, <1>4, ReadingStep

\* From the drain to the reads: nothing is held yet.
LEMMA BeforeReadStep ==
    ASSUME Inv, NEW l \in Lookups,
           \/ Applied(l) \/ Hit(l) \/ Miss(l) \/ SampleEpoch(l)
           \/ ServeStale(l) \/ Refuse(l)
    PROVE  Inv'
<1>0. req[l] \in Request /\ Shape(req[l]) /\ epoch \in Nat
  BY DEF Inv, TypeOK, LookupShape
<1>1. CASE Applied(l)
  <2> DEFINE pc == IF req[l].failed THEN "stale" ELSE "get"
             q == [req[l] EXCEPT !.pc = pc]
  <2>1. pc \in {"stale", "get"} /\ req[l].pc = "apply" /\ req[l].todo = <<>>
    BY <1>1 DEF Applied
  <2>2. req' = [req EXCEPT ![l] = q]
    BY <1>1 DEF Applied, Advance
  <2> HIDE DEF pc
  <2>3. /\ q \in Request /\ q.pc = pc /\ q.todo = <<>> /\ q.bucket = req[l].bucket
        /\ q.epoch_before = req[l].epoch_before
    BY <1>0, <2>1 DEF Request
  <2>4. Shape(q) /\ ~CarriesOutdated(q) /\ \A b \in Buckets : ~Removes(req[l], b)
    BY <1>0, <2>1, <2>3 DEF Shape, CarriesOutdated, Removes
  <2> HIDE DEF q
  <2> QED BY <1>1, <2>1, <2>2, <2>3, <2>4, ReadingStep DEF Applied
<1>2. CASE Miss(l)
  <2> DEFINE q == [req[l] EXCEPT !.pc = "sample"]
  <2>1. req[l].pc = "get" /\ req' = [req EXCEPT ![l] = q]
    BY <1>2 DEF Miss, Advance
  <2>2. /\ q \in Request /\ q.pc = "sample" /\ q.todo = req[l].todo
        /\ q.bucket = req[l].bucket /\ q.epoch_before = req[l].epoch_before
    BY <1>0 DEF Request
  <2>3. Shape(q) /\ ~CarriesOutdated(q) /\ \A b \in Buckets : ~Removes(req[l], b)
    BY <1>0, <2>1, <2>2 DEF Shape, CarriesOutdated, Removes
  <2> HIDE DEF q
  <2> QED BY <1>2, <2>1, <2>2, <2>3, ReadingStep DEF Miss
<1>3. CASE SampleEpoch(l)
  <2> DEFINE q == [req[l] EXCEPT !.pc = "access", !.epoch_before = epoch]
  <2>1. req[l].pc = "sample" /\ req' = [req EXCEPT ![l] = q]
    BY <1>3 DEF SampleEpoch
  <2>2. /\ q \in Request /\ q.pc = "access" /\ q.todo = req[l].todo
        /\ q.bucket = req[l].bucket /\ q.epoch_before = epoch
    BY <1>0 DEF Request
  <2>3. Shape(q) /\ ~CarriesOutdated(q) /\ \A b \in Buckets : ~Removes(req[l], b)
    BY <1>0, <2>1, <2>2 DEF Shape, CarriesOutdated, Removes
  <2> HIDE DEF q
  <2> QED BY <1>3, <2>1, <2>2, <2>3, ReadingStep DEF SampleEpoch
<1>4. CASE Hit(l) \/ ServeStale(l) \/ Refuse(l)
  <2>1. /\ req[l].pc \in {"get", "stale"} /\ Finish(l)
        /\ UNCHANGED <<clock, chainVars, feed, lagged, cache, epoch>>
    BY <1>4 DEF Hit, ServeStale, Refuse
  <2>2. req[l].todo = <<>> /\ \A b \in Buckets : ~Removes(req[l], b)
    BY <1>0, <2>1 DEF Shape, Removes
  <2> QED BY <2>1, <2>2, FinishStep
<1> QED BY <1>1, <1>2, <1>3, <1>4

\* From the first read to the answer.
LEMMA AfterReadStep ==
    ASSUME Inv, NEW l \in Lookups,
           \/ fetch_access(l) \/ fetch_serves_as_replica(l) \/ CheckEpoch(l)
           \/ Insert(l) \/ RecheckEpoch(l) \/ UndoInsert(l)
    PROVE  Inv'
<1>0. req[l] \in Request /\ Shape(req[l]) /\ epoch \in Nat
  BY DEF Inv, TypeOK, LookupShape
<1>1. CASE fetch_access(l)
  <2> DEFINE q == [req[l] EXCEPT !.pc = "standing", !.version = chain[req[l].bucket]]
  <2>1. req[l].pc = "access" /\ req' = [req EXCEPT ![l] = q]
    BY <1>1 DEF fetch_access
  <2>2. chain[req[l].bucket] \in Nat
    BY <1>0, <2>1 DEF Shape, Inv, TypeOK
  <2>3. /\ q \in Request /\ q.pc = "standing" /\ q.todo = req[l].todo
        /\ q.bucket = req[l].bucket /\ q.epoch_before = req[l].epoch_before
        /\ q.version = chain[req[l].bucket]
    BY <1>0, <2>2 DEF Request
  <2>4. Shape(q) /\ ~CarriesOutdated(q) /\ \A b \in Buckets : ~Removes(req[l], b)
    BY <1>0, <2>1, <2>2, <2>3 DEF Shape, CarriesOutdated, Removes
  <2> HIDE DEF q
  <2> QED BY <1>1, <2>1, <2>3, <2>4, ReadingStep DEF fetch_access
<1>2. ASSUME NEW pc \in {"check", "insert", "undo"},
             req[l].pc \in {"standing", "check", "recheck"},
             pc = "undo" <=> req[l].pc = "recheck",
             Advance(l, pc), UNCHANGED <<clock, chainVars, feed, lagged, cache, epoch>>
      PROVE  Inv'
  <2> DEFINE q == [req[l] EXCEPT !.pc = pc]
  <2>1. req' = [req EXCEPT ![l] = q]
    BY <1>2 DEF Advance
  <2>2. /\ q \in Request /\ q.pc = pc /\ q.todo = req[l].todo
        /\ q.bucket = req[l].bucket /\ q.epoch_before = req[l].epoch_before
        /\ q.version = req[l].version
    BY <1>0, <1>2 DEF Request
  <2>3. Shape(q) /\ \A b \in Buckets : Removes(req[l], b) => Removes(q, b)
    BY <1>0, <1>2, <2>2 DEF Shape, Removes
  <2>4. CarriesOutdated(q) => Coming(q.bucket) \/ epoch # q.epoch_before
    <3>1. CarriesOutdated(q) => CarriesOutdated(req[l])
      BY <1>2, <2>2 DEF CarriesOutdated
    <3> QED BY <2>2, <3>1 DEF Inv, InFlight
  <2> HIDE DEF q
  <2> QED BY <1>2, <2>1, <2>2, <2>3, <2>4, ReadingStep
<1>3. CASE fetch_serves_as_replica(l)
  BY <1>2, <1>3 DEF fetch_serves_as_replica
<1>4. CASE CheckEpoch(l)
  <2>1. req[l].pc = "check" /\ UNCHANGED <<clock, chainVars, feed, lagged, cache, epoch>>
    BY <1>4 DEF CheckEpoch
  <2>2. req[l].todo = <<>> /\ \A b \in Buckets : ~Removes(req[l], b)
    BY <1>0, <2>1 DEF Shape, Removes
  <2>3. Advance(l, "insert") \/ Finish(l)
    BY <1>4 DEF CheckEpoch
  <2> QED BY <1>2, <2>1, <2>2, <2>3, FinishStep
<1>5. CASE RecheckEpoch(l)
  <2>1. req[l].pc = "recheck" /\ UNCHANGED <<clock, chainVars, feed, lagged, cache, epoch>>
    BY <1>5 DEF RecheckEpoch
  <2>2. CASE epoch = req[l].epoch_before
    <3>1. req[l].todo = <<>> /\ \A b \in Buckets : ~Removes(req[l], b)
      BY <1>0, <2>1, <2>2 DEF Shape, Removes
    <3>2. Finish(l)
      BY <1>5, <2>2 DEF RecheckEpoch
    <3> QED BY <2>1, <3>1, <3>2, FinishStep
  <2>3. CASE epoch # req[l].epoch_before
    <3>1. Advance(l, "undo")
      BY <1>5, <2>3 DEF RecheckEpoch
    <3> QED BY <1>2, <2>1, <3>1
  <2> QED BY <2>2, <2>3
<1>6. CASE Insert(l)
  <2> DEFINE q == [req[l] EXCEPT !.pc = "recheck"]
             entry == [version |-> req[l].version, fetched_at |-> clock]
  <2>1. req[l].pc = "insert" /\ req' = [req EXCEPT ![l] = q]
    BY <1>6 DEF Insert, Advance
  <2>2. /\ q \in Request /\ q.pc = "recheck" /\ q.todo = req[l].todo
        /\ q.bucket = req[l].bucket /\ q.epoch_before = req[l].epoch_before
        /\ q.version = req[l].version
    BY <1>0 DEF Request
  <2>3. Shape(q) /\ ~CarriesOutdated(q) /\ \A b \in Buckets : ~Removes(req[l], b)
    BY <1>0, <2>1, <2>2 DEF Shape, CarriesOutdated, Removes
  <2>4. req[l].bucket \in Buckets /\ req[l].version \in Nat
    BY <1>0, <2>1 DEF Shape
  <2>5. entry \in CachedMembership /\ entry.version = req[l].version
    BY <2>4 DEF CachedMembership, Inv, TypeOK
  <2>6. cache' = [cache EXCEPT ![req[l].bucket] = entry]
    BY <1>6 DEF Insert
  <2> HIDE DEF q, entry
  <2>7. UNCHANGED <<chain, stream, missed, feed, lagged, epoch>>
    BY <1>6 DEF Insert, chainVars
  <2>8. TypeOK'
    <3>1. req' \in [Lookups -> Request]
      BY <2>1, <2>2 DEF Inv, TypeOK
    <3>2. cache' \in [Buckets -> CachedMembership \cup {None}]
      BY <2>4, <2>5, <2>6 DEF Inv, TypeOK
    <3> QED BY <1>6, <3>1, <3>2 DEF Insert, chainVars, Inv, TypeOK
  <2>9. ASSUME NEW b \in Buckets
        PROVE  \/ cache'[b] = cache[b] /\ (Removes(req[l], b) => Removes(q, b))
               \/ cache'[b].version < chain[b] => Coming(b) \/ Removes(q, b)
    <3>1. CASE b # req[l].bucket
      BY <2>3, <2>6, <3>1 DEF Inv, TypeOK
    <3>2. CASE b = req[l].bucket
      <4>1. cache'[b].version = req[l].version
        BY <2>4, <2>5, <2>6, <3>2 DEF Inv, TypeOK
      <4>2. req[l].version < chain[b] => Coming(b) \/ epoch # req[l].epoch_before
        BY <2>1, <3>2 DEF Inv, InFlight, CarriesOutdated
      <4> QED BY <2>2, <3>2, <4>1, <4>2 DEF Removes
    <3> QED BY <3>1, <3>2
  <2> QED BY <2>1, <2>2, <2>3, <2>7, <2>8, <2>9, LocalStep
<1>7. CASE UndoInsert(l)
  <2>1. /\ req[l].pc = "undo" /\ req' = [req EXCEPT ![l] = Idle]
        /\ cache' = [cache EXCEPT ![req[l].bucket] = None]
        /\ UNCHANGED <<chain, stream, missed, feed, lagged, epoch>>
    BY <1>7 DEF UndoInsert, Finish, chainVars
  <2>2. Idle \in Request
    <3>1. <<>> \in Seq(Buckets \cup {All})
      OBVIOUS
    <3> QED BY <3>1 DEF Idle, Request
  <2>3. /\ Shape(Idle) /\ ~CarriesOutdated(Idle)
        /\ Idle.todo = <<>> /\ Idle.pc = "idle" /\ req[l].todo = <<>>
        /\ req[l].bucket \in Buckets
    BY <1>0, <2>1 DEF Idle, Shape, CarriesOutdated
  <2>4. TypeOK'
    <3>1. req' \in [Lookups -> Request]
      BY <2>1, <2>2 DEF Inv, TypeOK
    <3>2. cache' \in [Buckets -> CachedMembership \cup {None}]
      BY <2>1 DEF Inv, TypeOK
    <3> QED BY <1>7, <3>1, <3>2 DEF UndoInsert, chainVars, Inv, TypeOK
  <2>5. \A b \in Buckets :
           \/ cache'[b] = None
           \/ cache'[b] = cache[b] /\ (Removes(req[l], b) => Removes(Idle, b))
    BY <2>1, <2>3 DEF Removes, Inv, TypeOK
  <2> QED BY <2>1, <2>2, <2>3, <2>4, <2>5, LocalStep
<1> QED BY <1>1, <1>3, <1>4, <1>5, <1>6, <1>7

----------------------------------------------------------------------------
(* The theorem                                                              *)

\* The invariant holds in every reachable state, for any number of lookups.
THEOREM InvAlways == Spec => []Inv
<1>1. Init => Inv
  <2> SUFFICES ASSUME Init PROVE Inv
    OBVIOUS
  <2>1. Idle \in Request /\ <<>> \in Seq(Buckets \cup {All})
    <3>1. <<>> \in Seq(Buckets \cup {All})
      OBVIOUS
    <3> QED BY <3>1 DEF Idle, Request
  <2>2. TypeOK
    <3>1. feed \in Seq(Buckets \cup {All}) /\ req \in [Lookups -> Request]
      BY <2>1 DEF Init
    <3>2. /\ clock \in Nat /\ chain \in [Buckets -> Nat]
          /\ stream \in SUBSET Buckets /\ missed \in SUBSET Buckets
          /\ drops \in Nat /\ news \in Nat /\ epoch \in Nat
          /\ cache \in [Buckets -> CachedMembership \cup {None}]
      BY DEF Init
    <3>3. follower \in {"down", "bootstrap", "following"} /\ lagged \in BOOLEAN
      BY DEF Init
    <3> QED BY <3>1, <3>2, <3>3 DEF TypeOK
  <2>3. LookupShape
    <3>1. ASSUME NEW l \in Lookups PROVE Shape(req[l])
      <4>1. /\ req[l].pc = "idle" /\ req[l].todo = <<>>
            /\ req[l].epoch_before = 0 /\ epoch = 0
        BY DEF Init, Idle
      <4> QED BY <4>1 DEF Shape
    <3> QED BY <3>1 DEF LookupShape
  <2>4. InFlight
    BY DEF Init, InFlight, CarriesOutdated, Idle
  <2>5. OutdatedIsDoomed
    BY DEF Init, OutdatedIsDoomed, Outdated
  <2> QED BY <2>2, <2>3, <2>4, <2>5 DEF Inv
<1>2. Inv /\ [Next]_vars => Inv'
  <2> SUFFICES ASSUME Inv, [Next]_vars PROVE Inv'
    OBVIOUS
  <2>1. ASSUME NEW l \in Lookups, LookupStep(l) \/ \E b \in Requested : lookup(l, b)
        PROVE  Inv'
    BY <2>1, CacheAssumption, DrainingStep, BumpStep, RemoveStep, BeforeReadStep, AfterReadStep DEF LookupStep
  <2> QED BY <2>1, ChainNextStep, FollowerNextStep, QuietStep DEF Next
<1> QED BY <1>1, <1>2, PTL DEF Spec

\* No lookup resurrects revoked access: an outdated entry is only in the
\* cache while its invalidation is on its way or being carried out.
THEOREM NoResurrection == Spec => []OutdatedIsDoomed
<1>1. Inv => OutdatedIsDoomed
  BY DEF Inv
<1> QED BY <1>1, InvAlways, PTL

\* The cache, the channel and every lookup in flight are well typed; in
\* particular no cache entry is made of a failed read.
THEOREM CacheTypeOK == Spec => []TypeOK
<1>1. Inv => TypeOK
  BY DEF Inv
<1> QED BY <1>1, InvAlways, PTL

=============================================================================
