------------------------ MODULE ChallengeResponder ------------------------
(***************************************************************************)
(* The challenge responder's task (crates/providers/challenge, lib.rs) and  *)
(* the fan-out that feeds it (crates/providers/coordinator, lib.rs): events *)
(* of finalized blocks go through a bounded broadcast channel; events of    *)
(* blocks that the node did not see or could not read are lost.  After a    *)
(* gap a Resubscribed event tells the tasks to look at the chain again; an  *)
(* unreadable block is told to the membership cache alone.                  *)
(***************************************************************************)
EXTENDS TxSubmission

CONSTANT
    ChannelCapacity     \* EVENT_CHANNEL_CAPACITY

ASSUME ChannelAssumption == ChannelCapacity \in Nat \ {0}

VARIABLES
    follower,       \* the connection to the chain: up, connections so far
    feed,           \* the responder's end of the channel: events, lagged
    responder       \* the loop's local state

followerVars == <<follower, feed>>
respVars == <<follower, feed, responder>>

ResponderInit ==
    /\ follower = [up |-> FALSE, connects |-> 0]
    /\ feed = [events |-> <<>>, lagged |-> FALSE]
    /\ responder = [pc |-> "select", paused |-> FALSE, todo |-> <<>>]

----------------------------------------------------------------------------
(* The chain-state coordinator                                              *)

Resubscribed == "Resubscribed"
MembershipScopeUnknown == "MembershipScopeUnknown"

\* A full channel drops its oldest event; the receiver is told that it lagged.
Sent(event) ==
    IF Len(feed.events) < ChannelCapacity
    THEN [feed EXCEPT !.events = Append(feed.events, event)]
    ELSE [events |-> Append(Tail(feed.events), event), lagged |-> TRUE]

\* A block of the followed chain is read and its event sent, or reading it
\* fails and its events are lost (escalate_block_read_failure).
BroadcastBlock(c) ==
    \/ feed' = Sent(c) /\ UNCHANGED faults
    \/ Fault /\ feed' = Sent(MembershipScopeUnknown)

\* A challenge is opened; the node hears of it if it follows the chain.
ChallengeCreated(c) ==
    /\ create_challenge(c)
    /\ IF follower.up THEN BroadcastBlock(c) ELSE UNCHANGED <<feed, faults>>
    /\ UNCHANGED <<submit_lock, tx, pool, follower, responder>>

\* connect_and_follow up to its Resubscribed event.
Connect ==
    /\ ~follower.up
    /\ follower.connects < scenario.connects
    /\ follower' = [follower EXCEPT !.up = TRUE, !.connects = @ + 1]
    /\ feed' = Sent(Resubscribed)
    /\ UNCHANGED <<chainVars, txVars, responder>>

\* The stream ends or stalls.  Past the bound the coordinator is gone.
Disconnect ==
    /\ follower.up
    /\ follower' = [follower EXCEPT !.up = FALSE]
    /\ UNCHANGED <<chainVars, txVars, feed, responder>>

CoordinatorGone == ~follower.up /\ follower.connects = scenario.connects

----------------------------------------------------------------------------
(* run_loop                                                                 *)

Selecting == responder.pc = "select"

Loop(pc, todo) == [responder EXCEPT !.pc = pc, !.todo = todo]

Pause(paused) ==
    /\ Selecting /\ responder.paused # paused
    /\ responder' = [responder EXCEPT !.paused = paused]
    /\ UNCHANGED <<chainVars, txVars, followerVars>>

FetchOnly(event) ==
    IF scenario.auto_respond /\ event \in Challenges THEN Loop("fetch", <<event>>) ELSE responder

\* What the loop does with an event: a challenge is fetched, a new stream (or
\* a lag) starts a scan.  The escalation of an unreadable block is not for
\* this task and is dropped.
Handling(event) ==
    IF ~scenario.auto_respond \/ event = MembershipScopeUnknown THEN responder
    ELSE IF event = Resubscribed THEN Loop("scan", <<>>) ELSE Loop("fetch", <<event>>)

\* The events arm of the select has something to return.
EventReady == ~responder.paused /\ (feed.lagged \/ feed.events # <<>>)

\* Lagged comes first and is told once; what the channel still holds follows.
RecvEvent ==
    /\ Selecting /\ EventReady
    /\ feed' = IF feed.lagged THEN [feed EXCEPT !.lagged = FALSE]
               ELSE [feed EXCEPT !.events = Tail(@)]
    /\ responder' = Handling(IF feed.lagged THEN Resubscribed ELSE Head(feed.events))
    /\ UNCHANGED <<chainVars, txVars, follower>>

\* The select is biased: the interval's tick waits for a quiet channel.
IntervalTick ==
    /\ Selecting /\ ~responder.paused /\ ~EventReady
    /\ scenario.auto_respond /\ scenario.safety_net
    /\ responder' = Loop("scan", <<>>)
    /\ UNCHANGED <<chainVars, txVars, followerVars>>

Continue(todo) == IF todo = <<>> THEN Loop("select", todo) ELSE Loop("respond", todo)

\* A point read of the challenge of an event: gone, or to be answered.
fetch_challenge ==
    /\ responder.pc = "fetch"
    /\ responder' =
           IF challenge[responder.todo[1]].status = "open" THEN Continue(responder.todo) ELSE Continue(<<>>)
    /\ UNCHANGED <<chainVars, txVars, followerVars>>

\* scan_and_respond reads all open challenges.
poll_challenges ==
    /\ responder.pc = "scan"
    /\ responder' = Continue(SetToSeq({c \in Challenges : challenge[c].status = "open"}))
    /\ UNCHANGED <<chainVars, txVars, followerVars>>

\* Either read fails: it is logged, and the loop goes on.
ReadFails ==
    /\ responder.pc \in {"fetch", "scan"}
    /\ Fault
    /\ responder' = Continue(<<>>)
    /\ UNCHANGED <<chainVars, submit_lock, tx, pool, followerVars>>

\* respond_to_challenge gathers the proof and submits it ...
respond_to_challenge ==
    /\ responder.pc = "respond"
    /\ Head(responder.todo) \in scenario.data
    /\ responder' = Loop("submit", responder.todo)
    /\ tx' = [tx EXCEPT !["responder"] = Submission(RespondCall(Head(responder.todo)))]
    /\ UNCHANGED <<chainVars, submit_lock, pool, faults, followerVars>>

\* The challenge at hand is over with: Success, SubmissionFailed, ...
NextChallenge == responder' = Continue(Tail(responder.todo))

\* ... or has no data for it ...
DataNotFound ==
    /\ responder.pc = "respond"
    /\ Head(responder.todo) \notin scenario.data
    /\ NextChallenge
    /\ UNCHANGED <<chainVars, txVars, followerVars>>

\* ... or cannot read it.
ProofGenerationFailed ==
    /\ responder.pc = "respond"
    /\ Fault
    /\ NextChallenge
    /\ UNCHANGED <<chainVars, submit_lock, tx, pool, followerVars>>

submit_response ==
    /\ responder.pc = "submit" /\ Returned("responder")
    /\ NextChallenge
    /\ tx' = [tx EXCEPT !["responder"] = NoTx]
    /\ UNCHANGED <<chainVars, submit_lock, pool, faults, followerVars>>

ResponderSteps ==
    \/ RecvEvent \/ IntervalTick
    \/ fetch_challenge \/ poll_challenges
    \/ respond_to_challenge \/ DataNotFound \/ submit_response

ResponderNext ==
    \/ ResponderSteps
    \/ \E c \in Challenges : ChallengeCreated(c)
    \/ Connect \/ Disconnect
    \/ Pause(TRUE) \/ Pause(FALSE)
    \/ ReadFails \/ ProofGenerationFailed

=============================================================================
