---------------------------- MODULE SlackDelivery ----------------------------
(***************************************************************************)
(* One message on its way to Slack: its row in the outbox                  *)
(* (src/delivery/postgres-delivery-store.ts), the relays that drain the    *)
(* outbox under the leader lease (src/slack/deliveries.ts,                 *)
(* src/persistence/leader-lease.ts), and, when the message is the reply of *)
(* a run, the handler of that turn, which posts it by itself and leaves    *)
(* the row to the relays if it cannot (src/slack/turn-handler.ts).  Slack  *)
(* is external: a request may land after its sender stopped waiting.       *)
(*                                                                         *)
(* A step goes from one await to the next.  Clocks agree within the margin *)
(* of a claim, so that a relay knows when its own claim has lapsed.        *)
(***************************************************************************)
EXTENDS Naturals, FiniteSets

CONSTANTS
    Relays,         \* processes that drain the outbox
    Home,           \* processes that handle turns
    MaxAttempts,    \* failures after which a relay gives a row up for a while
    EnqueueBound,   \* bound: calls of enqueue
    LeaseBound,     \* bound: lost lock connections
    FaultBound      \* bound: failing calls, and crashes

ASSUME DeliveryAssumption ==
    /\ Home \subseteq Relays /\ Relays \cap {"handler", "none"} = {}
    /\ {MaxAttempts, EnqueueBound, LeaseBound, FaultBound} \subseteq Nat /\ MaxAttempts > 0

VARIABLES
    home,           \* process of the turn that the message answers, or "none"
    row,            \* the row in the outbox
    slack,          \* messages posted, those a search finds, requests left behind
    leader,         \* who has the advisory lock, or "none"
    pc,             \* where each sender is
    relay,          \* a relay's memory: its claim, its lease, its tracker
    overlap,        \* history: two posts were under way, or one was out of sight
    late,           \* history: the handler came to post what had been posted
    enqueues, losses, faults

vars == <<home, row, slack, leader, pc, relay, overlap, late, enqueues, losses, faults>>

Senders == Relays \cup {"handler"}
run == home # "none"                        \* the key is that of a run's reply
Pinned(r) == r = home /\ pc["handler"] # "done"     \* inFlightRuns.has
\* The sender may post without a further search.
Posting(s) == pc[s] \in {"post", "sent", "limited"}

Delivering(s) == pc[s] \notin {"out", "expire", "claim", "leave", "done"}

NewRow == [state |-> "pending", claimed |-> FALSE, age |-> "young"]
NoMemory == [mine |-> FALSE, again |-> FALSE, lost |-> FALSE,
             failures |-> 0, posted |-> FALSE, dead |-> FALSE]

Init ==
    /\ home \in Home \cup {"none"}
    /\ row = [NewRow EXCEPT !.state = "none"]
    /\ slack = [posted |-> 0, found |-> 0, stray |-> 0]
    /\ leader = "none"
    /\ pc = [s \in Senders |-> IF s \in Relays THEN "out" ELSE IF run THEN "idle" ELSE "done"]
    /\ relay = [r \in Relays |-> NoMemory]
    /\ overlap = FALSE /\ late = FALSE
    /\ enqueues = 0 /\ losses = 0 /\ faults = 0

Fault == faults < FaultBound /\ faults' = faults + 1
Goes(s, where) == pc' = [pc EXCEPT ![s] = where]

-----------------------------------------------------------------------------
(* The outbox                                                              *)

\* Broken variant: a delivered row is opened again as well.
enqueueAnew ==
    /\ enqueues < EnqueueBound /\ (run => enqueues = 0)
    /\ enqueues' = enqueues + 1
    /\ row' = IF row.state = "pending" THEN row ELSE NewRow
    /\ slack' = IF row.state = "none" THEN slack ELSE [slack EXCEPT !.found = 0]
    /\ UNCHANGED <<home, leader, pc, relay, overlap, losses, faults, late>>

\* enqueue(), perhaps again with the same key: an expired row is opened anew, and
\* what was posted before its new date is out of the sight of a search.  A run is
\* notified terminal once, and its reply enqueued then.
enqueue ==
    /\ enqueues < EnqueueBound /\ (run => enqueues = 0)
    /\ enqueues' = enqueues + 1
    /\ IF row.state \in {"none", "expired"}
       THEN /\ row' = NewRow
            /\ slack' = [slack EXCEPT !.found = IF row.state = "none" THEN @ ELSE 0]
            /\ overlap' = \/ overlap
                          \/ /\ row.state = "expired"
                             /\ slack.posted + slack.stray > 0 \/ \E s \in Senders : Delivering(s)
       ELSE UNCHANGED <<row, slack, overlap>>
    /\ UNCHANGED <<home, leader, pc, relay, losses, faults, late>>

\* ack(), ackByKey(): delivered wins over expired; without a row, a tombstone.
Acked == [row EXCEPT !.state = "delivered"]

\* expireOveraged(), the first statement of claimPending().
expireOveraged(r) ==
    /\ pc[r] = "expire"
    /\ row' = IF row.state = "pending" /\ ~row.claimed /\ row.age = "overaged"
              THEN [row EXCEPT !.state = "expired"] ELSE row
    /\ Goes(r, "claim")
    /\ UNCHANGED <<home, slack, leader, relay, overlap, enqueues, losses, faults, late>>

\* Broken variant: the claim of another relay is not looked at.
ClaimableByAnyone == row.state = "pending"

Claimable == row.state = "pending" /\ ~row.claimed

\* The second statement; it may fail, or its answer may be lost.
claimPending(r) ==
    /\ pc[r] = "claim"
    /\ LET claimed == [row EXCEPT !.claimed = @ \/ Claimable] IN
       \/ /\ row' = claimed
          /\ Goes(r, IF Claimable THEN "check" ELSE "leave")
          /\ relay' = [relay EXCEPT ![r].mine = Claimable]
          /\ UNCHANGED faults
       \/ /\ Fault
          /\ row' \in {row, claimed}
          /\ Goes(r, "leave")
          /\ UNCHANGED relay
    /\ UNCHANGED <<home, slack, leader, overlap, enqueues, losses, late>>

\* A claim lasts as long as the grace of a young row, and is taken after the row
\* was made: a row whose claim lapses is not young.  The age is the enqueuer's date
\* against the relay's clock and the claim is the database's, so that this too takes
\* their clocks to agree.
ClaimLapses ==
    /\ row.claimed /\ row.age # "young"
    /\ row' = [row EXCEPT !.claimed = FALSE]
    /\ relay' = [r \in Relays |-> [relay[r] EXCEPT !.mine = FALSE]]
    /\ UNCHANGED <<home, slack, leader, pc, overlap, enqueues, losses, faults, late>>

Ages ==
    /\ row.age = "young" /\ row.state = "pending"
    /\ row' = [row EXCEPT !.age = "old"]
    /\ UNCHANGED <<home, slack, leader, pc, relay, overlap, enqueues, losses, faults, late>>

Overages ==
    /\ row.age = "old" /\ row.state = "pending"
    /\ row' = [row EXCEPT !.age = "overaged"]
    /\ UNCHANGED <<home, slack, leader, pc, relay, overlap, enqueues, losses, faults, late>>

-----------------------------------------------------------------------------
(* The leader lease                                                        *)

\* hold(): one who does not get the lock comes again later.
hold(r) ==
    /\ pc[r] = "out" /\ leader = "none"
    /\ leader' = r
    /\ Goes(r, "expire")
    /\ UNCHANGED <<home, row, slack, relay, overlap, enqueues, losses, faults, late>>

\* The connection dies, and the lock with it; the work goes on.
ConnectionDies ==
    /\ leader # "none" /\ losses < LeaseBound
    /\ losses' = losses + 1
    /\ leader' = "none"
    /\ UNCHANGED <<home, row, slack, pc, relay, overlap, enqueues, faults, late>>

\* The error event of the connection: drop() resolves lost.  Past the checks of the
\* drain nothing looks at it.
LossNoticed(r) ==
    /\ pc[r] \in {"expire", "claim", "check"} /\ leader # r /\ ~relay[r].lost
    /\ relay' = [relay EXCEPT ![r].lost = TRUE]
    /\ UNCHANGED <<home, row, slack, leader, pc, overlap, enqueues, losses, faults, late>>

\* The drain is done: unlock.
Leaves(r) ==
    /\ pc[r] = "leave"
    /\ Goes(r, "out")
    /\ leader' = IF leader = r THEN "none" ELSE leader
    /\ relay' = [relay EXCEPT ![r].lost = FALSE, ![r].mine = FALSE, ![r].again = FALSE]
    /\ UNCHANGED <<home, row, slack, overlap, enqueues, losses, faults, late>>

-----------------------------------------------------------------------------
(* A relay's delivery                                                      *)

\* Broken variant: a row that may have been posted before is not searched for.
VerifiesFirstRuns == run

\* verifyFirst of postWithVerify: a run's reply, and a row older than a claim.
VerifiesFirst == run \/ row.age # "young"

\* drainClaimed: stop without the lease, claim once more what has lapsed; then deliver.
Dispatches(r) ==
    /\ pc[r] = "check"
    /\ LET reclaims == ~relay[r].mine /\ ~relay[r].again
           skips == relay[r].dead \/ (run /\ (Pinned(r) \/ row.age = "young")) IN
       /\ Goes(r, IF relay[r].lost THEN "leave" ELSE IF reclaims THEN "expire"
                  ELSE IF skips THEN "leave" ELSE IF relay[r].posted THEN "ack"
                  ELSE IF VerifiesFirst THEN "verify" ELSE "post")
       /\ relay' = [relay EXCEPT ![r].again = @ \/ reclaims]
    /\ UNCHANGED <<home, row, slack, leader, overlap, enqueues, losses, faults, late>>

\* recordFailure: after too many the row is left alone for a while, and what the
\* tracker knew of it is forgotten.
Failed(m) ==
    IF m.failures + 1 >= MaxAttempts
    THEN [m EXCEPT !.failures = 0, !.posted = FALSE, !.dead = TRUE]
    ELSE [m EXCEPT !.failures = @ + 1]

\* The end of a post that failed: the handler releases its pin.
Fails(s) ==
    IF s \in Relays
    THEN Goes(s, "leave") /\ relay' = [relay EXCEPT ![s] = Failed(@)]
    ELSE Goes(s, "done") /\ UNCHANGED relay

\* markPosted.
Succeeds(s) ==
    /\ Goes(s, "ack")
    /\ relay' = IF s \in Relays THEN [relay EXCEPT ![s].posted = TRUE] ELSE relay

\* Broken variant: a row given up stays so.
GiveUpStays(r) == relay[r].dead /\ UNCHANGED vars

\* givenUp(), asked after the window has passed.
GiveUpExpires(r) ==
    /\ relay[r].dead
    /\ relay' = [relay EXCEPT ![r].dead = FALSE]
    /\ UNCHANGED <<home, row, slack, leader, pc, overlap, enqueues, losses, faults, late>>

\* The turn's result is there: the handler posts its reply, without a search.
HandlerStarts ==
    /\ pc["handler"] = "idle"
    /\ Goes("handler", "post")
    /\ late' = (late \/ slack.posted > 0)
    /\ UNCHANGED <<home, row, slack, leader, relay, overlap, enqueues, losses, faults>>

-----------------------------------------------------------------------------
(* postWithVerify                                                          *)

\* findPostedByKey, before the first attempt and after a failed one.  A failing search
\* ends the delivery, except after a refusal for rate; so does the last attempt.
Verifies(s) ==
    /\ pc[s] \in {"verify", "unsure", "limited"}
    /\ \/ slack.found > 0 /\ Succeeds(s) /\ UNCHANGED faults
       \/ slack.found = 0 /\ Goes(s, "post") /\ UNCHANGED <<relay, faults>>
       \/ Fault /\ (Fails(s) \/ (pc[s] = "limited" /\ Goes(s, "post") /\ UNCHANGED relay))
    /\ UNCHANGED <<home, row, slack, leader, overlap, enqueues, losses, late>>

Posts(s) ==
    /\ pc[s] = "post"
    /\ Goes(s, "sent")
    /\ UNCHANGED <<home, row, slack, leader, relay, overlap, enqueues, losses, faults, late>>

Landed == [slack EXCEPT !.posted = @ + 1, !.found = @ + 1]

\* The message is posted, and its sender hears of it, or not.
Lands(s) ==
    /\ pc[s] = "sent"
    /\ slack' = Landed
    /\ overlap' = (overlap \/ slack.stray > 0 \/ \E t \in Senders \ {s} : Posting(t))
    /\ \/ Succeeds(s) /\ UNCHANGED faults
       \/ Fault /\ Goes(s, "unsure") /\ UNCHANGED relay
    /\ UNCHANGED <<home, row, leader, enqueues, losses, late>>

\* The sender stops waiting for its request, which may still land.
TimesOut(s) ==
    /\ pc[s] = "sent"
    /\ Fault
    /\ slack' = [slack EXCEPT !.stray = @ + 1]
    /\ Goes(s, "unsure")
    /\ UNCHANGED <<home, row, leader, relay, overlap, enqueues, losses, late>>

\* Slack refuses the message, for good or for its rate.
Refused(s) ==
    /\ pc[s] = "sent"
    /\ Fault
    /\ Fails(s) \/ (Goes(s, "limited") /\ UNCHANGED relay)
    /\ UNCHANGED <<home, row, slack, leader, overlap, enqueues, losses, late>>

StrayEnds ==
    /\ slack.stray > 0
    /\ \/ /\ slack' = [Landed EXCEPT !.stray = @ - 1]
          /\ overlap' = (overlap \/ slack.stray > 1 \/ \E t \in Senders : Posting(t))
       \/ /\ slack' = [slack EXCEPT !.stray = @ - 1]
          /\ UNCHANGED overlap
    /\ UNCHANGED <<home, row, leader, pc, relay, enqueues, losses, faults, late>>

-----------------------------------------------------------------------------
(* Acknowledging                                                           *)

\* A relay: ack() and clear(), or a failure, committed or not.
RelayAcks(r) ==
    /\ pc[r] = "ack"
    /\ Goes(r, "leave")
    /\ \/ /\ row' = Acked
          /\ relay' = [relay EXCEPT ![r] = [@ EXCEPT !.failures = 0, !.posted = FALSE, !.dead = FALSE]]
          /\ UNCHANGED faults
       \/ /\ Fault
          /\ row' \in {row, Acked}
          /\ relay' = [relay EXCEPT ![r] = Failed(@)]
    /\ UNCHANGED <<home, slack, leader, overlap, enqueues, losses, late>>

\* The handler: ackByKey(), repeated a few times and then left to the relays.
HandlerAcks ==
    /\ pc["handler"] = "ack"
    /\ Goes("handler", "done")
    /\ \/ row' = Acked /\ UNCHANGED faults
       \/ Fault /\ row' \in {row, Acked}
    /\ UNCHANGED <<home, slack, leader, relay, overlap, enqueues, losses, late>>

\* A process dies, with its memory, its lock, its turn and its requests' answers.
Crashes(r) ==
    /\ pc[r] # "out" \/ Pinned(r)
    /\ Fault
    /\ LET gone == {r} \cup (IF Pinned(r) THEN {"handler"} ELSE {}) IN
       /\ pc' = [s \in Senders |-> IF s = r THEN "out" ELSE IF s \in gone THEN "done" ELSE pc[s]]
       /\ slack' = [slack EXCEPT !.stray = @ + Cardinality({s \in gone : pc[s] = "sent"})]
    /\ relay' = [relay EXCEPT ![r] = NoMemory]
    /\ leader' = IF leader = r THEN "none" ELSE leader
    /\ UNCHANGED <<home, row, overlap, enqueues, losses, late>>

-----------------------------------------------------------------------------

RelayStep(r) ==
    \/ hold(r) \/ expireOveraged(r) \/ claimPending(r) \/ Dispatches(r) \/ Leaves(r)
    \/ RelayAcks(r)
SenderStep(s) == Verifies(s) \/ Posts(s) \/ Lands(s) \/ TimesOut(s) \/ Refused(s)

Next ==
    \/ enqueue \/ ClaimLapses \/ Ages \/ Overages
    \/ ConnectionDies \/ StrayEnds \/ HandlerStarts \/ HandlerAcks
    \/ \E s \in Senders : SenderStep(s)
    \/ \E r \in Relays : RelayStep(r) \/ LossNoticed(r) \/ GiveUpExpires(r) \/ Crashes(r)

Spec == Init /\ [][Next]_vars

\* Calls answer, timers fire, time passes, and every relay polls.
FairSpec ==
    /\ Spec
    /\ \A r \in Relays : WF_vars(RelayStep(r) \/ SenderStep(r)) /\ WF_vars(GiveUpExpires(r))
    /\ WF_vars(SenderStep("handler") \/ HandlerStarts \/ HandlerAcks)
    /\ WF_vars(ClaimLapses \/ Ages)

-----------------------------------------------------------------------------
(* What is checked                                                         *)

\* The message is posted twice only if two posts were under way at one time, a request
\* that its sender gave up was, the turn's handler came to post its reply so late that a
\* relay had posted it already (the handler does not search), or a row that expired while
\* it was being posted, or after, was opened anew: crashes, lost answers and failed
\* acknowledgements alone do not repeat it.
PostedOnce == slack.posted > 1 => overlap \/ late

\* Two relays, one of which lost the lease, are never about to post on the same live
\* claim; a relay does not post within the grace of a reply that the turn's handler has
\* still to post, and the handler that comes after a relay comes after the grace.
OverlapIsLate ==
    /\ \A r \in Relays : Posting(r) =>
          /\ \A t \in Relays \ {r} : Posting(t) => ~(relay[r].mine /\ relay[t].mine)
          /\ pc["handler"] # "done" => row.age # "young"
    /\ late => row.age # "young"

\* A row that was acknowledged is not expired or opened again, also by an enqueue that
\* comes after the acknowledgement of the handler.  (A relay that had claimed it before
\* may still be sending: PostedOnce is about that.)
AcknowledgedIsFinal == [][row.state = "delivered" => row'.state = "delivered"]_vars

\* Unless it expires, a message in the outbox is delivered in the end, whoever crashes,
\* loses the lease or gives up for a while.
EventuallyDelivered == (row.state = "pending") ~> (row.state \in {"delivered", "expired"})
=============================================================================
