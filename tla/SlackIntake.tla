------------------------------ MODULE SlackIntake ------------------------------
(***************************************************************************)
(* How one message of Slack becomes work, and when Slack is told so.       *)
(* An envelope is acknowledged when its handler has taken it in; after a   *)
(* cap it is acknowledged once it is staged in a table, from which sweepers *)
(* replay it (src/slack/deferred-ack.ts, envelope-staging.ts).  A handler  *)
(* (events.ts, turn-handler.ts) submits the message under its redelivery   *)
(* key, as a run or as a signal to a live run (src/api/app-turn.ts).       *)
(* Slack is external: it delivers again what was not acknowledged.         *)
(*                                                                         *)
(* A step goes from one await to the next.  Times of a row are ages; the   *)
(* live run of the thread is the environment's.                            *)
(***************************************************************************)
EXTENDS Naturals

CONSTANTS
    Instances,      \* processes that receive and sweep
    HandlerBound,   \* bound: deliveries and replays at a time
    DeliveryBound,  \* Slack's deliveries of one envelope
    MaxAttempts,    \* replays of one row (maxAttempts)
    FaultBound      \* bound: crashes, failing statements, failing handlers, lost acks

ASSUME IntakeAssumption ==
    /\ {HandlerBound, DeliveryBound, FaultBound} \subseteq Nat
    /\ MaxAttempts \in Nat \ {0}
    /\ "none" \notin Instances

VARIABLES
    halt,           \* whether the message is a bare "stop"
    row,            \* the staged envelope
    run, signal,    \* whether a run, a signal has the redelivery key
    ends,           \* what else became of it: it stopped a run, was declined by the screen,
                    \* its author was told that it failed, or nobody was told
    acked,          \* whether Slack has an acknowledgement
    deliveries,     \* deliveries so far
    h,              \* the handlers: of a delivery or of a replay
    seen,           \* deduper of each instance
    inflight,       \* the write of a row each instance has under way
    sweep,          \* what each sweeper has read
    overlapped,     \* history: two handlers submitted at the same time
    dropped,        \* history: the daily sweep dropped the row
    faults

vars == <<halt, row, run, signal, ends, acked, deliveries, h, seen, inflight, sweep,
          overlapped, dropped, faults>>

Handlers == 1..HandlerBound
NoRow == [age |-> "none", attempts |-> 0, claimed |-> FALSE]
NewRow == [NoRow EXCEPT !.age = "fresh"]
Staged == row # NoRow
Free == [kind |-> "free", on |-> "none", pc |-> "over", done |-> "no", staged |-> FALSE,
         failed |-> FALSE, write |-> "none", clear |-> "no"]
Submitting == {n \in Handlers : h[n].pc \in {"look", "send", "enqueue"}}
Handled == run \/ signal \/ ends \cap {"stop", "declined", "told"} # {}
Swallowed == "untold" \in ends

Init ==
    /\ halt \in BOOLEAN
    /\ row = NoRow
    /\ run = FALSE /\ signal = FALSE /\ ends = {} /\ acked = FALSE
    /\ deliveries = 0
    /\ h = [n \in Handlers |-> Free]
    /\ seen = [i \in Instances |-> FALSE]
    /\ inflight = [i \in Instances |-> 0]
    /\ sweep = [i \in Instances |-> [pc |-> "idle", attempts |-> 0]]
    /\ overlapped = FALSE /\ dropped = FALSE /\ faults = 0

Fault == faults < FaultBound /\ faults' = faults + 1

\* A handler that has nothing under way any more leaves its place.
Put(n, new) ==
    h' = [h EXCEPT ![n] = IF /\ new.pc = "over" /\ new.write # "flight"
                             /\ new.clear \notin {"now", "after"}
                          THEN Free ELSE new]

\* A new handler takes the first free place.
Begins(i, kind) ==
    \E n \in Handlers :
      /\ h[n] = Free /\ \A m \in 1..(n - 1) : h[m] # Free
      /\ h' = [h EXCEPT ![n] = [Free EXCEPT !.kind = kind, !.on = i, !.pc = "start"]]

-----------------------------------------------------------------------------
(* The gate                                                                *)

\* clear(): the deletion waits for the write of this instance that is under way.
ClearOf(n) == IF inflight[h[n].on] = 0 THEN "now" ELSE "after"

\* Broken variant: the row is cleared although the handler failed.
persistedAnyway(n) ==
    [h[n] EXCEPT !.done = IF @ = "no" THEN "acked" ELSE @,
                 !.clear = IF h[n].staged \/ h[n].kind = "replay" THEN ClearOf(n) ELSE @]

\* gate.persisted(): what the staged row was for is done; a failure before it counts.
persisted(n) ==
    [h[n] EXCEPT !.done = IF @ = "no" THEN "acked" ELSE @,
                 !.clear = IF ~h[n].failed /\ (h[n].staged \/ h[n].kind = "replay")
                           THEN ClearOf(n) ELSE @]

\* gate.failed(): the acknowledgement is withheld, or came too early to withhold.
failed(n) == [h[n] EXCEPT !.failed = TRUE, !.done = IF @ = "no" THEN "withheld" ELSE @]

\* finish(true) sends the acknowledgement, which may be lost.
Acks(n, new) ==
    IF h[n].done = "no" /\ new.done = "acked" /\ h[n].kind = "delivery"
    THEN \/ acked' = TRUE /\ UNCHANGED faults
         \/ acked' = acked /\ Fault
    ELSE UNCHANGED <<acked, faults>>

-----------------------------------------------------------------------------
(* Slack delivers, the cap fires                                           *)

\* Slack delivers an envelope until one delivery was acknowledged, for an hour.
Delivers(i) ==
    /\ ~acked /\ deliveries < DeliveryBound /\ row.age # "dead" /\ ~dropped
    /\ deliveries' = deliveries + 1
    /\ Begins(i, "delivery")
    /\ UNCHANGED <<halt, row, run, signal, ends, acked, seen, inflight, sweep, overlapped,
                   dropped, faults>>

\* The cap: the envelope is to be staged before it is acknowledged.
CapFires(n) ==
    /\ h[n].kind = "delivery" /\ h[n].done = "no" /\ ~h[n].staged
    /\ h' = [h EXCEPT ![n].staged = TRUE, ![n].write = "flight"]
    /\ inflight' = [inflight EXCEPT ![h[n].on] = n]
    /\ UNCHANGED <<halt, row, run, signal, ends, acked, deliveries, seen, sweep,
                   overlapped, dropped, faults>>

\* stage(): the write lands and the envelope is acknowledged, unless the handler or the
\* time allowed for staging came first.
WriteLands(n) ==
    /\ h[n].write = "flight"
    /\ row' = IF Staged THEN row ELSE NewRow
    /\ LET new == [h[n] EXCEPT !.write = "over", !.done = IF @ = "no" THEN "acked" ELSE @]
       IN  Put(n, new) /\ Acks(n, new)
    /\ inflight' = [inflight EXCEPT ![h[n].on] = IF @ = n THEN 0 ELSE @]
    /\ UNCHANGED <<halt, run, signal, ends, deliveries, seen, sweep, overlapped, dropped>>

WriteFails(n) ==
    /\ h[n].write = "flight"
    /\ Fault
    /\ Put(n, [h[n] EXCEPT !.write = "over", !.done = IF @ = "no" THEN "withheld" ELSE @])
    /\ inflight' = [inflight EXCEPT ![h[n].on] = IF @ = n THEN 0 ELSE @]
    /\ UNCHANGED <<halt, row, run, signal, ends, acked, deliveries, seen, sweep,
                   overlapped, dropped>>

\* The time allowed for staging is up; the write goes on.
StagingIsLate(n) ==
    /\ h[n].write = "flight" /\ h[n].done = "no"
    /\ h' = [h EXCEPT ![n].done = "withheld"]
    /\ UNCHANGED <<halt, row, run, signal, ends, acked, deliveries, seen, inflight, sweep,
                   overlapped, dropped, faults>>

-----------------------------------------------------------------------------
(* A handler                                                               *)

\* Broken variant: the gate that forgets the key is told of the refusal.
dispatchForgetting(n) ==
    /\ h[n].pc = "start"
    /\ LET i == h[n].on IN
       IF seen[i]
       THEN /\ h' = [h EXCEPT ![n] = [failed(n) EXCEPT !.pc = "return"]]
            /\ seen' = [seen EXCEPT ![i] = FALSE]
            /\ UNCHANGED overlapped
       ELSE /\ h' = [h EXCEPT ![n].pc = "look"]
            /\ seen' = [seen EXCEPT ![i] = TRUE]
            /\ overlapped' = (overlapped \/ Submitting # {})
    /\ UNCHANGED <<halt, row, run, signal, ends, acked, deliveries, inflight, sweep,
                   dropped, faults>>

\* dispatch(): a message this instance works on, or has done, is refused.  The deduper
\* keeps the last 1000 messages of the instance; this one is not pushed out.
dispatch(n) ==
    /\ h[n].pc = "start"
    /\ LET i == h[n].on IN
       IF seen[i]
       THEN /\ h' = [h EXCEPT ![n] = [failed(n) EXCEPT !.pc = "return"]]
            /\ UNCHANGED <<seen, overlapped>>
       ELSE /\ h' = [h EXCEPT ![n].pc = "look"]
            /\ seen' = [seen EXCEPT ![i] = TRUE]
            /\ overlapped' = (overlapped \/ Submitting # {})
    /\ UNCHANGED <<halt, row, run, signal, ends, acked, deliveries, inflight, sweep,
                   dropped, faults>>

\* Broken variant: only runs are looked up.
RoutesAfterRun(n) ==
    /\ h[n].pc = "look"
    /\ \E where \in {"send", "enqueue"} :
         h' = [h EXCEPT ![n].pc = IF run THEN "return" ELSE where]
    /\ UNCHANGED <<halt, row, run, signal, ends, acked, deliveries, seen, inflight, sweep,
                   overlapped, dropped, faults>>

\* turn() looks for a run and for a signal that has the redelivery key, then for a live
\* run of the thread to send a signal to.  The reads are one step: only a submission
\* that overlaps could tell.
Routes(n) ==
    /\ h[n].pc = "look"
    /\ \E where \in {"send", "enqueue"} :
         h' = [h EXCEPT ![n].pc = IF run \/ signal THEN "return" ELSE where]
    /\ UNCHANGED <<halt, row, run, signal, ends, acked, deliveries, seen, inflight, sweep,
                   overlapped, dropped, faults>>

\* A stop is tried before anything is looked up, and carries no key; when it fails the
\* message still counts as dealt with, and nobody is told.
maybeInterceptStop(n) ==
    /\ halt /\ h[n].pc = "look"
    /\ \/ ends' = ends \cup {"stop"} /\ UNCHANGED faults
       \/ Fault /\ \E landed \in SUBSET {"stop"} : ends' = ends \cup {"untold"} \cup landed
    /\ h' = [h EXCEPT ![n].pc = "return"]
    /\ UNCHANGED <<halt, row, run, signal, acked, deliveries, seen, inflight, sweep,
                   overlapped, dropped>>

\* The live run is stopped, or gets the message as a signal, or the screen keeps the
\* message from it (onSteered); the run is made (onQueued), or found.
Submits(n) ==
    /\ \/ h[n].pc = "send" /\ ~halt /\ signal' = TRUE /\ UNCHANGED <<run, ends>>
       \/ /\ h[n].pc = "send" /\ UNCHANGED <<run, signal>>
          /\ ends' = ends \cup {IF halt THEN "stop" ELSE "declined"}
       \/ h[n].pc = "enqueue" /\ run' = TRUE /\ UNCHANGED <<signal, ends>>
    /\ LET new == IF h[n].pc = "enqueue" /\ run THEN h[n] ELSE persisted(n)
       IN  h' = [h EXCEPT ![n] = [new EXCEPT !.pc = "return"]] /\ Acks(n, new)
    /\ UNCHANGED <<halt, row, deliveries, seen, inflight, sweep, overlapped, dropped>>

\* What a call that went unanswered did, and what else is noted of the message.
MayHaveLanded(n, more) ==
    \/ UNCHANGED <<run, signal>> /\ ends' = ends \cup more
    \/ h[n].pc = "enqueue" /\ run' = TRUE /\ UNCHANGED signal /\ ends' = ends \cup more
    \/ h[n].pc = "send" /\ ~halt /\ signal' = TRUE /\ UNCHANGED run /\ ends' = ends \cup more
    \/ /\ h[n].pc = "send" /\ halt /\ UNCHANGED <<run, signal>>
       /\ ends' = ends \cup more \cup {"stop"}

\* A failure before the message was taken in, or whose taking in went unanswered.
HandlerFails(n) ==
    /\ n \in Submitting
    /\ Fault
    /\ h' = [h EXCEPT ![n] = [failed(n) EXCEPT !.pc = "return"]]
    /\ seen' = [seen EXCEPT ![h[n].on] = FALSE]
    /\ MayHaveLanded(n, {})
    /\ UNCHANGED <<halt, row, acked, deliveries, inflight, sweep, overlapped, dropped>>

\* An addressed message that is refused, or fails, is answered with a note, and that is
\* that; in a channel a note that cannot be posted is swallowed (ephemeralOrSay).
Settles(n) ==
    /\ n \in Submitting
    /\ \/ UNCHANGED <<run, signal, faults>> /\ ends' = ends \cup {"told"}
       \/ Fault /\ \E note \in {"told", "untold"} : MayHaveLanded(n, {note})
    /\ h' = [h EXCEPT ![n].pc = "return"]
    /\ UNCHANGED <<halt, row, acked, deliveries, seen, inflight, sweep, overlapped,
                   dropped>>

\* processEvent() returns: persisted() once more.
Returns(n) ==
    /\ h[n].pc = "return"
    /\ Put(n, [persisted(n) EXCEPT !.pc = "over"])
    /\ Acks(n, persisted(n))
    /\ UNCHANGED <<halt, row, run, signal, ends, deliveries, seen, inflight, sweep,
                   overlapped, dropped>>

\* clear(): the row is deleted, or that fails.
Clears(n) ==
    /\ h[n].clear = "now" \/ (h[n].clear = "after" /\ inflight[h[n].on] = 0)
    /\ Put(n, [h[n] EXCEPT !.clear = "over"])
    /\ \/ row' = NoRow /\ UNCHANGED faults
       \/ Fault /\ UNCHANGED row
    /\ UNCHANGED <<halt, run, signal, ends, acked, deliveries, seen, inflight, sweep,
                   overlapped, dropped>>

-----------------------------------------------------------------------------
(* The sweeper                                                             *)

\* Broken variant: a row is replayed once.
ReplayableOnce == row.age = "stale" /\ ~row.claimed /\ row.attempts = 0

\* What the sweep looks for.
Replayable == row.age = "stale" /\ ~row.claimed /\ row.attempts < MaxAttempts

\* sweep() under the lease, which its holder may lose: a row of yesterday is dropped.
SweepReads(i) ==
    /\ sweep[i].pc = "idle"
    /\ IF \A j \in Instances : sweep[j].pc = "idle" THEN UNCHANGED faults ELSE Fault
    /\ \/ /\ row.age = "dead"
          /\ row' = NoRow /\ dropped' = TRUE
          /\ UNCHANGED sweep
       \/ /\ Replayable
          /\ sweep' = [sweep EXCEPT ![i] = [pc |-> "claim", attempts |-> row.attempts]]
          /\ UNCHANGED <<row, dropped>>
    /\ UNCHANGED <<halt, run, signal, ends, acked, deliveries, h, seen, inflight,
                   overlapped>>

\* The update claims the row unless it is gone or was claimed since.
ClaimWon == Staged /\ ~row.claimed

SweepClaims(i) ==
    /\ sweep[i].pc = "claim"
    /\ sweep' = [sweep EXCEPT ![i] = [pc |-> "idle", attempts |-> 0]]
    /\ IF ClaimWon
       THEN /\ row' = [row EXCEPT !.claimed = TRUE, !.attempts = sweep[i].attempts + 1]
            /\ Begins(i, "replay")
       ELSE UNCHANGED <<row, h>>
    /\ UNCHANGED <<halt, run, signal, ends, acked, deliveries, seen, inflight, overlapped,
                   dropped, faults>>

\* A row becomes stale, and a day old: a day is enough for each handler to end and for
\* each replay to be tried.
GetsStale ==
    /\ row.age = "fresh"
    /\ row' = [row EXCEPT !.age = "stale"]
    /\ UNCHANGED <<halt, run, signal, ends, acked, deliveries, h, seen, inflight, sweep,
                   overlapped, dropped, faults>>

GetsOld ==
    /\ row.age = "stale" /\ ~row.claimed /\ row.attempts = MaxAttempts
    /\ \A n \in Handlers : h[n] = Free
    /\ row' = [row EXCEPT !.age = "dead"]
    /\ UNCHANGED <<halt, run, signal, ends, acked, deliveries, h, seen, inflight, sweep,
                   overlapped, dropped, faults>>

\* claimedUntil passes.
ClaimLapses ==
    /\ row.claimed
    /\ row' = [row EXCEPT !.claimed = FALSE]
    /\ UNCHANGED <<halt, run, signal, ends, acked, deliveries, h, seen, inflight, sweep,
                   overlapped, dropped, faults>>

\* A process dies: what it had under way ends where it is.
Crashes(i) ==
    /\ \E n \in Handlers : h[n].on = i
    /\ Fault
    /\ h' = [n \in Handlers |-> IF h[n].on = i THEN Free ELSE h[n]]
    /\ seen' = [seen EXCEPT ![i] = FALSE]
    /\ inflight' = [inflight EXCEPT ![i] = 0]
    /\ sweep' = [sweep EXCEPT ![i] = [pc |-> "idle", attempts |-> 0]]
    /\ UNCHANGED <<halt, row, run, signal, ends, acked, deliveries, overlapped, dropped>>

-----------------------------------------------------------------------------
HandlerStep(n) ==
    \/ dispatch(n) \/ maybeInterceptStop(n) \/ Routes(n) \/ Submits(n) \/ Settles(n)
    \/ HandlerFails(n) \/ Returns(n)
StageStep(n) == WriteLands(n) \/ WriteFails(n) \/ StagingIsLate(n)

Next ==
    \/ \E i \in Instances : Delivers(i) \/ SweepReads(i) \/ SweepClaims(i) \/ Crashes(i)
    \/ \E n \in Handlers : CapFires(n) \/ StageStep(n) \/ HandlerStep(n) \/ Clears(n)
    \/ GetsStale \/ GetsOld \/ ClaimLapses

Spec == Init /\ [][Next]_vars

\* Handlers and statements come to an end, time passes and sweepers come round.
FairSpec ==
    /\ Spec
    /\ \A n \in Handlers :
          WF_vars(HandlerStep(n)) /\ WF_vars(StageStep(n)) /\ WF_vars(Clears(n))
    /\ \A i \in Instances : WF_vars(SweepReads(i)) /\ WF_vars(SweepClaims(i))
    /\ WF_vars(GetsStale) /\ WF_vars(ClaimLapses)

-----------------------------------------------------------------------------
(* Properties                                                              *)

\* A message Slack will not deliver again is work already, was declined or its author
\* was told, or is in the table from which it is replayed, until each replay has failed
\* and a day has gone by.  The exception is the code's own: a stop that failed, or a
\* note about a failure that could not be posted, ends the message with nobody told.
AckedIsKept == acked => Handled \/ Swallowed \/ Staged \/ dropped

\* An instance has one handler of a message at work, also while deliveries and replays
\* that were refused come and go.
OneHandlerPerInstance ==
    \A m, n \in Submitting : h[m].on = h[n].on => m = n

\* A message is not taken in two ways, however often it is delivered and replayed and
\* wherever a process died, unless two instances submitted it at the same time.  A bare
\* stop is the exception: it leaves no key, so that one delivered again after the run
\* it stopped has ended becomes a run.
TakenOnce == run /\ (signal \/ "stop" \in ends) => overlapped \/ halt

\* A message Slack will not deliver again is taken in at last, unless each of its
\* replays failed or its failure was swallowed.
EventuallyTaken == acked ~> Handled \/ Swallowed \/ dropped \/ row.attempts = MaxAttempts
=============================================================================
