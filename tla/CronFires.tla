------------------------------ MODULE CronFires ------------------------------
(***************************************************************************)
(* The slots of one calendar cron (src/cron/scheduler.ts, cron-store.ts).  *)
(* A process fires slots from a job queue, claiming a slot before it acts  *)
(* (fireJob), or, when the queue did not start, from interval ticks,       *)
(* marking it after (fireDue).  Both act through once() of the idempotency *)
(* store (src/idempotency/idempotency-store.ts, src/triggers/run-trigger.ts) *)
(* and under an advisory lock of the cron.  pg-boss is external.           *)
(*                                                                         *)
(* A step goes from one await to the next.  Slots are numbered in the      *)
(* order of their dates.  A leader lease keeps ticks apart from each other *)
(* and from a process whose queue works (leaseGuard).                      *)
(***************************************************************************)
EXTENDS Naturals

CONSTANTS
    Procs,          \* processes that run a scheduler
    SlotBound,      \* bound: dates of the cron
    FaultBound,     \* bound: failing statements, crashes and lost locks
    EventBound      \* bound: stops, disables, refused owners and manual fires

ASSUME CronAssumption ==
    /\ Procs \cap {"none", "manual"} = {}
    /\ {SlotBound, FaultBound, EventBound} \subseteq Nat

VARIABLES
    now,            \* the last date that has passed
    late,           \* the last date that passed more than BUSY_DEFER_MAX_LATE_MS ago
    cron,           \* the cron's row
    jobs,           \* slots waiting in the job queue
    lock,           \* who has the lock cron-lifecycle
    lease,          \* who has the lease TICK_LEASE_KEY
    mode,           \* of each scheduler: "queue", "tick" or "stopped"
    task,           \* what each scheduler is doing
    committed,      \* slots recorded in the idempotency store
    acts,           \* history: how often each slot was acted on
    skipped,        \* history: slots used up by a busy session
    lost,           \* history: slots claimed by one that died or failed before it acted
    unrecorded,     \* history: slots acted on or skipped without their record or the lock
    used            \* bounds

vars == <<now, late, skipped, cron, jobs, lock, lease, mode, task, committed, acts, lost,
          unrecorded, used>>

Slots == 1..SlotBound
Due == cron.enabled /\ cron.next \in Slots /\ cron.next <= now
NoClaim == [by |-> "none", slot |-> 0]
Idle == [pc |-> "idle", slot |-> 0, queued |-> FALSE, stale |-> FALSE, overdue |-> FALSE,
         prior |-> NoClaim]

Init ==
    /\ now = 0 /\ late = 0 /\ skipped = {}
    /\ cron = [next |-> 1, last |-> NoClaim, deferred |-> FALSE, enabled |-> TRUE]
    /\ jobs = {} /\ lock = "none" /\ lease = "none"
    /\ mode \in [Procs -> {"queue", "tick"}]
    /\ task = [p \in Procs |-> Idle]
    /\ committed = {} /\ acts = [s \in Slots |-> 0] /\ lost = {} /\ unrecorded = {}
    /\ used = [faults |-> 0, events |-> 0]

Spends(what, bound) == used[what] < bound /\ used' = [used EXCEPT ![what] = @ + 1]
Fault == Spends("faults", FaultBound)
Event == Spends("events", EventBound)
Goes(p, where) == task' = [task EXCEPT ![p].pc = where]
Slot(p) == task[p].slot

\* enqueueFire() sends nothing once its queue was stopped.
Enqueued(p, slots) == IF mode[p] = "queue" THEN jobs \cup slots ELSE jobs

-----------------------------------------------------------------------------
(* The cron's row                                                          *)

\* enqueueNext() and reconcile(): the job of the next slot, if there is one.
NextJob == IF cron.enabled THEN {cron.next} \cap Slots ELSE {}

\* claimSlot(): only the slot that is next, and only of an enabled cron.
ClaimAccepted(p) == cron.enabled /\ cron.next = Slot(p)
Claimed(p) ==
    [cron EXCEPT !.next = Slot(p) + 1, !.deferred = FALSE,
                 !.last = [by |-> p, slot |-> Slot(p)]]

HasClaim(p) == cron.last = [by |-> p, slot |-> Slot(p)]

\* unclaimSlot(): unless somebody has claimed or marked since.
unclaimSlot(p) ==
    IF HasClaim(p)
    THEN [cron EXCEPT !.next = Slot(p), !.last = task[p].prior] ELSE cron

-----------------------------------------------------------------------------
(* How a task starts                                                       *)

\* pg-boss hands out a job whose date has come, and never again; fireJob looks at the
\* cron: a job of another slot is dropped, one of a deferred cron is put back.
fireJob(p) ==
    /\ mode[p] = "queue" /\ task[p] = Idle
    /\ \E s \in jobs :
         /\ s <= now
         /\ IF cron.enabled /\ cron.next = s
            THEN IF cron.deferred
                 THEN UNCHANGED <<jobs, task>>
                 ELSE /\ jobs' = jobs \ {s}
                      /\ task' = [task EXCEPT ![p] = [Idle EXCEPT !.pc = "lock", !.slot = s,
                                                        !.queued = TRUE, !.overdue = s <= late,
                                                        !.prior = cron.last]]
            ELSE jobs' = jobs \ {s} /\ UNCHANGED task
    /\ UNCHANGED <<now, late, skipped, cron, lock, lease, mode, committed, acts, lost,
                   unrecorded, used>>

\* leaseGuard: a process whose queue works takes the lease and keeps it.
leaseGuard(p) ==
    /\ mode[p] = "queue" /\ lease = "none"
    /\ lease' = p
    /\ UNCHANGED <<now, late, skipped, cron, jobs, lock, mode, task, committed, acts, lost,
                   unrecorded, used>>

\* fireDue: due() at the start of a tick, under the lease.
TickReads(p) ==
    /\ mode[p] = "tick" /\ task[p] = Idle
    /\ lease = "none" /\ lease' = p
    /\ Due /\ ~cron.deferred
    /\ task' = [task EXCEPT ![p] = [Idle EXCEPT !.pc = "lock", !.slot = cron.next,
                                               !.overdue = cron.next <= late]]
    /\ UNCHANGED <<now, late, skipped, cron, jobs, lock, mode, committed, acts, lost,
                   unrecorded, used>>

\* Broken variant: nothing looks for jobs that were lost.
reconcileNothing(p) == mode[p] = "queue" /\ UNCHANGED vars

\* reconcile() on every tick of the queue, notifyChanged() after a change.
reconcile(p) ==
    /\ mode[p] = "queue" /\ ~(NextJob \subseteq jobs)
    /\ jobs' = jobs \cup NextJob
    /\ UNCHANGED <<now, late, skipped, cron, lock, lease, mode, task, committed, acts, lost,
                   unrecorded, used>>

\* withCronLifecycle: try the lock; a refused task defers the cron.
Locks(p) ==
    /\ task[p].pc = "lock"
    /\ \/ /\ lock = "none"
          /\ lock' = p
          /\ Goes(p, IF task[p].stale THEN "end" ELSE IF task[p].queued THEN "claim" ELSE "fire")
          /\ UNCHANGED cron
       \/ /\ lock # "none"
          /\ cron' = [cron EXCEPT !.deferred = TRUE]
          /\ Goes(p, IF task[p].queued THEN "requeue" ELSE "end")
          /\ UNCHANGED lock
    /\ UNCHANGED <<now, late, skipped, jobs, lease, mode, committed, acts, lost, unrecorded,
                   used>>

\* fireJob claims the slot; a lost answer leaves it claimed by nobody.
Claims(p) ==
    /\ task[p].pc = "claim"
    /\ \/ /\ cron' = IF ClaimAccepted(p) THEN Claimed(p) ELSE cron
          /\ Goes(p, IF ClaimAccepted(p) THEN "claimed" ELSE "end")
          /\ UNCHANGED <<lost, used>>
       \/ /\ ClaimAccepted(p) /\ Fault
          /\ cron' = Claimed(p) /\ lost' = lost \cup {Slot(p)}
          /\ Goes(p, "end")
    /\ UNCHANGED <<now, late, skipped, jobs, lock, lease, mode, committed, acts,
                   unrecorded>>

\* A scheduler that was stopped meanwhile gives the slot back.
ClaimReturns(p) ==
    /\ task[p].pc = "claimed"
    /\ Goes(p, IF task[p].stale THEN "unclaim" ELSE "fire")
    /\ UNCHANGED <<now, late, skipped, cron, jobs, lock, lease, mode, committed, acts, lost,
                   unrecorded, used>>

-----------------------------------------------------------------------------
(* fire() and runTrigger                                                   *)

\* Where a fire that did not happen goes on: the queue's task gives the slot back.
GivesUp(p) == Goes(p, IF task[p].queued THEN "unclaim" ELSE "end")

\* Broken variant: only the memory of the process is asked.
RecordedHere(s) == FALSE

\* isCommitted.
Recorded(s) == s \in committed

\* fire() looks at the cron once more, once() at its record.
Fires(p) ==
    /\ task[p].pc = "fire"
    /\ IF ~cron.enabled THEN GivesUp(p)
       ELSE Goes(p, IF ~Recorded(Slot(p)) THEN "act" ELSE IF task[p].queued THEN "requeue" ELSE "mark")
    /\ UNCHANGED <<now, late, skipped, cron, jobs, lock, lease, mode, committed, acts, lost,
                   unrecorded, used>>

\* The owner may not run it any more: the cron is disabled and the slot given back.
Refuses(p) ==
    /\ task[p].pc = "fire" /\ cron.enabled
    /\ Event
    /\ cron' = [cron EXCEPT !.enabled = FALSE]
    /\ GivesUp(p)
    /\ UNCHANGED <<now, late, skipped, jobs, lock, lease, mode, committed, acts, lost,
                   unrecorded>>

Acted(p) == acts' = [acts EXCEPT ![Slot(p)] = @ + 1]

\* The turn runs and its delivery is enqueued, both under the slot's key; or the fire
\* notes that its owner may not read the scope or reach the destination any more.
Acts(p) ==
    /\ task[p].pc = "act"
    /\ Acted(p)
    /\ Goes(p, "commit")
    /\ unrecorded' = IF lock = p THEN unrecorded ELSE unrecorded \cup {Slot(p)}
    /\ UNCHANGED <<now, late, skipped, cron, jobs, lock, lease, mode, committed, lost,
                   used>>

\* Broken variant: a busy session uses the slot up, however late it is.
SkipsAnyTime(p) == task[p].pc = "act"

\* The session is busy and the task started too late to ask for a deferral.
SkipsBusy(p) == task[p].pc = "act" /\ task[p].overdue

\* Then once() returns without a turn, and the slot is recorded as refused.
Skips(p) ==
    /\ SkipsBusy(p)
    /\ skipped' = skipped \cup {Slot(p)}
    /\ Goes(p, "commit")
    /\ unrecorded' = IF lock = p THEN unrecorded ELSE unrecorded \cup {Slot(p)}
    /\ UNCHANGED <<now, late, cron, jobs, lock, lease, mode, committed, acts, lost, used>>

\* The session is busy and the slot is not late yet: the cron is deferred, and the slot
\* given back.
Defers(p) ==
    /\ task[p].pc = "act" /\ ~task[p].overdue
    /\ cron' = [cron EXCEPT !.deferred = TRUE]
    /\ Goes(p, IF task[p].queued THEN "putback" ELSE "end")
    /\ UNCHANGED <<now, late, skipped, jobs, lock, lease, mode, committed, acts, lost,
                   unrecorded, used>>

\* The turn or its delivery throws, before or after it had an effect; or the
\* record cannot be written.
FireFails(p) ==
    /\ task[p].pc \in {"act", "commit"}
    /\ Fault
    /\ GivesUp(p)
    /\ \/ task[p].pc = "act" /\ UNCHANGED <<acts, unrecorded>>
       \/ task[p].pc = "act" /\ Acted(p) /\ unrecorded' = unrecorded \cup {Slot(p)}
       \/ task[p].pc = "commit" /\ UNCHANGED acts /\ unrecorded' = unrecorded \cup {Slot(p)}
    /\ UNCHANGED <<now, late, skipped, cron, jobs, lock, lease, mode, committed, lost>>

\* The record is written; the queue's task goes on to the next job.
Commits(p) ==
    /\ task[p].pc = "commit"
    /\ committed' = committed \cup {Slot(p)}
    /\ Goes(p, IF task[p].queued THEN "requeue" ELSE "mark")
    /\ UNCHANGED <<now, late, skipped, cron, jobs, lock, lease, mode, acts, lost,
                   unrecorded, used>>

\* A tick marks the slot.  When it read the row before an earlier slot was given back,
\* it marks that one too.
markFired(p) ==
    /\ task[p].pc = "mark"
    /\ Goes(p, "end")
    /\ cron' = Claimed(p)
    /\ lost' = lost \cup (cron.next..(Slot(p) - 1))
    /\ UNCHANGED <<now, late, skipped, jobs, lock, lease, mode, committed, acts, unrecorded,
                   used>>

\* unclaimSlot(), or its failure; a deferred slot is put back into the queue, a
\* failed one waits for reconcile().
Unclaims(p) ==
    /\ task[p].pc \in {"unclaim", "putback"}
    /\ \/ /\ cron' = unclaimSlot(p)
          /\ lost' = IF HasClaim(p) THEN lost ELSE lost \cup {Slot(p)}
          /\ Goes(p, IF task[p].pc = "putback" THEN "requeue" ELSE "end")
          /\ UNCHANGED used
       \/ Fault /\ Goes(p, "end") /\ lost' = lost \cup {Slot(p)} /\ UNCHANGED cron
    /\ UNCHANGED <<now, late, skipped, jobs, lock, lease, mode, committed, acts,
                   unrecorded>>

enqueueNext(p) ==
    /\ task[p].pc = "requeue"
    /\ \/ jobs' = Enqueued(p, NextJob) /\ UNCHANGED used
       \/ jobs' = jobs /\ Fault
    /\ Goes(p, "end")
    /\ UNCHANGED <<now, late, skipped, cron, lock, lease, mode, committed, acts, lost,
                   unrecorded>>

\* The task is over; its lock is released if the connection still has it.
Ends(p) ==
    /\ task[p].pc = "end"
    /\ lock' = IF lock = p THEN "none" ELSE lock
    /\ lease' = IF lease = p /\ ~task[p].queued THEN "none" ELSE lease
    /\ task' = [task EXCEPT ![p] = Idle]
    /\ UNCHANGED <<now, late, skipped, cron, jobs, mode, committed, acts, lost, unrecorded,
                   used>>

-----------------------------------------------------------------------------
(* The user, the clock, the process and its faults                         *)

\* The next date passes.
DatePasses ==
    /\ now < SlotBound
    /\ now' = now + 1
    /\ UNCHANGED <<late, skipped, cron, jobs, lock, lease, mode, task, committed, acts,
                   lost, unrecorded, used>>

\* A slot becomes BUSY_DEFER_MAX_LATE_MS late.
BusyLimitPasses ==
    /\ late < now
    /\ late' = late + 1
    /\ UNCHANGED <<now, skipped, cron, jobs, lock, lease, mode, task, committed, acts, lost,
                   unrecorded, used>>

\* deferUntil passes.
DeferEnds ==
    /\ cron.deferred
    /\ cron' = [cron EXCEPT !.deferred = FALSE]
    /\ UNCHANGED <<now, late, skipped, jobs, lock, lease, mode, task, committed, acts, lost,
                   unrecorded, used>>

\* setEnabled() by the user.
Disables ==
    /\ cron.enabled
    /\ Event
    /\ cron' = [cron EXCEPT !.enabled = FALSE]
    /\ UNCHANGED <<now, late, skipped, jobs, lock, lease, mode, task, committed, acts, lost,
                   unrecorded>>

Enables ==
    /\ ~cron.enabled
    /\ cron' = [cron EXCEPT !.enabled = TRUE]
    /\ UNCHANGED <<now, late, skipped, jobs, lock, lease, mode, task, committed, acts, lost,
                   unrecorded, used>>

\* runNow(): a fire under a key of its own, which holds the cron's lock.
runNow ==
    /\ lock = "none" /\ cron.enabled
    /\ Event
    /\ lock' = "manual"
    /\ UNCHANGED <<now, late, skipped, cron, jobs, lease, mode, task, committed, acts, lost,
                   unrecorded>>

runNowSettles ==
    /\ lock = "manual"
    /\ lock' = "none"
    /\ UNCHANGED <<now, late, skipped, cron, jobs, lease, mode, task, committed, acts, lost,
                   unrecorded, used>>

\* stop() and stopClaims(): the epoch of a task under way is over.
stopClaims(p) ==
    /\ mode[p] # "stopped"
    /\ Event
    /\ mode' = [mode EXCEPT ![p] = "stopped"]
    /\ task' = [task EXCEPT ![p].stale = task[p] # Idle]
    /\ lease' = IF lease = p /\ mode[p] = "queue" THEN "none" ELSE lease
    /\ UNCHANGED <<now, late, skipped, cron, jobs, lock, committed, acts, lost, unrecorded>>

\* start(): from the queue, or from ticks where the queue does not start.
start(p) ==
    /\ mode[p] = "stopped"
    /\ \E m \in {"queue", "tick"} : mode' = [mode EXCEPT ![p] = m]
    /\ UNCHANGED <<now, late, skipped, cron, jobs, lock, lease, task, committed, acts, lost,
                   unrecorded, used>>

\* The process dies in the middle of its task and is started again.
Crashes(p) ==
    /\ task[p] # Idle
    /\ Fault
    /\ lost' = IF task[p].queued /\ task[p].pc \in {"claimed", "fire", "act", "unclaim", "putback"}
               THEN lost \cup {Slot(p)} ELSE lost
    /\ unrecorded' = IF task[p].pc = "commit" THEN unrecorded \cup {Slot(p)} ELSE unrecorded
    /\ task' = [task EXCEPT ![p] = Idle]
    /\ lock' = IF lock = p THEN "none" ELSE lock
    /\ lease' = IF lease = p THEN "none" ELSE lease
    /\ \E m \in {"queue", "tick"} : mode' = [mode EXCEPT ![p] = m]
    /\ UNCHANGED <<now, late, skipped, cron, jobs, committed, acts>>

\* The connection that has the lock breaks, and the task goes on without it.
LockLost(p) ==
    /\ lock = p
    /\ Fault
    /\ lock' = "none"
    /\ unrecorded' = IF task[p].pc = "commit" THEN unrecorded \cup {Slot(p)} ELSE unrecorded
    /\ UNCHANGED <<now, late, skipped, cron, jobs, lease, mode, task, committed, acts,
                   lost>>

\* So does the connection that has the lease, or the queue fails its health check.
LeaseLost(p) ==
    /\ lease = p
    /\ Fault
    /\ lease' = "none"
    /\ UNCHANGED <<now, late, skipped, cron, jobs, lock, mode, task, committed, acts, lost,
                   unrecorded>>

-----------------------------------------------------------------------------
\* The steps of a task once it was started.
Proceeds(p) ==
    \/ Locks(p) \/ Claims(p) \/ ClaimReturns(p)
    \/ Fires(p) \/ Refuses(p) \/ Acts(p) \/ Skips(p) \/ Defers(p)
    \/ FireFails(p) \/ Commits(p)
    \/ markFired(p) \/ Unclaims(p) \/ enqueueNext(p) \/ Ends(p)

Next ==
    \/ \E p \in Procs :
         \/ fireJob(p) \/ TickReads(p) \/ reconcile(p) \/ leaseGuard(p) \/ Proceeds(p)
         \/ stopClaims(p) \/ start(p) \/ Crashes(p)
         \/ LockLost(p) \/ LeaseLost(p)
    \/ DatePasses \/ BusyLimitPasses \/ DeferEnds \/ Disables \/ Enables \/ runNow \/ runNowSettles

Spec == Init /\ [][Next]_vars

\* The timers of a started scheduler run, its awaits settle, time passes, a deferral and
\* a manual fire end, and whoever stopped a scheduler to hand over has it started again.
Fairness ==
    /\ \A p \in Procs :
         /\ WF_vars(fireJob(p)) /\ WF_vars(TickReads(p)) /\ WF_vars(reconcile(p))
         /\ WF_vars(Proceeds(p)) /\ WF_vars(start(p))
    /\ WF_vars(BusyLimitPasses) /\ WF_vars(DeferEnds) /\ WF_vars(runNowSettles)

FairSpec == Spec /\ Fairness

-----------------------------------------------------------------------------
(* Properties                                                              *)

\* A slot is acted on once, by whichever of the two ways and of the processes that
\* came to it, unless its act was cut off before its record was written.
SlotActsOnce == \A s \in Slots : acts[s] > 1 => s \in unrecorded

\* A busy session used the slot up when it was already ten minutes late.
GivenUp(s) == s \in skipped /\ s <= late

\* A slot the cron has passed was acted on, given up or is being worked on, whatever was
\* stopped, deferred, disabled or refused in between: a busy session may use it up only
\* ten minutes after its date, and only a claimant that died, or could not read the
\* answer to its claim or give it back, or a tick that overtook the giving back, may
\* lose it.
SlotNotLost ==
    \A s \in Slots : s < cron.next /\ acts[s] = 0 =>
        s \in lost \/ GivenUp(s) \/ \E p \in Procs : task[p].slot = s /\ task[p].queued

\* A slot that is due is acted on or given up at last, unless its claimant was cut off
\* or the cron is disabled: no deferral, however often the session is busy, no stop, lost
\* job or refused lock leaves it waiting.
EventuallyFires ==
    \A s \in Slots :
        s = cron.next /\ Due ~> acts[s] > 0 \/ GivenUp(s) \/ s \in lost \/ ~cron.enabled
=============================================================================
