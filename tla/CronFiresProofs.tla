--------------------------- MODULE CronFiresProofs ---------------------------
(***************************************************************************)
(* Proofs about CronFires, for any processes, dates, faults and events.    *)
(*                                                                         *)
(* SlotActsOnce rests on the lock and on the record of the idempotency     *)
(* store together (ActsAreKnown): an act whose record is missing belongs   *)
(* to the task that holds the lock, or is counted as unrecorded.           *)
(* SlotNotLost rests on who answers for a slot the cron has passed         *)
(* (PassedAreAnsweredFor), on unclaimSlot() never moving the cron beyond   *)
(* the slot it gives back (ClaimsAreBehind), and on a task that was late   *)
(* when it started staying late (SkippedAreLate).                          *)
(***************************************************************************)
EXTENDS CronFires, TLAPS

Positions == {"idle", "lock", "claim", "claimed", "fire", "act", "commit", "mark",
              "unclaim", "putback", "requeue", "end"}
Claim == [by : Procs \cup {"none"}, slot : 0..SlotBound]
Task == [pc : Positions, slot : 0..SlotBound, queued : BOOLEAN, stale : BOOLEAN,
         overdue : BOOLEAN, prior : Claim]

CronTypeOK ==
    /\ cron \in [next : 1..(SlotBound + 1), last : Claim,
                 deferred : BOOLEAN, enabled : BOOLEAN]
    /\ task \in [Procs -> Task]
    /\ acts \in [Slots -> Nat]
    /\ jobs \subseteq Slots
    /\ \A p \in Procs : task[p].pc # "idle" => task[p].slot \in Slots
    /\ \A p \in Procs : task[p].pc = "idle" => ~task[p].queued

\* An act is recorded, or its task is about to record it and has the lock, or it
\* counts as unrecorded; and who may act again on a recorded slot has lost the lock.
ActsAreKnown ==
    /\ \A s \in Slots : acts[s] > 0 =>
          \/ s \in unrecorded \cup committed
          \/ \E p \in Procs : task[p].pc = "commit" /\ task[p].slot = s /\ lock = p
    /\ \A s \in Slots : acts[s] > 1 => s \in unrecorded
    /\ \A p \in Procs : task[p].pc = "commit" /\ lock # p => task[p].slot \in unrecorded
    /\ \A p \in Procs : task[p].pc = "act" /\ lock = p /\ task[p].slot \in committed =>
          task[p].slot \in unrecorded

ActInv == CronTypeOK /\ ActsAreKnown

\* The row's last claim, and the one a task would restore, are of earlier slots.
ClaimsAreBehind ==
    /\ cron.last.slot < cron.next
    /\ \A p \in Procs : task[p].queued => task[p].prior.slot < task[p].slot
    /\ \A p \in Procs : task[p].pc \in {"claim", "claimed", "unclaim", "putback"} =>
          task[p].queued

\* Where the queue's task has a slot to give back.
Answerable == {"claimed", "fire", "act", "unclaim", "putback"}

\* Slots that were acted on or used up by a busy session.
Done == skipped \cup {s \in Slots : acts[s] > 0}

\* A recorded slot is done with; a slot the cron has passed is done with, is counted
\* as lost, or has a task that answers for it.
PassedAreAnsweredFor ==
    /\ committed \subseteq Done
    /\ \A p \in Procs : task[p].pc = "commit" => task[p].slot \in Done
    /\ \A p \in Procs : task[p].pc = "mark" => task[p].slot \in committed
    /\ \A s \in Slots : s < cron.next /\ s \notin Done =>
          \/ s \in lost
          \/ \E p \in Procs : task[p].slot = s /\ task[p].queued /\ task[p].pc \in Answerable

\* A busy session uses up a late slot only, and time does not go back.
SkippedAreLate ==
    /\ late \in Nat
    /\ \A s \in skipped : s \in Slots /\ s <= late
    /\ \A p \in Procs : task[p].overdue => task[p].slot <= late

PassInv == CronTypeOK /\ ClaimsAreBehind /\ PassedAreAnsweredFor /\ SkippedAreLate

-----------------------------------------------------------------------------
(* Types                                                                   *)

\* A task that goes on changes its position only.
LEMMA GoesOn ==
    ASSUME CronTypeOK, NEW p \in Procs, task[p].pc # "idle",
           NEW where \in Positions \ {"idle"}, Goes(p, where)
    PROVE  /\ task' \in [Procs -> Task]
           /\ \A q \in Procs : task'[q].pc # "idle" => task'[q].slot \in Slots
           /\ \A q \in Procs : task'[q].pc = "idle" => ~task'[q].queued
           /\ task'[p].pc = where
           /\ \A q \in Procs : /\ task'[q].slot = task[q].slot
                               /\ task'[q].queued = task[q].queued
                               /\ task'[q].overdue = task[q].overdue
                               /\ task'[q].prior = task[q].prior
           /\ \A q \in Procs \ {p} : task'[q] = task[q]
<1> DEFINE t == [task[p] EXCEPT !.pc = where]
<1>1. task[p] \in Task
  BY DEF CronTypeOK
<1>2. /\ t \in Task /\ t.pc = where /\ t.slot = task[p].slot
      /\ t.queued = task[p].queued /\ t.overdue = task[p].overdue
      /\ t.prior = task[p].prior
  BY <1>1 DEF Task
<1>3. task' = [task EXCEPT ![p] = t]
  BY DEF Goes
<1> HIDE DEF t
<1> QED BY <1>2, <1>3 DEF CronTypeOK

\* A place that is free, and one that was just taken.
LEMMA IdleType ==
    /\ Idle \in Task /\ Idle.pc = "idle" /\ ~Idle.queued /\ NoClaim \in Claim
    /\ Idle.slot = 0 /\ ~Idle.overdue
BY CronAssumption DEF Idle, NoClaim, Task, Claim, Positions

\* claimSlot(): the cron moves past the slot, which is the task's claim.
LEMMA ClaimedType ==
    ASSUME CronTypeOK, NEW p \in Procs, task[p].slot \in Slots
    PROVE  /\ Claimed(p) \in [next : 1..(SlotBound + 1), last : Claim,
                              deferred : BOOLEAN, enabled : BOOLEAN]
           /\ Claimed(p).next = task[p].slot + 1
           /\ Claimed(p).last = [by |-> p, slot |-> task[p].slot]
<1>1. [by |-> p, slot |-> task[p].slot] \in Claim
  BY DEF Claim, Slots
<1>2. task[p].slot + 1 \in 1..(SlotBound + 1)
  BY CronAssumption DEF Slots
<1> QED BY <1>1, <1>2 DEF CronTypeOK, Claimed, Slot

\* unclaimSlot(): the slot and the claim before it are restored, if the claim is still the task's.
LEMMA unclaimType ==
    ASSUME CronTypeOK, NEW p \in Procs, task[p].slot \in Slots
    PROVE  /\ unclaimSlot(p) \in [next : 1..(SlotBound + 1), last : Claim,
                                  deferred : BOOLEAN, enabled : BOOLEAN]
           /\ HasClaim(p) => /\ unclaimSlot(p).next = task[p].slot
                             /\ unclaimSlot(p).last = task[p].prior
           /\ ~HasClaim(p) => unclaimSlot(p) = cron
<1>1. task[p].prior \in Claim
  BY DEF CronTypeOK, Task
<1>2. task[p].slot \in 1..(SlotBound + 1)
  BY CronAssumption DEF Slots
<1> QED BY <1>1, <1>2 DEF CronTypeOK, unclaimSlot, Slot

\* Where a fire that did not happen goes on.
LEMMA GivesUpGoes ==
    ASSUME CronTypeOK, NEW p \in Procs, GivesUp(p)
    PROVE  \E where \in {"unclaim", "end"} :
              Goes(p, where) /\ where = (IF task[p].queued THEN "unclaim" ELSE "end")
BY DEF GivesUp

\* A job that is taken from the queue, or a tick.
LEMMA TaskStarts ==
    ASSUME CronTypeOK, NEW p \in Procs, NEW t \in Task, t.pc = "lock", t.slot \in Slots,
           task' = [task EXCEPT ![p] = t]
    PROVE  /\ task' \in [Procs -> Task]
           /\ \A q \in Procs : task'[q].pc # "idle" => task'[q].slot \in Slots
           /\ \A q \in Procs : task'[q].pc = "idle" => ~task'[q].queued
           /\ task'[p] = t
           /\ \A q \in Procs \ {p} : task'[q] = task[q]
BY DEF CronTypeOK

\* What fireJob() takes from the queue.
LEMMA JobTaken ==
    ASSUME CronTypeOK, NEW p \in Procs, fireJob(p)
    PROVE  \/ UNCHANGED task
           \/ \E t \in Task :
                /\ t.pc = "lock" /\ t.slot \in Slots /\ t.slot = cron.next
                /\ t.prior = cron.last /\ (t.overdue => t.slot <= late)
                /\ task' = [task EXCEPT ![p] = t]
<1>1. SUFFICES ASSUME NEW s \in Slots, cron.next = s,
                      task' = [task EXCEPT ![p] = [Idle EXCEPT !.pc = "lock", !.slot = s,
                                                      !.queued = TRUE, !.overdue = s <= late,
                                                      !.prior = cron.last]]
               PROVE  \E t \in Task :
                        /\ t.pc = "lock" /\ t.slot \in Slots /\ t.slot = cron.next
                        /\ t.prior = cron.last /\ (t.overdue => t.slot <= late)
                        /\ task' = [task EXCEPT ![p] = t]
  BY DEF fireJob, CronTypeOK
<1> DEFINE b == (s <= late)
           t == [Idle EXCEPT !.pc = "lock", !.slot = s, !.queued = TRUE, !.overdue = b,
                             !.prior = cron.last]
<1>2. /\ cron.last \in Claim /\ s \in 0..SlotBound /\ TRUE \in BOOLEAN /\ FALSE \in BOOLEAN
      /\ b \in BOOLEAN
  BY DEF CronTypeOK, Slots
<1>4. (b => s <= late) /\ task' = [task EXCEPT ![p] = t]
  BY <1>1
<1> HIDE DEF b
<1>3. t \in Task /\ t.pc = "lock" /\ t.slot = s /\ t.prior = cron.last /\ t.overdue = b
  BY <1>2 DEF Idle, Task, Positions
<1> HIDE DEF t
<1> QED BY <1>1, <1>3, <1>4

\* What a tick found due.
LEMMA TickTaken ==
    ASSUME CronTypeOK, NEW p \in Procs, TickReads(p)
    PROVE  \E t \in Task :
                /\ t.pc = "lock" /\ t.slot \in Slots /\ ~t.queued
                /\ t.overdue => t.slot <= late
                /\ task' = [task EXCEPT ![p] = t]
<1> DEFINE b == (cron.next <= late)
           t == [Idle EXCEPT !.pc = "lock", !.slot = cron.next, !.overdue = b]
<1>1. cron.next \in Slots /\ cron.next \in 0..SlotBound /\ b \in BOOLEAN
  BY DEF TickReads, Due, Slots
<1>3. (b => cron.next <= late) /\ task' = [task EXCEPT ![p] = t]
  BY DEF TickReads
<1> HIDE DEF b
<1>2. t \in Task /\ t.pc = "lock" /\ t.slot = cron.next /\ ~t.queued /\ t.overdue = b
  BY <1>1, IdleType DEF Idle, Task, Positions
<1> HIDE DEF t
<1> QED BY <1>1, <1>2, <1>3

\* A task that is over, or whose process died.
LEMMA TaskOver ==
    ASSUME CronTypeOK, NEW p \in Procs, task' = [task EXCEPT ![p] = Idle]
    PROVE  /\ task' \in [Procs -> Task]
           /\ \A q \in Procs : task'[q].pc # "idle" => task'[q].slot \in Slots
           /\ \A q \in Procs : task'[q].pc = "idle" => ~task'[q].queued
           /\ task'[p] = Idle /\ task'[p].pc = "idle" /\ ~task'[p].queued
           /\ ~task'[p].overdue
           /\ \A q \in Procs \ {p} : task'[q] = task[q]
BY IdleType DEF CronTypeOK

\* A task whose scheduler was stopped.
LEMMA TaskStale ==
    ASSUME CronTypeOK, NEW p \in Procs, stopClaims(p)
    PROVE  /\ task' \in [Procs -> Task]
           /\ \A q \in Procs : /\ task'[q].pc = task[q].pc
                               /\ task'[q].slot = task[q].slot
                               /\ task'[q].queued = task[q].queued
                               /\ task'[q].overdue = task[q].overdue
                               /\ task'[q].prior = task[q].prior
<1> DEFINE b == (task[p] # Idle)
           t == [task[p] EXCEPT !.stale = b]
<1>1. task[p] \in Task /\ b \in BOOLEAN
  BY DEF CronTypeOK
<1> HIDE DEF b
<1>2. /\ t \in Task /\ t.pc = task[p].pc /\ t.slot = task[p].slot
      /\ t.queued = task[p].queued /\ t.overdue = task[p].overdue
      /\ t.prior = task[p].prior
  BY <1>1 DEF Task
<1>3. task' = [task EXCEPT ![p] = t]
  BY DEF stopClaims, b
<1> HIDE DEF t
<1> QED BY <1>2, <1>3 DEF CronTypeOK
\* Every step keeps the types.
LEMMA CronTypeStep ==
    ASSUME CronTypeOK, [Next]_vars
    PROVE  CronTypeOK'
<1> DEFINE TaskOK == /\ task' \in [Procs -> Task]
                     /\ \A q \in Procs : task'[q].pc # "idle" => task'[q].slot \in Slots
                     /\ \A q \in Procs : task'[q].pc = "idle" => ~task'[q].queued
           CronOK == cron' \in [next : 1..(SlotBound + 1), last : Claim,
                                deferred : BOOLEAN, enabled : BOOLEAN]
           AllOK == TaskOK /\ CronOK /\ acts' \in [Slots -> Nat] /\ jobs' \subseteq Slots
<1>1. SUFFICES AllOK
  BY DEF CronTypeOK
<1>2. UNCHANGED task => TaskOK
  BY DEF CronTypeOK
<1>3. UNCHANGED cron => CronOK
  BY DEF CronTypeOK
<1>4. /\ UNCHANGED acts => acts' \in [Slots -> Nat]
      /\ UNCHANGED jobs => jobs' \subseteq Slots
  BY DEF CronTypeOK
<1>5. ASSUME NEW p \in Procs, NEW where \in Positions \ {"idle"}, task[p].pc # "idle",
             Goes(p, where)
      PROVE  TaskOK
  BY <1>5, GoesOn
<1>6. ASSUME NEW p \in Procs, task[p].pc # "idle", GivesUp(p)
      PROVE  TaskOK
  BY <1>6, <1>5, GivesUpGoes DEF Positions
<1>7. ASSUME NEW p \in Procs, task[p].slot \in Slots, Acted(p)
      PROVE  acts' \in [Slots -> Nat]
  BY <1>7 DEF Acted, CronTypeOK, Slot
<1> HIDE DEF TaskOK
<1>8. NextJob \subseteq Slots
  BY DEF NextJob
<1>9. ASSUME NEW p \in Procs, Proceeds(p) PROVE AllOK
  <2>1. CASE Locks(p)
    <3>1. TaskOK
      BY <2>1, <1>5 DEF Locks, Positions
    <3>2. CronOK
      BY <2>1 DEF Locks, CronTypeOK
    <3> QED BY <2>1, <3>1, <3>2, <1>4 DEF Locks
  <2>2. CASE Claims(p)
    <3>1. TaskOK
      BY <2>2, <1>5 DEF Claims, Positions
    <3>2. cron' = Claimed(p) \/ UNCHANGED cron
      BY <2>2 DEF Claims
    <3>3. task[p].slot \in Slots
      BY <2>2 DEF Claims, CronTypeOK
    <3>4. CronOK
      BY <3>2, <3>3, <1>3, ClaimedType
    <3> QED BY <2>2, <3>1, <3>4, <1>4 DEF Claims
  <2>3. CASE ClaimReturns(p)
    BY <2>3, <1>3, <1>4, <1>5 DEF ClaimReturns, Positions
  <2>4. CASE Fires(p)
    <3>1. TaskOK
      BY <2>4, <1>5, <1>6 DEF Fires, Positions
    <3> QED BY <2>4, <3>1, <1>3, <1>4 DEF Fires
  <2>5. CASE Refuses(p)
    <3>1. CronOK
      BY <2>5 DEF Refuses, CronTypeOK
    <3> QED BY <2>5, <3>1, <1>4, <1>6 DEF Refuses
  <2>6. CASE Acts(p)
    <3>1. TaskOK
      BY <2>6, <1>5 DEF Acts, Positions
    <3> QED BY <2>6, <3>1, <1>3, <1>4, <1>7 DEF Acts, CronTypeOK
  <2>7. CASE Defers(p)
    <3>1. TaskOK
      BY <2>7, <1>5 DEF Defers, Positions
    <3>2. CronOK
      BY <2>7 DEF Defers, CronTypeOK
    <3> QED BY <2>7, <3>1, <3>2, <1>4 DEF Defers
  <2>8. CASE FireFails(p)
    <3>1. task[p].slot \in Slots
      BY <2>8 DEF FireFails, CronTypeOK
    <3> QED BY <2>8, <3>1, <1>3, <1>4, <1>6, <1>7 DEF FireFails
  <2>9. CASE Commits(p)
    BY <2>9, <1>3, <1>4, <1>5 DEF Commits, Positions
  <2>10. CASE markFired(p)
    <3>1. TaskOK
      BY <2>10, <1>5 DEF markFired, Positions
    <3>2. CronOK
      BY <2>10, ClaimedType DEF markFired, CronTypeOK
    <3> QED BY <2>10, <3>1, <3>2, <1>4 DEF markFired
  <2>11. CASE Unclaims(p)
    <3>1. TaskOK
      BY <2>11, <1>5 DEF Unclaims, Positions
    <3>2. CronOK
      BY <2>11, <1>3, unclaimType DEF Unclaims, CronTypeOK
    <3> QED BY <2>11, <3>1, <3>2, <1>4 DEF Unclaims
  <2>12. CASE enqueueNext(p)
    <3>1. TaskOK
      BY <2>12, <1>5 DEF enqueueNext, Positions
    <3>2. jobs' \subseteq Slots
      BY <2>12, <1>8 DEF enqueueNext, Enqueued, CronTypeOK
    <3> QED BY <2>12, <3>1, <3>2, <1>3, <1>4 DEF enqueueNext
  <2>13. CASE Ends(p)
    <3>1. TaskOK
      BY <2>13, TaskOver DEF Ends, TaskOK
    <3> QED BY <2>13, <3>1, <1>3, <1>4 DEF Ends
  <2>14. CASE Skips(p)
    BY <2>14, <1>3, <1>4, <1>5 DEF Skips, SkipsBusy, Positions
  <2> QED BY <1>9, <2>1, <2>2, <2>3, <2>4, <2>5, <2>6, <2>7, <2>8, <2>9, <2>10, <2>11,
             <2>12, <2>13, <2>14 DEF Proceeds
<1>10. ASSUME NEW p \in Procs, fireJob(p) PROVE AllOK
  <2>1. TaskOK
    BY <1>10, <1>2, JobTaken, TaskStarts DEF TaskOK
  <2>2. jobs' \subseteq Slots
    BY <1>10 DEF fireJob, CronTypeOK
  <2> QED BY <1>10, <2>1, <2>2, <1>3, <1>4 DEF fireJob
<1>11. ASSUME NEW p \in Procs, TickReads(p) PROVE AllOK
  <2>1. TaskOK
    BY <1>11, TickTaken, TaskStarts DEF TaskOK
  <2> QED BY <1>11, <2>1, <1>3, <1>4 DEF TickReads
<1>12. ASSUME NEW p \in Procs,
              reconcile(p) \/ leaseGuard(p) \/ start(p) \/ LockLost(p) \/ LeaseLost(p)
       PROVE  AllOK
  <2>1. jobs' \subseteq Slots
    BY <1>12, <1>8 DEF reconcile, leaseGuard, start, LockLost, LeaseLost, CronTypeOK
  <2> QED BY <1>12, <2>1, <1>2, <1>3, <1>4
          DEF reconcile, leaseGuard, start, LockLost, LeaseLost
<1>13. ASSUME NEW p \in Procs, stopClaims(p) PROVE AllOK
  <2>1. TaskOK
    BY <1>13, TaskStale DEF TaskOK, CronTypeOK
  <2> QED BY <1>13, <2>1, <1>3, <1>4 DEF stopClaims
<1>14. ASSUME NEW p \in Procs, Crashes(p) PROVE AllOK
  <2>1. TaskOK
    BY <1>14, TaskOver DEF TaskOK, Crashes
  <2> QED BY <1>14, <2>1, <1>3, <1>4 DEF Crashes
<1>15. CASE DatePasses \/ BusyLimitPasses \/ runNow \/ runNowSettles \/ UNCHANGED vars
  BY <1>15, <1>2, <1>3, <1>4 DEF DatePasses, BusyLimitPasses, runNow, runNowSettles, vars
<1>16. CASE DeferEnds \/ Disables \/ Enables
  <2>1. CronOK
    BY <1>16 DEF DeferEnds, Disables, Enables, CronTypeOK
  <2> QED BY <1>16, <2>1, <1>2, <1>4 DEF DeferEnds, Disables, Enables
<1> QED BY <1>9, <1>10, <1>11, <1>12, <1>13, <1>14, <1>15, <1>16 DEF Next
-----------------------------------------------------------------------------
(* A slot is acted on once                                                 *)

\* Steps that neither act nor record: no task comes to "commit" or leaves it, none
\* comes to "act" with a recorded slot, and at these places no lock changes hands.
LEMMA NoAct ==
    ASSUME ActsAreKnown, UNCHANGED <<acts, unrecorded, committed>>,
           \A q \in Procs : /\ (task'[q].pc = "commit") <=> (task[q].pc = "commit")
                            /\ task[q].pc = "commit" =>
                                  /\ task'[q].slot = task[q].slot
                                  /\ (lock' = q) <=> (lock = q),
           \A q \in Procs : task'[q].pc = "act" =>
              \/ task[q].pc = "act" /\ task'[q].slot = task[q].slot /\ (lock' = q => lock = q)
              \/ task'[q].slot \notin committed
    PROVE  ActsAreKnown'
<1>1. \A s \in Slots : acts'[s] > 0 =>
          \/ s \in unrecorded' \cup committed'
          \/ \E p \in Procs : task'[p].pc = "commit" /\ task'[p].slot = s /\ lock' = p
  BY DEF ActsAreKnown
<1>2. \A s \in Slots : acts'[s] > 1 => s \in unrecorded'
  BY DEF ActsAreKnown
<1>3. \A p \in Procs : task'[p].pc = "commit" /\ lock' # p => task'[p].slot \in unrecorded'
  BY DEF ActsAreKnown
<1>4. \A p \in Procs : task'[p].pc = "act" /\ lock' = p /\ task'[p].slot \in committed' =>
          task'[p].slot \in unrecorded'
  BY DEF ActsAreKnown
<1> QED BY <1>1, <1>2, <1>3, <1>4 DEF ActsAreKnown

\* A step of a task that neither acts nor records.
LEMMA NoActAt ==
    ASSUME ActInv, NEW p \in Procs, UNCHANGED <<acts, unrecorded, committed>>,
           task[p].pc \notin {"idle", "commit"},
           NEW where \in Positions \ {"idle", "commit"}, Goes(p, where),
           where = "act" => task[p].slot \notin committed,
           UNCHANGED lock \/ (lock = "none" /\ lock' = p)
    PROVE  ActsAreKnown'
<1>1. /\ task'[p].pc = where
      /\ \A q \in Procs : task'[q].slot = task[q].slot
      /\ \A q \in Procs \ {p} : task'[q] = task[q]
  BY GoesOn DEF ActInv
<1>2. \A q \in Procs \ {p} : (lock' = q) <=> (lock = q)
  BY CronAssumption
<1> QED BY <1>1, <1>2, NoAct DEF ActInv

\* Every step keeps account of the acts.
LEMMA ActsStep ==
    ASSUME ActInv, [Next]_vars
    PROVE  ActsAreKnown'
<1> USE DEF ActInv
<1>1. ASSUME UNCHANGED <<task, lock, acts, unrecorded, committed>> PROVE ActsAreKnown'
  BY <1>1, NoAct
<1>2. ASSUME NEW p \in Procs, GivesUp(p), task[p].pc \notin {"idle", "commit"},
             UNCHANGED <<lock, acts, unrecorded, committed>>
      PROVE  ActsAreKnown'
  BY <1>2, GivesUpGoes, NoActAt DEF Positions
<1>3. ASSUME NEW p \in Procs, Proceeds(p) PROVE ActsAreKnown'
  <2>1. CASE Locks(p)
    <3>1. PICK where \in {"end", "claim", "fire", "requeue"} : Goes(p, where)
      BY <2>1 DEF Locks
    <3> QED BY <2>1, <3>1, NoActAt DEF Locks, Positions
  <2>2. CASE Claims(p)
    <3>1. PICK where \in {"end", "claimed"} : Goes(p, where)
      BY <2>2 DEF Claims
    <3> QED BY <2>2, <3>1, NoActAt DEF Claims, Positions
  <2>3. CASE ClaimReturns(p)
    <3>1. PICK where \in {"unclaim", "fire"} : Goes(p, where)
      BY <2>3 DEF ClaimReturns
    <3> QED BY <2>3, <3>1, NoActAt DEF ClaimReturns, Positions
  <2>4. CASE Fires(p)
    <3>1. CASE ~cron.enabled
      BY <2>4, <3>1, <1>2 DEF Fires
    <3>2. CASE cron.enabled
      <4>1. PICK where \in {"act", "requeue", "mark"} :
               Goes(p, where) /\ (where = "act" => task[p].slot \notin committed)
        BY <2>4, <3>2 DEF Fires, Recorded, Slot
      <4> QED BY <2>4, <4>1, NoActAt DEF Fires, Positions
    <3> QED BY <3>1, <3>2
  <2>5. CASE Refuses(p)
    BY <2>5, <1>2 DEF Refuses
  <2>6. CASE Acts(p)
    <3> DEFINE s == task[p].slot
    <3>1. /\ task[p].pc = "act" /\ s \in Slots
          /\ acts' = [acts EXCEPT ![s] = @ + 1]
          /\ unrecorded' = (IF lock = p THEN unrecorded ELSE unrecorded \cup {s})
          /\ committed' = committed /\ lock' = lock
      BY <2>6 DEF Acts, Acted, Slot, CronTypeOK
    <3>2. /\ task'[p].pc = "commit"
          /\ \A q \in Procs : task'[q].slot = task[q].slot
          /\ \A q \in Procs \ {p} : task'[q] = task[q]
      BY <2>6, GoesOn DEF Acts, Positions
    <3>3. lock = p /\ acts[s] > 0 => s \in unrecorded
      BY <3>1 DEF ActsAreKnown
    <3>4. \A r \in Slots : r # s => acts'[r] = acts[r]
      BY <3>1 DEF CronTypeOK
    <3>5. acts[s] \in Nat /\ acts'[s] = acts[s] + 1
      BY <3>1 DEF CronTypeOK
    <3> HIDE DEF s
    <3>6. \A r \in Slots : acts'[r] > 0 =>
             \/ r \in unrecorded' \cup committed'
             \/ \E q \in Procs : task'[q].pc = "commit" /\ task'[q].slot = r /\ lock' = q
      <4>1. \A r \in Slots \ {s} : acts'[r] > 0 =>
               \/ r \in unrecorded' \cup committed'
               \/ \E q \in Procs : task'[q].pc = "commit" /\ task'[q].slot = r /\ lock' = q
        BY <3>1, <3>2, <3>4 DEF ActsAreKnown
      <4>2. \/ s \in unrecorded'
            \/ task'[p].pc = "commit" /\ task'[p].slot = s /\ lock' = p
        BY <3>1, <3>2 DEF s
      <4> QED BY <4>1, <4>2
    <3>7. \A r \in Slots : acts'[r] > 1 => r \in unrecorded'
      BY <3>1, <3>3, <3>4, <3>5 DEF ActsAreKnown
    <3>8. \A q \in Procs : task'[q].pc = "commit" /\ lock' # q => task'[q].slot \in unrecorded'
      BY <3>1, <3>2 DEF ActsAreKnown, s
    <3>9. \A q \in Procs : task'[q].pc = "act" /\ lock' = q /\ task'[q].slot \in committed' =>
             task'[q].slot \in unrecorded'
      BY <3>1, <3>2 DEF ActsAreKnown
    <3> QED BY <3>6, <3>7, <3>8, <3>9 DEF ActsAreKnown
  <2>7. CASE Defers(p)
    <3>1. PICK where \in {"putback", "end"} : Goes(p, where)
      BY <2>7 DEF Defers
    <3> QED BY <2>7, <3>1, NoActAt DEF Defers, Positions
  <2>8. CASE FireFails(p)
    <3> DEFINE s == task[p].slot
    <3>1. PICK where \in {"unclaim", "end"} : Goes(p, where)
      BY <2>8, GivesUpGoes DEF FireFails
    <3>2. /\ task'[p].pc = where
          /\ \A q \in Procs : task'[q].slot = task[q].slot
          /\ \A q \in Procs \ {p} : task'[q] = task[q]
      BY <2>8, <3>1, GoesOn DEF FireFails, Positions
    <3>3. /\ s \in Slots /\ committed' = committed /\ lock' = lock
          /\ unrecorded \subseteq unrecorded'
          /\ task[p].pc = "commit" => s \in unrecorded'
          /\ task[p].pc \in {"act", "commit"}
          /\ \/ acts' = acts
             \/ acts' = [acts EXCEPT ![s] = @ + 1] /\ s \in unrecorded'
      BY <2>8 DEF FireFails, Acted, Slot, CronTypeOK
    <3> HIDE DEF s
    <3>4. \A r \in Slots : acts'[r] = acts[r] \/ r \in unrecorded'
      BY <3>3 DEF CronTypeOK
    <3>5. \A q \in Procs : task[q].pc = "commit" =>
             task'[q].pc = "commit" \/ task[q].slot \in unrecorded'
      BY <3>2, <3>3 DEF s
    <3>6. \A r \in Slots : acts'[r] > 0 =>
             \/ r \in unrecorded' \cup committed'
             \/ \E q \in Procs : task'[q].pc = "commit" /\ task'[q].slot = r /\ lock' = q
      BY <3>2, <3>3, <3>4, <3>5 DEF ActsAreKnown
    <3>7. \A r \in Slots : acts'[r] > 1 => r \in unrecorded'
      BY <3>3, <3>4 DEF ActsAreKnown
    <3>8. \A q \in Procs : /\ task'[q].pc = "commit" => task[q].pc = "commit"
                           /\ task'[q].pc = "act" => task[q].pc = "act"
      BY <3>2
    <3> QED BY <3>2, <3>3, <3>6, <3>7, <3>8 DEF ActsAreKnown
  <2>9. CASE Commits(p)
    <3>1. PICK where \in {"requeue", "mark"} : Goes(p, where)
      BY <2>9 DEF Commits
    <3>2. /\ task'[p].pc = where
          /\ \A q \in Procs : task'[q].slot = task[q].slot
          /\ \A q \in Procs \ {p} : task'[q] = task[q]
      BY <2>9, <3>1, GoesOn DEF Commits, Positions
    <3>3. /\ task[p].pc = "commit" /\ committed' = committed \cup {task[p].slot}
          /\ UNCHANGED <<acts, unrecorded, lock>>
      BY <2>9 DEF Commits, Slot
    <3>4. \A s \in Slots : acts'[s] > 0 =>
             \/ s \in unrecorded' \cup committed'
             \/ \E q \in Procs : task'[q].pc = "commit" /\ task'[q].slot = s /\ lock' = q
      BY <3>2, <3>3 DEF ActsAreKnown
    <3>5. \A q \in Procs : task'[q].pc = "commit" /\ lock' # q => task'[q].slot \in unrecorded'
      BY <3>2, <3>3 DEF ActsAreKnown
    <3>6. ASSUME NEW q \in Procs, task'[q].pc = "act", lock' = q, task'[q].slot \in committed'
          PROVE  task'[q].slot \in unrecorded'
      <4>1. q # p /\ task[q] = task'[q]
        BY <3>2, <3>6
      <4>2. CASE task[q].slot = task[p].slot
        BY <3>3, <3>6, <4>1, <4>2 DEF ActsAreKnown
      <4>3. CASE task[q].slot # task[p].slot
        BY <3>3, <3>6, <4>1, <4>3 DEF ActsAreKnown
      <4> QED BY <4>2, <4>3
    <3> QED BY <3>3, <3>4, <3>5, <3>6 DEF ActsAreKnown
  <2>10. CASE markFired(p)
    BY <2>10, NoActAt DEF markFired, Positions
  <2>11. CASE Unclaims(p)
    <3>1. PICK where \in {"requeue", "end"} : Goes(p, where)
      BY <2>11 DEF Unclaims
    <3> QED BY <2>11, <3>1, NoActAt DEF Unclaims, Positions
  <2>12. CASE enqueueNext(p)
    BY <2>12, NoActAt DEF enqueueNext, Positions
  <2>13. CASE Ends(p)
    <3>1. /\ task'[p].pc = "idle"
          /\ \A q \in Procs \ {p} : task'[q] = task[q] /\ ((lock' = q) <=> (lock = q))
      BY <2>13, TaskOver, CronAssumption DEF Ends
    <3> QED BY <2>13, <3>1, NoAct DEF Ends
  <2>14. CASE Skips(p)
    <3>1. /\ task[p].pc = "act" /\ committed' = committed /\ lock' = lock /\ acts' = acts
          /\ unrecorded' = (IF lock = p THEN unrecorded ELSE unrecorded \cup {task[p].slot})
      BY <2>14 DEF Skips, SkipsBusy, Slot
    <3>2. /\ task'[p].pc = "commit"
          /\ \A q \in Procs : task'[q].slot = task[q].slot
          /\ \A q \in Procs \ {p} : task'[q] = task[q]
      BY <2>14, GoesOn DEF Skips, SkipsBusy, Positions
    <3> QED BY <3>1, <3>2 DEF ActsAreKnown
  <2> QED BY <1>3, <2>1, <2>2, <2>3, <2>4, <2>5, <2>6, <2>7, <2>8, <2>9, <2>10, <2>11,
             <2>12, <2>13, <2>14 DEF Proceeds
<1>4. ASSUME NEW p \in Procs, fireJob(p) PROVE ActsAreKnown'
  <2>1. CASE UNCHANGED task
    BY <1>1, <1>4, <2>1 DEF fireJob
  <2>2. CASE ~UNCHANGED task
    <3>1. /\ task'[p].pc = "lock" /\ task[p].pc = "idle"
          /\ \A q \in Procs \ {p} : task'[q] = task[q]
      BY <1>4, <2>2, JobTaken, TaskStarts, IdleType DEF fireJob
    <3> QED BY <1>4, <3>1, NoAct DEF fireJob
  <2> QED BY <2>1, <2>2
<1>5. ASSUME NEW p \in Procs, TickReads(p) PROVE ActsAreKnown'
  <2>1. /\ task'[p].pc = "lock" /\ task[p].pc = "idle"
        /\ \A q \in Procs \ {p} : task'[q] = task[q]
    BY <1>5, TickTaken, TaskStarts, IdleType DEF TickReads
  <2> QED BY <1>5, <2>1, NoAct DEF TickReads
<1>6. ASSUME NEW p \in Procs, reconcile(p) \/ leaseGuard(p) \/ start(p) \/ LeaseLost(p)
      PROVE  ActsAreKnown'
  BY <1>1, <1>6 DEF reconcile, leaseGuard, start, LeaseLost
<1>7. ASSUME NEW p \in Procs, stopClaims(p) PROVE ActsAreKnown'
  BY <1>7, TaskStale, NoAct DEF stopClaims
<1>8. ASSUME NEW p \in Procs, Crashes(p) PROVE ActsAreKnown'
  <2>1. /\ task'[p].pc = "idle"
        /\ \A q \in Procs \ {p} : task'[q] = task[q] /\ ((lock' = q) <=> (lock = q))
    BY <1>8, TaskOver, CronAssumption DEF Crashes
  <2>2. /\ UNCHANGED <<acts, committed>> /\ unrecorded \subseteq unrecorded'
        /\ task[p].pc = "commit" => task[p].slot \in unrecorded'
    BY <1>8 DEF Crashes, Slot
  <2> QED BY <2>1, <2>2 DEF ActsAreKnown
<1>9. ASSUME NEW p \in Procs, LockLost(p) PROVE ActsAreKnown'
  <2>1. /\ UNCHANGED <<acts, committed, task>> /\ unrecorded \subseteq unrecorded'
        /\ task[p].pc = "commit" => task[p].slot \in unrecorded'
        /\ lock = p /\ \A q \in Procs : lock' # q
    BY <1>9, CronAssumption DEF LockLost, Slot
  <2> QED BY <2>1 DEF ActsAreKnown
<1>10. CASE runNow \/ runNowSettles
  <2>1. \A q \in Procs : lock # q /\ lock' # q
    BY <1>10, CronAssumption DEF runNow, runNowSettles
  <2> QED BY <1>10, <2>1, NoAct DEF runNow, runNowSettles
<1>11. CASE \/ DatePasses \/ BusyLimitPasses \/ DeferEnds \/ Disables \/ Enables
             \/ UNCHANGED vars
  BY <1>1, <1>11 DEF DatePasses, BusyLimitPasses, DeferEnds, Disables, Enables, vars
<1> QED BY <1>3, <1>4, <1>5, <1>6, <1>7, <1>8, <1>9, <1>10, <1>11 DEF Next

\* The types hold in the initial states.
LEMMA CronTypeInit == Init => CronTypeOK
<1> SUFFICES ASSUME Init PROVE CronTypeOK
  OBVIOUS
<1>1. cron \in [next : 1..(SlotBound + 1), last : Claim, deferred : BOOLEAN, enabled : BOOLEAN]
  BY CronAssumption, IdleType DEF Init
<1> QED BY <1>1, IdleType DEF Init, CronTypeOK

\* A slot is acted on at most once, by the queue or by a tick and by whichever process,
\* unless an act was cut off before its record or went on without the cron's lock
\* (fire() under withCronLifecycle and once()).
THEOREM SlotActsOnceHolds == Spec => []SlotActsOnce
<1>1. Init => ActInv
  <2>1. Init => ActsAreKnown
    BY IdleType DEF Init, ActsAreKnown
  <2> QED BY <2>1, CronTypeInit DEF ActInv
<1>2. ActInv /\ [Next]_vars => ActInv'
  BY CronTypeStep, ActsStep DEF ActInv
<1>3. ActInv => SlotActsOnce
  BY DEF ActInv, ActsAreKnown, SlotActsOnce
<1> QED BY <1>1, <1>2, <1>3, PTL DEF Spec
-----------------------------------------------------------------------------
(* No slot is lost                                                         *)

\* The claim a task would restore, at its place and at the others.
LEMMA BehindStep ==
    ASSUME CronTypeOK, ClaimsAreBehind, [Next]_vars
    PROVE  ClaimsAreBehind'
<1> DEFINE TaskOK == /\ \A q \in Procs : task'[q].queued => task'[q].prior.slot < task'[q].slot
                     /\ \A q \in Procs :
                          task'[q].pc \in {"claim", "claimed", "unclaim", "putback"} =>
                             task'[q].queued
           CronOK == cron'.last.slot < cron'.next
<1>1. SUFFICES TaskOK /\ CronOK
  BY DEF ClaimsAreBehind
<1>2. UNCHANGED task => TaskOK
  BY DEF ClaimsAreBehind
<1>3. cron'.last = cron.last /\ cron'.next = cron.next => CronOK
  BY DEF ClaimsAreBehind
<1>4. ASSUME NEW p \in Procs, NEW where \in Positions \ {"idle"}, task[p].pc # "idle",
             Goes(p, where),
             where \in {"claim", "claimed", "unclaim", "putback"} => task[p].queued
      PROVE  TaskOK
  BY <1>4, GoesOn DEF ClaimsAreBehind
<1>5. ASSUME NEW p \in Procs, GivesUp(p), task[p].pc # "idle" PROVE TaskOK
  BY <1>5, <1>4, GivesUpGoes DEF Positions
<1>6. ASSUME NEW p \in Procs, task[p].pc # "idle", cron' = Claimed(p) PROVE CronOK
  <2>1. task[p].slot \in Slots
    BY <1>6 DEF CronTypeOK
  <2>2. cron'.next = task[p].slot + 1 /\ cron'.last = [by |-> p, slot |-> task[p].slot]
    BY <1>6, <2>1, ClaimedType
  <2>3. cron'.last.slot = task[p].slot /\ task[p].slot \in Nat
    BY <2>1, <2>2 DEF Slots
  <2> QED BY <2>2, <2>3
<1> HIDE DEF TaskOK, CronOK
<1>7. ASSUME NEW p \in Procs, Proceeds(p) PROVE TaskOK /\ CronOK
  <2>1. CASE Locks(p)
    <3>1. PICK where \in {"end", "claim", "fire", "requeue"} :
             Goes(p, where) /\ (where = "claim" => task[p].queued)
      BY <2>1 DEF Locks
    <3>2. cron'.last = cron.last /\ cron'.next = cron.next
      BY <2>1 DEF Locks, CronTypeOK
    <3> QED BY <2>1, <3>1, <3>2, <1>3, <1>4 DEF Locks, Positions
  <2>2. CASE Claims(p)
    <3>1. PICK where \in {"end", "claimed"} : Goes(p, where)
      BY <2>2 DEF Claims
    <3>2. task[p].queued
      BY <2>2 DEF Claims, ClaimsAreBehind
    <3>3. cron' = Claimed(p) \/ UNCHANGED cron
      BY <2>2 DEF Claims
    <3>4. TaskOK
      BY <2>2, <3>1, <3>2, <1>4 DEF Claims, Positions
    <3>5. CronOK
      BY <2>2, <3>3, <1>3, <1>6 DEF Claims
    <3> QED BY <3>4, <3>5
  <2>3. CASE ClaimReturns(p)
    <3>1. PICK where \in {"unclaim", "fire"} : Goes(p, where)
      BY <2>3 DEF ClaimReturns
    <3>2. task[p].queued
      BY <2>3 DEF ClaimReturns, ClaimsAreBehind
    <3> QED BY <2>3, <3>1, <3>2, <1>3, <1>4 DEF ClaimReturns, Positions
  <2>4. CASE Fires(p)
    <3>1. CASE ~cron.enabled
      BY <2>4, <3>1, <1>3, <1>5 DEF Fires
    <3>2. CASE cron.enabled
      <4>1. PICK where \in {"act", "requeue", "mark"} : Goes(p, where)
        BY <2>4, <3>2 DEF Fires
      <4> QED BY <2>4, <4>1, <1>3, <1>4 DEF Fires, Positions
    <3> QED BY <3>1, <3>2
  <2>5. CASE Refuses(p)
    <3>1. cron'.last = cron.last /\ cron'.next = cron.next
      BY <2>5 DEF Refuses, CronTypeOK
    <3> QED BY <2>5, <3>1, <1>3, <1>5 DEF Refuses
  <2>6. CASE Acts(p)
    BY <2>6, <1>3, <1>4 DEF Acts, Positions
  <2>7. CASE Defers(p)
    <3>1. PICK where \in {"putback", "end"} :
             Goes(p, where) /\ (where = "putback" => task[p].queued)
      BY <2>7 DEF Defers
    <3>2. cron'.last = cron.last /\ cron'.next = cron.next
      BY <2>7 DEF Defers, CronTypeOK
    <3> QED BY <2>7, <3>1, <3>2, <1>3, <1>4 DEF Defers, Positions
  <2>8. CASE FireFails(p)
    BY <2>8, <1>3, <1>5 DEF FireFails
  <2>9. CASE Commits(p)
    <3>1. PICK where \in {"requeue", "mark"} : Goes(p, where)
      BY <2>9 DEF Commits
    <3> QED BY <2>9, <3>1, <1>3, <1>4 DEF Commits, Positions
  <2>10. CASE markFired(p)
    BY <2>10, <1>4, <1>6 DEF markFired, Positions
  <2>11. CASE Unclaims(p)
    <3>1. PICK where \in {"requeue", "end"} : Goes(p, where)
      BY <2>11 DEF Unclaims
    <3>2. TaskOK
      BY <2>11, <3>1, <1>4 DEF Unclaims, Positions
    <3>3. task[p].slot \in Slots /\ task[p].prior.slot < task[p].slot
      BY <2>11 DEF Unclaims, CronTypeOK, ClaimsAreBehind
    <3>4. UNCHANGED cron \/ (cron' = unclaimSlot(p) /\ HasClaim(p))
      BY <2>11, <3>3, unclaimType DEF Unclaims
    <3>5. CronOK
      BY <3>3, <3>4, <1>3, unclaimType DEF CronOK
    <3> QED BY <3>2, <3>5
  <2>12. CASE enqueueNext(p)
    BY <2>12, <1>3, <1>4 DEF enqueueNext, Positions
  <2>13. CASE Ends(p)
    <3>1. TaskOK
      BY <2>13, TaskOver DEF Ends, TaskOK, ClaimsAreBehind
    <3> QED BY <2>13, <3>1, <1>3 DEF Ends
  <2>14. CASE Skips(p)
    BY <2>14, <1>3, <1>4 DEF Skips, SkipsBusy, Positions
  <2> QED BY <1>7, <2>1, <2>2, <2>3, <2>4, <2>5, <2>6, <2>7, <2>8, <2>9, <2>10, <2>11,
             <2>12, <2>13, <2>14 DEF Proceeds
<1>8. ASSUME NEW p \in Procs, fireJob(p) PROVE TaskOK /\ CronOK
  <2>1. CASE UNCHANGED task
    BY <1>8, <2>1, <1>2, <1>3 DEF fireJob
  <2>2. CASE ~UNCHANGED task
    <3> PICK t \in Task : /\ t.pc = "lock" /\ t.slot \in Slots /\ t.slot = cron.next
                          /\ t.prior = cron.last /\ task' = [task EXCEPT ![p] = t]
      BY <1>8, <2>2, JobTaken
    <3>1. /\ task'[p].pc = "lock" /\ task'[p].slot = cron.next /\ task'[p].prior = cron.last
          /\ \A q \in Procs \ {p} : task'[q] = task[q]
      BY TaskStarts
    <3> QED BY <1>8, <3>1, <1>3 DEF fireJob, TaskOK, ClaimsAreBehind
  <2> QED BY <2>1, <2>2
<1>9. ASSUME NEW p \in Procs, TickReads(p) PROVE TaskOK /\ CronOK
  <2> PICK t \in Task : /\ t.pc = "lock" /\ t.slot \in Slots /\ ~t.queued
                        /\ task' = [task EXCEPT ![p] = t]
    BY <1>9, TickTaken
  <2>1. /\ task'[p].pc = "lock" /\ ~task'[p].queued
        /\ \A q \in Procs \ {p} : task'[q] = task[q]
    BY TaskStarts
  <2> QED BY <1>9, <2>1, <1>3 DEF TickReads, TaskOK, ClaimsAreBehind
<1>10. ASSUME NEW p \in Procs,
              reconcile(p) \/ leaseGuard(p) \/ start(p) \/ LockLost(p) \/ LeaseLost(p)
       PROVE  TaskOK /\ CronOK
  BY <1>10, <1>2, <1>3 DEF reconcile, leaseGuard, start, LockLost, LeaseLost
<1>11. ASSUME NEW p \in Procs, stopClaims(p) PROVE TaskOK /\ CronOK
  BY <1>11, <1>3, TaskStale DEF stopClaims, TaskOK, ClaimsAreBehind
<1>12. ASSUME NEW p \in Procs, Crashes(p) PROVE TaskOK /\ CronOK
  <2>1. TaskOK
    BY <1>12, TaskOver DEF Crashes, TaskOK, ClaimsAreBehind
  <2> QED BY <1>12, <2>1, <1>3 DEF Crashes
<1>13. CASE DatePasses \/ BusyLimitPasses \/ runNow \/ runNowSettles \/ UNCHANGED vars
  BY <1>13, <1>2, <1>3 DEF DatePasses, BusyLimitPasses, runNow, runNowSettles, vars
<1>14. CASE DeferEnds \/ Disables \/ Enables
  <2>1. cron'.last = cron.last /\ cron'.next = cron.next
    BY <1>14 DEF DeferEnds, Disables, Enables, CronTypeOK
  <2> QED BY <1>14, <2>1, <1>2, <1>3 DEF DeferEnds, Disables, Enables
<1> QED BY <1>7, <1>8, <1>9, <1>10, <1>11, <1>12, <1>13, <1>14 DEF Next

\* Steps that leave the acts and the records: a task that leaves its answerable place
\* names its slot as lost, or takes back what the cron has passed.
LEMMA AnswersKept ==
    ASSUME CronTypeOK, PassedAreAnsweredFor, UNCHANGED <<Done, committed>>,
           lost \subseteq lost', cron'.next <= cron.next,
           \A q \in Procs : task'[q].pc = "commit" =>
              task[q].pc = "commit" /\ task'[q].slot = task[q].slot,
           \A q \in Procs : task'[q].pc = "mark" => task'[q].slot \in committed,
           \A q \in Procs : task[q].queued /\ task[q].pc \in Answerable =>
              \/ task'[q].queued /\ task'[q].pc \in Answerable /\ task'[q].slot = task[q].slot
              \/ task[q].slot \in lost' \/ task[q].slot >= cron'.next
              \/ task[q].slot \in Done,
           cron'.next \in Nat
    PROVE  PassedAreAnsweredFor'
<1>1. committed' \subseteq Done'
  BY DEF PassedAreAnsweredFor
<1>2. \A q \in Procs : task'[q].pc = "commit" => task'[q].slot \in Done'
  BY DEF PassedAreAnsweredFor
<1>3. \A q \in Procs : task'[q].pc = "mark" => task'[q].slot \in committed'
  BY DEF PassedAreAnsweredFor
<1>4. ASSUME NEW s \in Slots, s < cron'.next, s \notin Done', s \notin lost'
      PROVE  \E q \in Procs : task'[q].slot = s /\ task'[q].queued /\ task'[q].pc \in Answerable
  <2>1. s < cron.next
    BY <1>4 DEF CronTypeOK, Slots
  <2>2. PICK q \in Procs : task[q].slot = s /\ task[q].queued /\ task[q].pc \in Answerable
    BY <1>4, <2>1 DEF PassedAreAnsweredFor
  <2> QED BY <1>4, <2>2 DEF Slots
<1> QED BY <1>1, <1>2, <1>3, <1>4 DEF PassedAreAnsweredFor
\* Every step keeps who answers for the slots that were passed.
LEMMA PassedStep ==
    ASSUME PassInv, [Next]_vars
    PROVE  PassedAreAnsweredFor'
<1> USE DEF PassInv
<1>0. cron.next \in Nat
  BY DEF CronTypeOK
<1>1. ASSUME UNCHANGED <<task, Done, committed, lost>>, cron'.next = cron.next
      PROVE  PassedAreAnsweredFor'
  BY <1>1 DEF PassedAreAnsweredFor
<1>2. ASSUME NEW p \in Procs, task[p].pc # "idle",
             NEW where \in Positions \ {"idle", "commit"}, Goes(p, where),
             UNCHANGED <<Done, committed>>, lost \subseteq lost',
             cron'.next \in Nat, cron'.next <= cron.next,
             where = "mark" => task[p].slot \in committed,
             \/ where \in Answerable
             \/ task[p].queued /\ task[p].pc \in Answerable =>
                  \/ task[p].slot \in lost' \/ task[p].slot >= cron'.next
                  \/ task[p].slot \in Done
      PROVE  PassedAreAnsweredFor'
  <2>1. /\ task'[p].pc = where
        /\ \A q \in Procs : task'[q].slot = task[q].slot /\ task'[q].queued = task[q].queued
        /\ \A q \in Procs \ {p} : task'[q] = task[q]
    BY <1>2, GoesOn
  <2>2. \A q \in Procs : task'[q].pc = "commit" =>
           task[q].pc = "commit" /\ task'[q].slot = task[q].slot
    BY <1>2, <2>1
  <2>3. \A q \in Procs : task'[q].pc = "mark" => task'[q].slot \in committed
    BY <1>2, <2>1 DEF PassedAreAnsweredFor
  <2>4. \A q \in Procs : task[q].queued /\ task[q].pc \in Answerable =>
           \/ task'[q].queued /\ task'[q].pc \in Answerable /\ task'[q].slot = task[q].slot
           \/ task[q].slot \in lost' \/ task[q].slot >= cron'.next
           \/ task[q].slot \in Done
    BY <1>2, <2>1
  <2> QED BY <1>2, <2>2, <2>3, <2>4, AnswersKept
<1>3. ASSUME NEW p \in Procs, GivesUp(p), task[p].pc # "idle",
             UNCHANGED <<Done, committed, lost>>, cron'.next = cron.next
      PROVE  PassedAreAnsweredFor'
  <2>1. PICK where \in {"unclaim", "end"} :
           Goes(p, where) /\ (task[p].queued => where = "unclaim")
    BY <1>3, GivesUpGoes
  <2> QED BY <1>0, <1>2, <1>3, <2>1 DEF Answerable, Positions
\* The cron moves past the slot of p.
<1>4. ASSUME NEW p \in Procs, task[p].pc # "idle", NEW where \in {"claimed", "end"},
             Goes(p, where), UNCHANGED <<Done, committed>>, cron' = Claimed(p),
             task[p].pc \notin Answerable, lost \subseteq lost',
             \/ where = "claimed" /\ task[p].queued
             \/ task[p].slot \in lost'
             \/ task[p].slot \in Done,
             \A s \in Slots : cron.next <= s /\ s < task[p].slot => s \in lost'
      PROVE  PassedAreAnsweredFor'
  <2>1. /\ task'[p].pc = where
        /\ \A q \in Procs : task'[q].slot = task[q].slot /\ task'[q].queued = task[q].queued
        /\ \A q \in Procs \ {p} : task'[q] = task[q]
    BY <1>4, GoesOn DEF Positions
  <2>2. task[p].slot \in Slots /\ cron'.next = task[p].slot + 1
    BY <1>4, ClaimedType DEF CronTypeOK
  <2>3. ASSUME NEW s \in Slots, s < cron'.next, s \notin Done', s \notin lost'
        PROVE  \E q \in Procs : task'[q].slot = s /\ task'[q].queued /\ task'[q].pc \in Answerable
    <3>1. CASE s = task[p].slot
      BY <1>4, <2>1, <2>3, <3>1 DEF Answerable
    <3>2. CASE s # task[p].slot
      <4>1. s < task[p].slot
        BY <2>2, <2>3, <3>2 DEF Slots
      <4>2. s < cron.next
        BY <1>0, <1>4, <2>3, <4>1 DEF Slots
      <4>3. PICK q \in Procs : task[q].slot = s /\ task[q].queued /\ task[q].pc \in Answerable
        BY <1>4, <2>3, <4>2 DEF PassedAreAnsweredFor
      <4> QED BY <1>4, <2>1, <4>3
    <3> QED BY <3>1, <3>2
  <2>4. \A q \in Procs : /\ task'[q].pc = "commit" => task'[q].slot \in Done'
                         /\ task'[q].pc = "mark" => task'[q].slot \in committed'
    BY <1>4, <2>1 DEF PassedAreAnsweredFor
  <2> QED BY <1>4, <2>3, <2>4 DEF PassedAreAnsweredFor
\* The slot of p is acted on or used up.
<1>5. ASSUME NEW p \in Procs, task[p].pc = "act", NEW where \in {"commit", "unclaim", "end"},
             Goes(p, where), Done' = Done \cup {task[p].slot}, UNCHANGED <<cron, committed, lost>>
      PROVE  PassedAreAnsweredFor'
  <2>1. /\ task'[p].pc = where
        /\ \A q \in Procs : task'[q].slot = task[q].slot /\ task'[q].queued = task[q].queued
        /\ \A q \in Procs \ {p} : task'[q] = task[q]
    BY <1>5, GoesOn DEF Positions
  <2>6. \A q \in Procs : task'[q].pc = "commit" => task'[q].slot \in Done'
    BY <1>5, <2>1 DEF PassedAreAnsweredFor
  <2>8. ASSUME NEW s \in Slots, s < cron'.next, s \notin Done', s \notin lost'
        PROVE  \E q \in Procs : task'[q].slot = s /\ task'[q].queued /\ task'[q].pc \in Answerable
    <3>1. PICK q \in Procs : task[q].slot = s /\ task[q].queued /\ task[q].pc \in Answerable
      BY <1>5, <2>8 DEF PassedAreAnsweredFor
    <3>2. q # p
      BY <1>5, <2>8, <3>1
    <3> QED BY <2>1, <3>1, <3>2
  <2>9. \A q \in Procs : task'[q].pc = "mark" => task'[q].slot \in committed'
    BY <1>5, <2>1 DEF PassedAreAnsweredFor
  <2> QED BY <1>5, <2>6, <2>8, <2>9 DEF PassedAreAnsweredFor
<1>51. UNCHANGED <<acts, skipped>> => UNCHANGED Done
  BY DEF Done
<1>52. ASSUME NEW p \in Procs, task[p].pc = "act", Acted(p), UNCHANGED skipped
       PROVE  Done' = Done \cup {task[p].slot}
  <2>1. task[p].slot \in Slots /\ acts' = [acts EXCEPT ![task[p].slot] = @ + 1]
    BY <1>52 DEF Acted, Slot, CronTypeOK
  <2>2. /\ \A s \in Slots \ {task[p].slot} : acts'[s] = acts[s]
        /\ acts'[task[p].slot] > 0
    BY <2>1 DEF CronTypeOK
  <2> QED BY <1>52, <2>1, <2>2 DEF Done
<1>6. ASSUME NEW p \in Procs, Proceeds(p) PROVE PassedAreAnsweredFor'
  <2>1. CASE Locks(p)
    <3>1. PICK where \in {"end", "claim", "fire", "requeue"} : Goes(p, where)
      BY <2>1 DEF Locks
    <3>2. cron'.next = cron.next
      BY <2>1 DEF Locks, CronTypeOK
    <3> QED BY <2>1, <3>1, <3>2, <1>0, <1>2, <1>51 DEF Locks, Answerable, Positions
  <2>2. CASE Claims(p)
    <3>1. CASE UNCHANGED cron /\ Goes(p, "end") /\ UNCHANGED lost
      BY <2>2, <3>1, <1>0, <1>2, <1>51 DEF Claims, Answerable, Positions
    <3>2. CASE ClaimAccepted(p) /\ cron' = Claimed(p) /\ lost \subseteq lost'
               /\ (Goes(p, "claimed") \/ (Goes(p, "end") /\ Slot(p) \in lost'))
      <4>1. task[p].queued
        BY <2>2 DEF Claims, ClaimsAreBehind
      <4>2. cron.next = task[p].slot
        BY <3>2 DEF ClaimAccepted, Slot
      <4>3. \A s \in Slots : ~(cron.next <= s /\ s < task[p].slot)
        BY <1>0, <4>2 DEF Slots
      <4>4. PICK where \in {"claimed", "end"} :
               Goes(p, where) /\ (where = "claimed" \/ task[p].slot \in lost')
        BY <3>2 DEF Slot
      <4> QED BY <2>2, <3>2, <4>1, <4>3, <4>4, <1>4, <1>51 DEF Claims, Answerable
    <3> QED BY <2>2, <3>1, <3>2 DEF Claims
  <2>3. CASE ClaimReturns(p)
    <3>1. PICK where \in {"unclaim", "fire"} : Goes(p, where)
      BY <2>3 DEF ClaimReturns
    <3> QED BY <2>3, <3>1, <1>0, <1>2, <1>51 DEF ClaimReturns, Answerable, Positions
  <2>4. CASE Fires(p)
    <3>1. CASE ~cron.enabled
      BY <2>4, <3>1, <1>3, <1>51 DEF Fires
    <3>2. CASE cron.enabled
      <4>1. PICK where \in {"act", "requeue", "mark"} :
               Goes(p, where) /\ (where # "act" => task[p].slot \in committed)
        BY <2>4, <3>2 DEF Fires, Recorded, Slot
      <4>2. where # "act" => task[p].slot \in Done
        BY <2>4, <4>1 DEF Fires, CronTypeOK, PassedAreAnsweredFor
      <4> QED BY <2>4, <4>1, <4>2, <1>0, <1>2, <1>51 DEF Fires, Answerable, Positions
    <3> QED BY <3>1, <3>2
  <2>5. CASE Refuses(p)
    <3>1. cron'.next = cron.next
      BY <2>5 DEF Refuses, CronTypeOK
    <3> QED BY <2>5, <3>1, <1>3, <1>51 DEF Refuses
  <2>6. CASE Acts(p)
    BY <2>6, <1>5, <1>52 DEF Acts
  <2>7. CASE Defers(p)
    <3>1. PICK where \in {"putback", "end"} :
             Goes(p, where) /\ (where = "end" => ~task[p].queued)
      BY <2>7 DEF Defers
    <3>2. cron'.next = cron.next
      BY <2>7 DEF Defers, CronTypeOK
    <3> QED BY <2>7, <3>1, <3>2, <1>0, <1>2, <1>51 DEF Defers, Answerable, Positions
  <2>8. CASE FireFails(p)
    <3>1. CASE UNCHANGED acts
      BY <2>8, <3>1, <1>3, <1>51 DEF FireFails
    <3>2. CASE task[p].pc = "act" /\ Acted(p)
      BY <2>8, <3>2, <1>5, <1>52, GivesUpGoes DEF FireFails
    <3> QED BY <2>8, <3>1, <3>2 DEF FireFails
  <2>9. CASE Commits(p)
    <3>1. PICK where \in {"requeue", "mark"} : Goes(p, where)
      BY <2>9 DEF Commits
    <3>2. /\ task'[p].pc = where
          /\ \A q \in Procs : task'[q].slot = task[q].slot /\ task'[q].queued = task[q].queued
          /\ \A q \in Procs \ {p} : task'[q] = task[q]
      BY <2>9, <3>1, GoesOn DEF Commits, Positions
    <3>3. /\ task[p].pc = "commit" /\ committed' = committed \cup {task[p].slot}
          /\ UNCHANGED <<Done, lost, cron>>
      BY <2>9, <1>51 DEF Commits, Slot
    <3>4. committed' \subseteq Done'
      BY <3>3 DEF PassedAreAnsweredFor
    <3>5. \A q \in Procs : /\ task'[q].pc = "commit" => task'[q].slot \in Done'
                           /\ task'[q].pc = "mark" => task'[q].slot \in committed'
      BY <3>2, <3>3 DEF PassedAreAnsweredFor
    <3>6. \A q \in Procs : task[q].pc \in Answerable => task'[q] = task[q]
      BY <3>2, <3>3 DEF Answerable
    <3> QED BY <3>3, <3>4, <3>5, <3>6 DEF PassedAreAnsweredFor
  <2>10. CASE markFired(p)
    <3>1. task[p].slot \in Slots /\ task[p].slot \in Done
      BY <2>10 DEF markFired, CronTypeOK, PassedAreAnsweredFor
    <3>2. lost' = lost \cup (cron.next..(task[p].slot - 1))
      BY <2>10 DEF markFired, Slot
    <3>3. \A s \in Slots : cron.next <= s /\ s < task[p].slot => s \in lost'
      BY <1>0, <3>1, <3>2 DEF Slots
    <3> QED BY <2>10, <3>1, <3>2, <3>3, <1>4, <1>51 DEF markFired, Answerable
  <2>11. CASE Unclaims(p)
    <3>1. task[p].slot \in Slots /\ task[p].pc # "idle"
      BY <2>11 DEF Unclaims, CronTypeOK
    <3>2. PICK where \in {"requeue", "end"} : Goes(p, where)
      BY <2>11 DEF Unclaims
    <3>3. CASE HasClaim(p) /\ cron' = unclaimSlot(p)
      <4>1. cron'.next = task[p].slot
        BY <3>1, <3>3, unclaimType
      <4>2. task[p].slot < cron.next
        BY <3>3 DEF HasClaim, Slot, ClaimsAreBehind
      <4>3. lost \subseteq lost'
        BY <2>11 DEF Unclaims
      <4>4. /\ cron'.next \in Nat /\ cron'.next <= cron.next
            /\ task[p].slot >= cron'.next
        BY <1>0, <3>1, <4>1, <4>2 DEF Slots
      <4> QED BY <2>11, <3>1, <3>2, <4>3, <4>4, <1>2, <1>51 DEF Unclaims, Answerable, Positions
    <3>4. CASE ~(HasClaim(p) /\ cron' = unclaimSlot(p))
      <4>1. cron' = cron /\ task[p].slot \in lost' /\ lost \subseteq lost'
        BY <2>11, <3>1, <3>4, unclaimType DEF Unclaims, Slot
      <4> QED BY <2>11, <3>1, <3>2, <4>1, <1>0, <1>2, <1>51 DEF Unclaims, Answerable, Positions
    <3> QED BY <3>3, <3>4
  <2>12. CASE enqueueNext(p)
    BY <2>12, <1>0, <1>2, <1>51 DEF enqueueNext, Answerable, Positions
  <2>13. CASE Ends(p)
    <3>1. /\ task'[p].pc = "idle" /\ task[p].pc = "end"
          /\ \A q \in Procs \ {p} : task'[q] = task[q]
      BY <2>13, TaskOver DEF Ends
    <3> QED BY <2>13, <3>1, <1>51 DEF Ends, PassedAreAnsweredFor, Answerable
  <2>14. CASE Skips(p)
    <3>1. Done' = Done \cup {task[p].slot}
      BY <2>14 DEF Skips, Done, Slot
    <3> QED BY <2>14, <3>1, <1>5 DEF Skips, SkipsBusy
  <2> QED BY <1>6, <2>1, <2>2, <2>3, <2>4, <2>5, <2>6, <2>7, <2>8, <2>9, <2>10, <2>11,
             <2>12, <2>13, <2>14 DEF Proceeds
<1>7. ASSUME NEW p \in Procs, fireJob(p) PROVE PassedAreAnsweredFor'
  <2>1. CASE UNCHANGED task
    BY <1>1, <1>7, <2>1, <1>51 DEF fireJob
  <2>2. CASE ~UNCHANGED task
    <3>1. /\ task'[p].pc = "lock" /\ task[p].pc = "idle"
          /\ \A q \in Procs \ {p} : task'[q] = task[q]
      BY <1>7, <2>2, JobTaken, TaskStarts, IdleType DEF fireJob
    <3> QED BY <1>7, <3>1, <1>51 DEF fireJob, PassedAreAnsweredFor, Answerable
  <2> QED BY <2>1, <2>2
<1>8. ASSUME NEW p \in Procs, TickReads(p) PROVE PassedAreAnsweredFor'
  <2>1. /\ task'[p].pc = "lock" /\ task[p].pc = "idle"
        /\ \A q \in Procs \ {p} : task'[q] = task[q]
    BY <1>8, TickTaken, TaskStarts, IdleType DEF TickReads
  <2> QED BY <1>8, <2>1, <1>51 DEF TickReads, PassedAreAnsweredFor, Answerable
<1>9. ASSUME NEW p \in Procs,
             reconcile(p) \/ leaseGuard(p) \/ start(p) \/ LockLost(p) \/ LeaseLost(p)
      PROVE  PassedAreAnsweredFor'
  BY <1>1, <1>9, <1>51 DEF reconcile, leaseGuard, start, LockLost, LeaseLost
<1>10. ASSUME NEW p \in Procs, stopClaims(p) PROVE PassedAreAnsweredFor'
  BY <1>10, <1>51, TaskStale DEF stopClaims, PassedAreAnsweredFor
<1>11. ASSUME NEW p \in Procs, Crashes(p) PROVE PassedAreAnsweredFor'
  <2>1. /\ task'[p].pc = "idle" /\ \A q \in Procs \ {p} : task'[q] = task[q]
    BY <1>11, TaskOver DEF Crashes
  <2>2. /\ UNCHANGED <<cron, Done, committed>> /\ lost \subseteq lost'
        /\ task[p].queued /\ task[p].pc \in Answerable => task[p].slot \in lost'
    BY <1>11, <1>51 DEF Crashes, Answerable, Slot
  <2> QED BY <2>1, <2>2 DEF PassedAreAnsweredFor
<1>12. CASE DatePasses \/ BusyLimitPasses \/ runNow \/ runNowSettles \/ UNCHANGED vars
  BY <1>1, <1>12, <1>51 DEF DatePasses, BusyLimitPasses, runNow, runNowSettles, vars
<1>13. CASE DeferEnds \/ Disables \/ Enables
  <2>1. cron'.next = cron.next
    BY <1>13 DEF DeferEnds, Disables, Enables, CronTypeOK
  <2> QED BY <1>1, <1>13, <1>51, <2>1 DEF DeferEnds, Disables, Enables
<1> QED BY <1>6, <1>7, <1>8, <1>9, <1>10, <1>11, <1>12, <1>13 DEF Next

\* What was late stays late, and only a late task skips.
LEMMA LateStep ==
    ASSUME CronTypeOK, SkippedAreLate, [Next]_vars
    PROVE  SkippedAreLate'
<1> DEFINE TaskOK == \A q \in Procs : task'[q].overdue => task'[q].slot <= late
<1>1. ASSUME TaskOK, UNCHANGED <<late, skipped>> PROVE SkippedAreLate'
  BY <1>1 DEF SkippedAreLate
<1>2. UNCHANGED task => TaskOK
  BY DEF SkippedAreLate
<1>3. ASSUME NEW p \in Procs, task[p].pc # "idle", NEW where \in Positions \ {"idle"},
             Goes(p, where)
      PROVE  TaskOK
  <2>1. \A q \in Procs : task'[q].slot = task[q].slot /\ task'[q].overdue = task[q].overdue
    BY <1>3, GoesOn
  <2> QED BY <2>1 DEF SkippedAreLate
<1>4. ASSUME NEW p \in Procs, task' = [task EXCEPT ![p] = Idle] PROVE TaskOK
  <2>1. ~task'[p].overdue /\ \A q \in Procs \ {p} : task'[q] = task[q]
    BY <1>4, TaskOver
  <2> QED BY <2>1 DEF SkippedAreLate
<1>5. ASSUME NEW p \in Procs, NEW t \in Task, t.pc = "lock", t.slot \in Slots,
             t.overdue => t.slot <= late, task' = [task EXCEPT ![p] = t]
      PROVE  TaskOK
  <2>1. task'[p] = t /\ \A q \in Procs \ {p} : task'[q] = task[q]
    BY <1>5, TaskStarts
  <2> QED BY <1>5, <2>1 DEF SkippedAreLate
<1> HIDE DEF TaskOK
<1>6. ASSUME NEW p \in Procs, Skips(p) PROVE SkippedAreLate'
  <2>1. /\ task[p].overdue /\ task[p].slot \in Slots /\ task[p].pc = "act"
        /\ skipped' = skipped \cup {task[p].slot} /\ late' = late
    BY <1>6 DEF Skips, SkipsBusy, Slot, CronTypeOK
  <2>2. TaskOK
    BY <1>3, <1>6, <2>1 DEF Skips, Positions
  <2> QED BY <2>1, <2>2 DEF SkippedAreLate, TaskOK
<1>7. ASSUME NEW p \in Procs, Proceeds(p), ~Skips(p) PROVE SkippedAreLate'
  <2>1. UNCHANGED <<late, skipped>>
    BY <1>7 DEF Proceeds, Locks, Claims, ClaimReturns, Fires, Refuses, Acts, Defers, FireFails,
                Commits, markFired, Unclaims, enqueueNext, Ends
  <2>2. CASE Ends(p)
    BY <2>1, <2>2, <1>1, <1>4 DEF Ends
  <2>3. CASE ~Ends(p)
    <3>1. task[p].pc # "idle"
      BY <1>7, <2>3 DEF Proceeds, Locks, Claims, ClaimReturns, Fires, Refuses, Acts, Defers,
                        FireFails, Commits, markFired, Unclaims, enqueueNext
    <3>2. \E where \in Positions \ {"idle"} : Goes(p, where)
      BY <1>7, <2>3 DEF Proceeds, Locks, Claims, ClaimReturns, Fires, Refuses, Acts, Defers,
                        FireFails, Commits, markFired, Unclaims, enqueueNext, GivesUp, Positions
    <3> QED BY <2>1, <3>1, <3>2, <1>1, <1>3
  <2> QED BY <2>2, <2>3
<1>8. ASSUME NEW p \in Procs, fireJob(p) PROVE SkippedAreLate'
  <2>1. TaskOK
    BY <1>8, <1>2, <1>5, JobTaken
  <2> QED BY <1>1, <1>8, <2>1 DEF fireJob
<1>9. ASSUME NEW p \in Procs, TickReads(p) PROVE SkippedAreLate'
  <2>1. TaskOK
    BY <1>9, <1>5, TickTaken
  <2> QED BY <1>1, <1>9, <2>1 DEF TickReads
<1>10. ASSUME NEW p \in Procs,
              reconcile(p) \/ leaseGuard(p) \/ start(p) \/ LockLost(p) \/ LeaseLost(p)
       PROVE  SkippedAreLate'
  BY <1>1, <1>2, <1>10 DEF reconcile, leaseGuard, start, LockLost, LeaseLost
<1>11. ASSUME NEW p \in Procs, stopClaims(p) PROVE SkippedAreLate'
  <2>1. TaskOK
    BY <1>11, TaskStale DEF TaskOK, SkippedAreLate
  <2> QED BY <1>1, <1>11, <2>1 DEF stopClaims
<1>12. ASSUME NEW p \in Procs, Crashes(p) PROVE SkippedAreLate'
  BY <1>1, <1>4, <1>12 DEF Crashes
<1>13. CASE DatePasses \/ DeferEnds \/ Disables \/ Enables \/ runNow \/ runNowSettles
  BY <1>1, <1>2, <1>13 DEF DatePasses, DeferEnds, Disables, Enables, runNow, runNowSettles
<1>14. CASE UNCHANGED vars
  BY <1>1, <1>2, <1>14 DEF vars
<1>15. CASE BusyLimitPasses
  <2>1. late' = late + 1 /\ UNCHANGED <<skipped, task>>
    BY <1>15 DEF BusyLimitPasses
  <2>2. \A s \in Slots : s <= late => s <= late'
    BY <2>1 DEF SkippedAreLate, Slots
  <2>3. \A p \in Procs : task[p].slot \in 0..SlotBound
    BY DEF CronTypeOK, Task
  <2>4. \A p \in Procs : task[p].slot <= late => task[p].slot <= late'
    BY <2>1, <2>3 DEF SkippedAreLate
  <2> QED BY <2>1, <2>2, <2>4 DEF SkippedAreLate
<1> QED BY <1>6, <1>7, <1>8, <1>9, <1>10, <1>11, <1>12, <1>13, <1>14, <1>15 DEF Next

\* A slot the cron has passed was acted on, was used up by a busy session ten minutes
\* after its date, is being worked on by the queue's task that claimed it, or is counted
\* as lost (claimSlot(), unclaimSlot(), markFired(), deferWhenBusy).
THEOREM SlotNotLostHolds == Spec => []SlotNotLost
<1>1. Init => PassInv
  <2>1. Init => ClaimsAreBehind
    BY IdleType DEF Init, ClaimsAreBehind, NoClaim
  <2>2. Init => PassedAreAnsweredFor
    BY IdleType DEF Init, PassedAreAnsweredFor, Slots
  <2>3. Init => SkippedAreLate
    BY IdleType DEF Init, SkippedAreLate
  <2> QED BY <2>1, <2>2, <2>3, CronTypeInit DEF PassInv
<1>2. PassInv /\ [Next]_vars => PassInv'
  BY CronTypeStep, BehindStep, PassedStep, LateStep DEF PassInv
<1>3. PassInv => SlotNotLost
  <2> SUFFICES ASSUME PassInv, NEW s \in Slots, s < cron.next, acts[s] = 0, s \notin lost,
                      ~GivenUp(s)
               PROVE  \E p \in Procs : task[p].slot = s /\ task[p].queued
    BY DEF SlotNotLost
  <2>1. s \notin Done
    BY DEF PassInv, SkippedAreLate, GivenUp, Done
  <2> QED BY <2>1 DEF PassInv, PassedAreAnsweredFor
<1> QED BY <1>1, <1>2, <1>3, PTL DEF Spec
=============================================================================
