# TLA+ models of the agent core

This directory specifies the part of the repository that decides *who may do
what, and when*: the durable queue of runs with its workers and reapers, the
claim loop of a worker, the handover of background work from one deployment to
another, the signals to a run, the dates of a cron, and a Slack message on its
way in and out. TLC checks small instances; TLAPS proves every safety property
for instances of any size.

    tlc -config RunQueueZombies.cfg MCRunQueue      # any run, see PROJECT.json
    for m in *Proofs.tla; do tlapm "$m"; done       # all proofs

`PROJECT.json` lists the components, the runs, the source lines every
definition translates, the hazards and the findings.

## 1. The system

A user's message becomes a *run*, a row of a Postgres table. A *worker* in one
of several processes claims the run under a lease, drives a *turn* (a session
of the model with tools), and settles the run. Workers crash, stall and lose
their database; a *reaper* in every process takes runs back whose leases
lapsed. Turns of one conversation write to one *tape*, protected by a second
lease. During a deployment two builds run side by side, and a controller in
every process makes sure that one deployment owns background work.

Messages come from Slack, which delivers an envelope until it is acknowledged;
they become runs, or *signals* that steer a run already at work. Crons make
runs at their dates. Answers leave through an *outbox* whose rows a leader
among the processes posts to Slack, while the handler of a turn posts its own
reply.

| Component | State | Operations | Correct if |
| --- | --- | --- | --- |
| Run store (`src/runs/postgres-run-store.ts`) | rows: status, lease, attempts, errors, key, text, result | enqueue, claim, heartbeat, releaseLease, complete, fail, reapExpired, withdraw, steerQueued, editPendingText, noteTurnUserSeq | a run is settled once, by the holder of its last lease; one run per conversation at a time, in order; retries end |
| Worker (`src/runs/worker.ts`, processRun) | the claimed row, lost heartbeats, shutdown signal | claim, heartbeat, turn, complete, fail, hand back | no late worker decides a run; the turn knows whether it is the last attempt |
| Claim loop (`src/runs/worker.ts`, createWorker; `src/wiring.ts`; `src/runs/drain.ts`) | stopped, claimDone, generation, inFlight | loop, notify, stopClaims, start, releaseInFlight | a stop is complete when it says so; no announcement is missed; claiming resumes |
| Reaper (`src/runs/reaper.ts`) | the rows of the sweep | select, fence, release the session, retire | a dead worker's run is retried or parked, its session freed first |
| Session lease and tape (`src/sessions/postgres-session-store.ts`) | lease row, tape | acquireLease, append, releaseLease, forceReleaseLease | entries of two holders are never interleaved |
| Turn (`src/core/orchestrator.ts`), compaction | the session lease | acquire or refuse, append, note, release | as above |
| Ownership record (`src/runs/background-ownership.ts`) | generation, desired deployment, members | register, admit, markReady, acknowledge, transition, retire | one deployment is admitted; a request is applied once |
| Background controller (`src/runs/background-controller.ts`, `src/index.ts`) | admission, epoch, activation, pending reconcile | reconcile, release, refreshStartup, watchdog, stop | what a process does agrees with what the record says |
| Run signals (`src/runs/run-signal-store.ts`, the harness's `onSteer`, `src/api/app-helpers.ts`) | rows of run_signals; a poller and a wait per turn | send, drain, acknowledge, wait, replay what is left | a steering message is read or becomes a run, once; a stop ends the run; a result reaches its wait |
| Cron (`src/cron/scheduler.ts`, `src/cron/cron-store.ts`) | the cron's row, jobs, the lock and the lease, a task per process | fireJob, tick, reconcile, claimSlot, unclaimSlot, markFired, defer, runNow, stop, start | a date is acted on, once |
| Idempotency (`src/idempotency/idempotency-store.ts`) | committed keys | once | as above, across processes |
| Delivery outbox (`src/delivery/postgres-delivery-store.ts`) | rows: claim, date, delivered, expired | enqueue, expireOveraged, claimPending, ack, ackByKey | delivered means posted, and stays; what waits is delivered or expires |
| Leader lease (`src/persistence/leader-lease.ts`) | an advisory lock of a connection | hold, lose, leave | one leader, but for a lost connection |
| Slack output (`src/slack/deliveries.ts`, `delivery.ts`, `turn-handler.ts`) | claims, tracker of failures, pins of runs | drain, verify, post, ack, give up | a message is posted once |
| Slack intake (`src/slack/deferred-ack.ts`, `envelope-staging.ts`, `turn-handler.ts`) | the gate of an envelope, the staged row, the deduper | ack, cap, stage, dispatch, submit, clear, sweep | an acknowledged message is work or will be, once |

Interaction: a worker calls the run store and, through the turn, the session
store; the reaper calls both; the store announces new runs to the claim loops
by a Postgres notification; the background controller starts and stops claim
loops through `wiring.ts` and answers `canClaim()`, in legacy mode the drain
controller does; the operator changes the ownership record over HTTP. A
signal is inserted by the API and announced to the turn's poller; the end of a
run, its sender and a sweeper replay what the turn left. The cron's scheduler
and the turn enqueue deliveries; relays drain them under the leader lease. The
Slack intake submits under a redelivery key that runs and signals share.

The rest of the repository (surfaces, harness, sandboxes, credentials, access
decisions, content stores, hosting) either calls outside services or keeps rows
without a protocol between processes. `PROJECT.json` lists every part with its
reason.

What is hard: every process is single-threaded JavaScript, so interleavings
happen at `await`s and between processes at SQL statements; a statement may
commit while its caller sees an error; a lease may lapse while its holder works
on; several decisions are made on a row read earlier; start, stop and restart
overlap. The list with lines is under `hazards`.

## 2. Modules

| Module | What it is |
| --- | --- |
| `RunStore` | The table of runs. One operator per SQL statement, one variable per column (or group of columns). No processes. |
| `SessionLease` | The session lease row and the tape. |
| `RunLifecycle` | Abstract specification: a run is queued, runs in its conversation's turn, may yield, and settles once. |
| `RunQueue` | Composes the two stores with workers, reapers, users, compaction, the clock and faults. States the properties of the queue. |
| `MCRunQueue` | Instances of `RunQueue` for TLC. |
| `WorkerLoop` | The claim loop of one worker and the code that starts and stops it. |
| `OwnershipStore` | The record of background ownership, one operator per transaction. |
| `Handover` | Composes the record with a controller per process, the operator and faults. |
| `MCHandover` | Instances of `Handover` for TLC. |
| `RunSignals` | The signals to one run: table, poller, the turn's intake, `waitForClientResult`, the replay of orphans. Attempts of the run follow each other and may crash. |
| `CronFires` | The dates of one calendar cron: its row, the job queue, two kinds of schedulers, `once()`, the lifecycle lock and the tick lease. |
| `MCCronFires` | `CronFires` for TLC, with symmetry. |
| `SlackDelivery` | One message of the outbox: its row, the relays under the leader lease, the handler of the turn it answers, and Slack. |
| `SlackIntake` | One message from Slack: its deliveries, the gate and its cap, the staged row and its sweepers, the handler and the redelivery key. |
| `RunQueueProofs` | Theorems about the table of `RunQueue`, and its refinement of `RunLifecycle`. |
| `RunFramesProofs` | Theorems about its workers, reapers, sessions and notifications. |
| `WorkerLoopProofs`, `HandoverProofs`, `RunSignalsProofs`, `SlackDeliveryProofs`, `CronFiresProofs`, `SlackIntakeProofs` | Theorems about the module each is named after. |

`RunSignals`, `CronFires`, `SlackDelivery` and `SlackIntake` are about one run,
one cron and one message: the code keeps each apart by its key, so that what
goes wrong goes wrong with one. They are their own instances for TLC, but for
`MCCronFires`, which adds the symmetry of the processes to the run of the
cron's safety properties.

### Correspondence with the code

*Steps.* A step runs from one `await` to the next. A store operation is the
statement (or transaction) it sends, so it is atomic; what surrounds it is not:
`fail()` is `FailReads` then `FailRetires`, `reapExpired()` is `ReaperSelects`,
then per row `ReaperFences`, `ReaperReleases`, `ReaperRetires`,
`ReaperSettles`. A worker's locals are the record `worker[w]`; its `pc` is the
`await` it is at. In `Handover`, a store call commits in the step that leaves
its `pc`, and what it acts on (`seen`) was read earlier.

*Time.* Clocks appear as what the code compares with them: `lapsed` (a lease's
expiry is past), `cooling` (retry_after is in the future), `fenced` (the
validity of an admission is over). `LapseAbandoned` lets the lease of a run
lapse that nobody heartbeats; `LapseStalled`, a fault, lets it lapse under a
live worker. Clocks of different machines are taken to agree where the code
compares them: the queue orders a conversation by `created_at`, which every
process takes from its own clock before the INSERT
(`postgres-run-store.ts:258,297`), and the model by insertion; a relay compares
the enqueuer's date of a row with its own clock (`deliveries.ts:74`), and
claims lapse by the database's, so that a row is young for as long as its
first claim lasts only while these agree.

*Tokens.* A lease token is a random UUID in the code and the next number of a
per-row counter in the model, which keeps the only fact that matters: no two
are equal. Request ids of the operator are numbers for the same reason.

*Data.* Request bodies, results and texts are reduced to what a property tells
apart: a result is an answer, a `session_busy` refusal or an error; a text is
a version number; a tape entry is the lease and the run that wrote it.

*Faults.* Crash at any point, shutdown with hand-back, a stalled worker, a
statement that fails with or without having committed (`CompletionErrs`,
`FailErrs`, `AdmitLost`, `ReleaseErrs`), a sweep that throws (`ReaperFails`), a
lost `drained` report, a turn whose cleanup fails (`TurnCleanupFails`), operator
requests delivered again and late. Each is bounded by a constant named in the
module (`FaultBound`, `RequestBound`, ...).

*Keys and ages.* In `SlackDelivery` and `SlackIntake` a date is an age: a row is
young while a claim of its first moment would last, old after, overaged or dead
when the code drops it. A lapse of a claim is a step. A cron's dates are
numbered in their order, and `now` is the last one that has passed.

*Outside.* Slack is what the code relies on: a request may land after its
sender gave it up (`stray`), an envelope comes again until it is acknowledged.
pg-boss hands a job out once. A broken connection frees its advisory lock while
the work under it goes on (`ConnectionDies`, `LockLost`, `LeaseLost`).

*History variables.* `minted` and the `by` of `outcome`, `settles`, `cover`
(RunQueue), `applied` (Handover), `taped`, `replayed`, `unseen`, `missed`,
`dropped`, `refused`, `left` (RunSignals; `taped` is the tape too, from which a
new attempt reads its history), `acts`, `lost`, `skipped`, `unrecorded`
(CronFires), `overlap`, `late` (SlackDelivery) and `ends`, `overlapped`,
`dropped` (SlackIntake) are read by properties and by nothing else in a guard,
except that `minted` supplies fresh tokens and that Slack does not deliver again
what the daily sweep dropped.

*Broken variants.* A definition whose comment begins "Broken variant" is a
plausible bug, put before the definition it would replace; `mutants` in
`PROJECT.json` says which property notices it.

## 3. Runs

All runs finish in minutes. `CHECK_DEADLOCK FALSE` is set everywhere because
bounded work comes to an end: every run settled, every request spent.

| Run | Instance | Properties |
| --- | --- | --- |
| `RunQueueZombies` | 1 run, 2 workers, 2 reapers, 2 errors, 3 claims, 2 faults | `LeasedIffRunning`, `SettledByLastLease`, `SettledIsFinal`: a late `complete`, `fail` or sweep decides nothing. `NotifiedAtMostOnce`: listeners hear once. `FinalAttemptForetold`: what the turn was told about its last attempt is what the retry arithmetic does |
| `RunQueueConversation` | 2 runs of a conversation, 2 workers, 1 reaper, 1 fault | `OneRunningPerSession`, `SessionFreedBeforeRetry`, that `RunQueue` implements `RunLifecycle`, and `EventuallySettled` |
| `RunQueueTape` | 2 submissions of one key, 2 workers, 2 appends a turn, 1 compaction, 1 edit, 1 fault | `TapeUnmixed`, `AnsweredOncePerKey`, `AcknowledgedEditIsRun` |
| `WorkerLoopSafety` | 2 runs available, 2 changes of `canClaim()`, 5 starts and stops, 3 failing claims | `NothingHeldAfterRelease`, `NoMissedAnnouncement`, `StoppedStaysStopped`, `RestartResumes` |
| `WorkerLoopDrain` | 2 changes of `canClaim()` | `ClaimingResumes` is **violated** |
| `Handover` | 2 processes of 2 deployments with work in flight, 2 requests, 1 fault (a crash, a failing call, a lost answer or report, a stop, a retirement) | `SingleOwner`, `RelinquishedClaimsNothing`, `TransitionAppliedOnce`, `HandoverCompletes`, `EventuallyDrained` |
| `HandoverDrained` | 1 process, 2 faults, work in flight | `DrainedMeansFinished` is **violated** |
| `RunSignals` | 2 signals of any kind, 1 crash, 1 failing statement, a conversation's run or a subagent's, a harness that drains when it stops or not | `ConsumedMeansHeard`, `HeardOnce`: a steering message is read or becomes a run, once. `NoSignalStranded`: no call of `drain` is lost. `ResultReachesTheWait`. `StopEndsTheRun`: also when the attempt that heard it dies. `NothingLeftBehind`: a signal that was sent as the run ended |
| `SlackDelivery` | 2 relays, one of which may be handling the turn, 2 enqueues, 1 lost lease, 2 faults | `PostedOnce`: when a message may appear twice. `OverlapIsLate`: whom the claim and the grace keep apart. `AcknowledgedIsFinal`, `EventuallyDelivered` |
| `CronFires` | 2 processes, each on the queue or on ticks, 2 dates, 1 fault, 1 event (a stop, a disabling, a manual fire), a session busy at any time | `SlotActsOnce`, `SlotNotLost` |
| `CronFiresLiveness` | the same with 1 date | `EventuallyFires` |
| `SlackIntake` | 2 instances, 1 delivery and 2 replays of a message that is a bare stop or not, 2 handlers at a time, 2 faults | `AckedIsKept`: what Slack will not bring again is work or in the table. `OneHandlerPerInstance`, `TakenOnce`, `EventuallyTaken` |

The exceptions a property makes are part of what it says. Each is something the
code does, and the model does it too:

* `SessionFreedBeforeRetry`: a turn whose cleanup fails leaves its session lease
  behind. The `finally` of `handleTurn` awaits `reclaimBox()` and
  `releaseLease()` without a catch (`src/core/orchestrator.ts:4433-4436`), so the
  run goes back to the queue while its session is held, and its retry may be
  refused as busy until the lease lapses.
* `HandoverCompletes`, `EventuallyDrained`: a member is *stranded* when the
  record counts it as admitted and nobody will let go for it: it is dead, it was
  stopped and could not say so, or the answer of its `admit()` was lost and the
  generation moved on. In the last case it lives, its `admission` is null
  (`src/runs/background-controller.ts:111-115`), so it never relinquishes, and
  `src/runs/background-ownership.ts:143` refuses every admission, its own too,
  until it is ended and retired. `EventuallyDrained` also excepts a process
  whose `drained` report was lost: nothing sends one again.
* `ConsumedMeansHeard`: a steering message without text (attachments only) that
  a subagent's run did not read is acknowledged without a run
  (`src/api/app-helpers.ts:613`); in any other conversation `takePending()`
  consumes before it enqueues, and a failure in between drops the message.
* `NothingLeftBehind`: a subagent's replay that gets neither a run nor a refusal
  leaves its row (`src/api/app-helpers.ts:645`). That is meant for a thread that
  awaits an approval (`test/session-human-replay.test.ts:105-130`). It also
  happens when the first replay's run was made, its acknowledgement was lost and
  the run ended meanwhile: the key then finds the ended run, whose result is
  returned without a run id (`src/api/app-turn.ts:645`), and the row stays for
  good. No message is repeated by it (`HeardOnce`).
* `PostedOnce` lets a message appear twice when two posts were under way at a
  time (`overlap`), when a request lands after its sender gave it up, when a row
  that had expired is opened anew after it was posted, whose new date hides the
  old post from the search (`src/slack/delivery.ts:437-471`), or, one after the
  other, when the turn's handler takes up the result so late that a relay has
  posted it after the grace (`late`; the handler does not search,
  `src/slack/turn-handler.ts:748-757`). `OverlapIsLate` says how late.
* `SlotNotLost` lets a date be lost when its claimant crashed, or could not read
  the answer to `claimSlot`, or could not give the claim back: the code claims
  before it acts, and nothing looks for a claim without an act. A second way was
  met while modelling: a process on ticks reads `due()` before it waits for the
  cron's lock and does not read again under it (`src/cron/scheduler.ts:385-393`).
  If the claim of an earlier date is given back in between, the tick acts on the
  later date and marks past the earlier one. It takes a process on ticks beside
  one whose queue works, so a lost tick lease; `markFired` records it as lost.
  And a date whose session is still busy ten minutes late is given up
  (`src/cron/scheduler.ts:34,291`, `test/cron-scheduler.test.ts:1537`), so
  `EventuallyFires` says that it is acted on or given up.
* `SlotActsOnce` lets a date be acted on twice when its act was cut off before
  `once()` recorded it, or the lock was lost under it. The run and the delivery
  made by the act carry the date's key, so a second act finds them.
* `AckedIsKept`, `EventuallyTaken`: a bare stop that fails counts as intercepted
  (`src/slack/turn-handler.ts:382-392`), and in a channel a note about a failure
  that cannot be posted is swallowed (`src/slack/turn-handler.ts:271-278`). Both
  end the message with nobody told (`Swallowed`).
* `TakenOnce`: a bare stop leaves no redelivery key (`src/api/app-turn.ts:88-99`
  and `535`), so one delivered again after the run it stopped has ended becomes
  a run. For every other message the only exception is two submissions at one
  time.

### Why the bounds are enough

A property of a single run needs one row, the worker that lost it, the worker
that took it over, and a sweep that overlaps another; three claims let a zombie
of the first claim meet the third. Order in a conversation is a matter of pairs
of runs. Two faults let a stall be followed by a crash or a lost reply. Two
appends a turn let another writer come in between. The
handover is a matter of two deployments; two requests are the bootstrap and a
transition after it, or a retirement. (That a request is repeated after another
took the place of its id needs three: the larger instance below, and the
theorem.) A stop and a message are the pair of signals that meet; a crash after one of
them is the second attempt. Two relays, two schedulers, two instances are the
one that lost its lock and the one that took over, and two dates of a cron the
one given back and the one after; that a date is acted on in the end needs one.
A replay of a staged message is a delivery like Slack's own, so that one
delivery and two replays are three. The largest run is `CronFires` with 7.8
million states; `SlackDelivery` has 1.4 million, `RunSignals` 1.3, `Handover`
0.9. The safety properties alone were also checked on larger instances: the
handover with two faults (3.7 million states) and with three requests (0.8
million), the intake with two deliveries (2.9 million). Each mutant of
`PROJECT.json` is caught inside the bounds of its run, so the cases do arise.
The proofs of section 5 do not depend on the bounds.

### Fairness

`RunQueue`: workers that can claim do so (the loop polls), a worker's turn ends
(the turn has a wall clock and a stall watchdog) and its statements return, a
process that is down comes back, reapers sweep (an interval timer), leases
nobody heartbeats lapse and back-offs end (time passes). Crashes, stalls and
failing statements are not fair, and are bounded. Two claims of different runs
are not separately fair.

`WorkerLoop`: timers fire, statements and turns end, promises resolve, and
`startBackground` is called at boot. Nothing is assumed of the drain
controller, of other workers or of a stop.

`Handover`: the poller reconciles, work in flight ends, the `drained` promise
resolves and its report is sent. Nothing is assumed of the operator.
`HandoverCompletes` speaks of a process that stays desired and of a record
without stranded members. Lost answers and lost reports happen in the run.
Only in `HandoverDrained` may the operator give
`expectedLastRequestId`; that field only adds refusals of requests.

`RunSignals`: statements answer, the poller's timer fires, a queued run is
claimed, a turn that was interrupted winds down and the sweeper comes round.
Nothing makes a turn end that nobody stops.

`SlackDelivery`: every relay polls, calls end, claims lapse and give-up windows
close. `CronFires`: the queue and the interval timer of a started scheduler run,
its awaits settle, deferrals and manual fires end, a busy limit that has begun
to run passes (time), nothing is assumed of the session, and a scheduler that was
stopped to hand over is started again (by the background controller; a crashed
process by its supervisor). `SlackIntake`: handlers and statements end, rows get
stale, claims lapse and sweepers come round; Slack need not deliver. It is
assumed there that a day outlasts all handlers and all replays of a row
(five replays of five minutes in the code).

## 4. Findings

1. **A claim that returns while claiming is paused ends the claim loop**
   (`src/runs/worker.ts:206-213`, run `WorkerLoopDrain`). The drain controller
   pauses claiming while a newer build is alive. If its beat falls while
   `claim()` is awaited and the claim returns a run, the loop hands it back and
   leaves by `break`, although it was not stopped. When the newer build
   disappears `canClaim()` is true again and nothing restarts the loop:
   `startBackground` returns early because background work is on. The test in
   `test/deploy-drain.test.ts` changes the flag only while a turn is in flight.
2. **A late `drained` report** (`src/runs/background-controller.ts:49-50`, run
   `HandoverDrained`). The report is checked and then sent, and nothing waits
   for it. If it commits after the process was admitted again in the same
   generation and relinquished again, the member is marked `drained` while work
   of the second admission runs, against `docs/background-ownership.md:49`.

## 5. Proofs

Every invariant and every action property that a run checks is also a theorem,
for every value of the constants: any runs, sessions, workers, reapers,
processes, deployments, relays, dates and signals, and any bounds. So is the
refinement of `RunLifecycle`. The theorems assume what the modules assume of
their constants and nothing else: `StoreAssumption` (every run has a session
and a key, the budgets are positive), `QueueAssumption` (`NoRun` is not a run),
`SignalAssumption` (the bounds are numbers), `DeliveryAssumption` (turns are
handled by processes that also relay; no process is called "handler" or
"none"), and likewise in `Handover`, `CronFires` and `SlackIntake`. TLC
evaluates them on every run.

A proof module follows its model: what the operators do to the types, one lemma
per part of the inductive invariant with one step per action, and short
theorems at the end.

| Module | Theorems for the runs' properties | Rests on |
| --- | --- | --- |
| `RunQueueProofs` | `LeasedIffRunningHolds`, `OneRunningPerSessionHolds`, `SettledByLastLeaseHolds`, `SettledIsFinalHolds`, `Refinement` | `SafetyInvariant` |
| `RunFramesProofs` | `TypeCorrect`, `AnsweredOncePerKeyHolds`, `TapeUnmixedHolds`, `AcknowledgedEditIsRunHolds`, `FinalAttemptForetoldHolds`, `NotifiedAtMostOnceHolds`, `SessionFreedBeforeRetryHolds` | `BaseInvariant`, `FrameInvariant` and the invariants `KeyInv`, `TapeInv`, `SettleInv`, `CoverInv` |
| `WorkerLoopProofs` | `ReleaseLeavesNothing`, `AnnouncementsAreHeard`, `StopHolds` | `LoopInvariant` |
| `HandoverProofs` | `SingleOwnerHolds`, `RelinquishedClaimsNothingHolds`, `TransitionAppliedOnceHolds` | `OwnerInvariant` |
| `RunSignalsProofs` | `ConsumedMeansHeardHolds`, `HeardOnceHolds`, `NoSignalStrandedHolds`, `ResultReachesTheWaitHolds` | `SignalInvariant` |
| `SlackDeliveryProofs` | `OverlapIsLateHolds`, `AcknowledgedIsFinalHolds`, `PostedOnceHolds` | `ClaimInvariant` |
| `CronFiresProofs` | `SlotActsOnceHolds`, `SlotNotLostHolds` | `ActInv`, `PassInv` |
| `SlackIntakeProofs` | `OneHandlerPerInstanceHolds`, `TakenOnceHolds`, `AckedIsKeptHolds` | `IntakeInvariant` |

### The arguments

**The queue's table** (`RunQueueProofs`). A worker or reaper reaches the table only
through one statement of `RunStore` per step; `NextIsStoreStep` shows that every
step of the system is such a statement on a run, or leaves the table alone. For
that, the call frames must name runs when they are not idle (`FramesNameRuns`),
which is itself inductive. `SafetyInv` is the conjunction of `FramesNameRuns`,
`StoreTypeOK`, `LeasedIffRunning`, `SettledByLastLease` and
`OneRunningPerSession`, preserved statement by statement. The conjuncts need
each other: `complete()` compares the token and not the status, so that it
settles nothing but a running run follows from `LeasedIffRunning`; that the
token it compared is the last one minted makes `SettledByLastLease` inductive.
The refinement maps `pending` to queued, `done` and `failed` to settled; each
statement is a step of `RunLifecycle` or a stutter.

**What workers and reapers know** (`RunFramesProofs`, on top of it). The
table's invariant says nothing of a worker that wakes up late. `FrameInv` does:
a frame's token was minted for its row, its text is the row's, and while the
token is good so are the counters it remembers; and no two frames, of workers or
reapers, have the same token of a run. From this follow `AcknowledgedEditIsRun`
and `FinalAttemptForetold`. `SettleInv` adds that the frame about to notify is
the only one for its run and nobody was notified before. `CoverInv` is about a
session held by a turn: its run is running, and whoever holds the run's lease is
that turn or the reaper about to release the session; this makes
`SessionFreedBeforeRetry` inductive. A turn that fails to clean up stops covering
its session, which is the exception of the property. `KeyInv` and `TapeInv` are facts about the
two stores alone: a row gives its key up only with a busy refusal, and a
session's lease is the last one minted, with no entry under a later one.

**The claim loop** (`WorkerLoopProofs`). `Coupled` ties the loop's position to the
outstanding claim and to the promise that `stopClaims` waits for;
`ReleaseInOrder` says that `releaseInFlight` comes after the process stopped the
worker for good; `NewsOnItsWay` that a claim which found the queue empty has
heard, or is about to hear, of every run that came since.

**The handover** (`HandoverProofs`). `SingleOwner` follows from two facts that
different parties keep. The record never has two admitted members of different
generations (`OneAdmittedGeneration`, kept by `admit()`), and a process that may
claim is admitted in the record in the generation it believes in
(`ClaimsAreRecorded`, kept by `release()`, which fences before it tells the
record). That a retirement names only the dead (`RetirementsNameTheDead`) keeps
the second when the operator removes a member. `TransitionAppliedOnce` needs that
an applied request is spent (`RequestsAreSpent`): its expected generation is
behind the record's.

**Signals** (`RunSignalsProofs`). The invariant follows a message through its three
homes. While a turn runs, what the tape holds is in the attempt's history or
was declined by its poller (`ReadOnce`), so no drain offers it again. After the
run a message is in the table or taken, and replayed from one of them only
(`ReplayedOnce`). Between the two, only a reading whose acknowledgement is missing
is still in the table (`Accounted`), and of what a subagent's run left only
messages without text were passed over (`PassedOver`). `OneAfterTheOther` separates the two phases:
an ended run stays so, and nothing is taken before it. `WaitHears`
strengthens `ResultReachesTheWait` with the wait that found nothing but has not
gone to sleep yet, whose notification came or is to come.

**Deliveries** (`SlackDeliveryProofs`). `OneLiveClaim` keeps two relays apart:
`claimPending()` takes an unclaimed row only, and a row is expired and reopened
only when unclaimed. `GraceOfTheReply` keeps a relay and the handler apart: the
reply of a run is enqueued once, and a relay skips it while it is young.
For `PostedOnce`, a search finds whatever was posted unless two posts
overlapped (`SearchFinds`); the one post without a search is that of a young row
that is no run's reply, and `OneClaimInTheGrace` shows that such a row is
claimed once, since a claim lasts as long as the row is young. The handler posts
without a search too; if a relay has posted before it, that is `late`, and the
row is past its grace (`LateReply`).

**Cron dates** (`CronFiresProofs`). `ActsAreKnown`: an act whose record is missing
belongs to the task that has the lock, or is counted as unrecorded.
`PassedAreAnsweredFor`: a date the cron has passed was acted on or skipped, is
counted as lost, or has a task that answers for it; `SkippedAreLate`: only a
date that is ten minutes late is skipped; `ClaimsAreBehind` is needed because
`unclaimSlot()` restores an older claim, which must be of an earlier date.

**Intake** (`SlackIntakeProofs`). The deduper gives one handler per instance
(`OnePerInstance`). Across instances nothing does, so `TakenOnce` needs that a
handler which routed without a rival still has none (`NoRival`), which is of no
use for a stop, since that leaves nothing to be found. `AckedIsKept`
needs what each place of a handler owes (`OwesNothing`): it returns without a
failure only when the message is work, declined, answered with a note or
swallowed, and clears the row only then.

### Only model-checked

The liveness properties (`EventuallySettled`, `RestartResumes`,
`HandoverCompletes`, `EventuallyDrained`, `StopEndsTheRun`, `NothingLeftBehind`,
`EventuallyDelivered`, `EventuallyFires`, `EventuallyTaken`): fairness and ENABLED
are beyond the prover. The two findings are violations that TLC shows.

## 6. Not modelled

In the parts that are: the delivery state of a result and the return outbox of
child runs; retries of a single statement inside the Postgres pool; loss of the
notification connection (the poll covers for it, and `NoMissedAnnouncement`
speaks of notifications that arrive); renewal of the session lease as separate
steps (`SessionLapses` lets a session lease lapse instead); the start-up refresh
of the controller renewing an admission, which changes no modelled state.
The in-memory stores, used without a database, follow the Postgres ones.
`TapeUnmixed` is about entries appended under a lease; `clearSecurityTaint` of
the session store writes without one and is outside the model. When the release
of a claim that is still being answered fails at shutdown, its row stays leased
until it lapses: `NothingHeldAfterRelease` is about what the process holds, not
about the row.

`RunSignals`: attempts of one run that overlap (`RunQueue` and `SessionLease`
are about those); the refusal of a replayed turn counts as its answer. That a
replay is answered with neither is possible at any time: approvals are not
modelled.
`CronFires`: interval and one-shot schedules, whose next date depends on the
time of the fire; the fire log; loops; the cap on fires of one tick; of the
tasks a process may have at a time, one (the other process stands for the
others). `SlackDelivery`: edits in place, reactions, pins and deletes,
attachments, replies split over several posts, deliveries to principals, rows
acknowledged because the account belongs to another workspace, handlers that do
not defer the acknowledgement. `SlackIntake`: a process without staging (it
acknowledges at the cap), messages that ask for nothing, the live run of the
thread as more than a choice, and the three lookups of a submission as separate
steps: only submissions that overlap could tell them apart, which `TakenOnce`
excludes by name. The deduper of an instance never forgets a message that was
handled; the code's is an LRU of 1000 entries (`slack/index.ts:224`), whose
evictions are left out.

Other parts: see the list in `PROJECT.json`. Most of the repository's lines are
surfaces, harnesses, sandbox and hosting providers, a web client and a command
line: calls to outside services and rendering, without a protocol of their own.

## 7. Plan

Done: RunStore, SessionLease, RunQueue, RunLifecycle, WorkerLoop,
OwnershipStore, Handover, RunSignals, SlackDelivery (with the outbox and the
leader lease), CronFires (with the idempotency store), SlackIntake, and proofs
of every safety property. Next, in order:

1. Abstract specifications of the handover (an owner that changes hands when the
   last one let go) and of the outbox (at most one post unless two overlap), and
   proofs that `Handover` and `SlackDelivery` implement them, from the invariants
   at hand.
2. The return outbox of child runs and the delivery state of a result in
   `RunStore`; swarms on top of them.
3. Interval and one-shot schedules in `CronFires`, and the item ledger of loops.
