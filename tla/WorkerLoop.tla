----------------------------- MODULE WorkerLoop -----------------------------
(***************************************************************************)
(* The claim loop of one worker (src/runs/worker.ts createWorker) under    *)
(* the process that starts and stops it (startBackground, stopBackground   *)
(* and releaseInFlightRuns of src/wiring.ts) and the drain controller that *)
(* withdraws and restores its permission to claim (src/runs/drain.ts).     *)
(*                                                                         *)
(* JavaScript runs to completion: a step goes from one await of the loop   *)
(* to the next, and the other operations fall between them.  `pc` is the   *)
(* await the loop is at; "off" is loopDone = null.                         *)
(***************************************************************************)
EXTENDS Naturals

CONSTANTS
    ClaimFailCrash,     \* CLAIM_FAIL_CRASH_CONSECUTIVE
    RunBound,           \* bound: claimable runs in the table
    FlipBound,          \* bound: changes of canClaim
    CycleBound,         \* bound: calls of startBackground and stopBackground
    FaultBound          \* bound: failing statements

ASSUME LoopAssumption ==
    /\ ClaimFailCrash \in Nat \ {0}
    /\ {RunBound, FlipBound, CycleBound, FaultBound} \subseteq Nat

VARIABLES
    pc,         \* where the loop awaits
    reply,      \* the outcome of the claim statement in flight
    claimDone,  \* claimDone is set: a claim is outstanding
    heard,      \* generation # observed: notified since the claim was sent
    failures,   \* claimFailures
    stopped,
    stop,       \* the promise of the last stopClaims since the loop started
    releasing,  \* where releaseInFlight is
    on,         \* backgroundRunning
    epoch,      \* backgroundGeneration
    resume,     \* epochs of the starts that wait for drained()
    allowed,    \* canClaim()
    available,  \* claimable runs
    announced,  \* a notification of qm_run_available is on its way
    flips, faults   \* bounds

loopVars == <<pc, reply, claimDone, heard, failures>>
controlVars == <<stopped, stop, releasing, on, epoch, resume>>
worldVars == <<allowed, available, announced, flips, faults>>
vars == <<pc, reply, claimDone, heard, failures, stopped, stop, releasing, on,
          epoch, resume, allowed, available, announced, flips, faults>>

Init ==
    /\ pc = "off" /\ reply = "none" /\ claimDone = FALSE /\ heard = FALSE
    /\ failures = 0
    /\ stopped = FALSE /\ stop = "none" /\ releasing = "no"
    /\ on = FALSE /\ epoch = 0 /\ resume = {}
    /\ allowed = TRUE /\ available = 0 /\ announced = FALSE
    /\ flips = 0 /\ faults = 0

-----------------------------------------------------------------------------
(* The loop                                                                *)

\* From the head of the while loop to its next await.
HeadOfLoop(isStopped) ==
    /\ pc' = CASE isStopped -> "off"
               [] ~isStopped /\ ~allowed -> "sleeping"
               [] OTHER -> "claiming"
    /\ reply' = "none"
    /\ claimDone' = (pc' = "claiming")
    /\ heard' = (heard /\ pc' # "claiming")

\* claimed(): whoever awaits stopClaims() goes on.
ClaimSettled == stop' = IF stop = "waiting" THEN "done" ELSE stop

\* A sleep (or a wait that was woken) is over.
SleepEnds ==
    /\ pc = "sleeping"
    /\ HeadOfLoop(stopped)
    /\ UNCHANGED <<failures, controlVars, worldVars>>

\* The statement of runs.claim, or its failure.
ClaimStatement ==
    /\ pc = "claiming"
    /\ reply = "none"
    /\ \/ /\ available > 0
          /\ available' = available - 1
          /\ reply' = "run"
          /\ UNCHANGED faults
       \/ /\ available = 0
          /\ reply' = "empty"
          /\ UNCHANGED <<available, faults>>
       \/ /\ faults < FaultBound
          /\ faults' = faults + 1
          /\ reply' = "error"
          /\ UNCHANGED available
    /\ UNCHANGED <<pc, claimDone, heard, failures, controlVars, allowed,
                   announced, flips>>

\* Broken variant: waitForWork does not look at the generation.
ClaimFoundNothingWaits ==
    /\ pc = "claiming"
    /\ reply = "empty"
    /\ failures' = 0
    /\ ClaimSettled
    /\ pc' = "waiting" /\ reply' = "none" /\ claimDone' = FALSE
    /\ UNCHANGED <<heard, stopped, releasing, on, epoch, resume, worldVars>>

\* run = null: waitForWork, which returns at once when the loop was stopped or
\* a notification came while the claim was outstanding.
ClaimFoundNothing ==
    /\ pc = "claiming"
    /\ reply = "empty"
    /\ failures' = 0
    /\ ClaimSettled
    /\ IF stopped \/ heard
       THEN HeadOfLoop(stopped)
       ELSE /\ pc' = "waiting" /\ reply' = "none" /\ claimDone' = FALSE
            /\ UNCHANGED heard
    /\ UNCHANGED <<stopped, releasing, on, epoch, resume, worldVars>>

\* claim threw: back off, or give the process up.
ClaimFailed ==
    /\ pc = "claiming"
    /\ reply = "error"
    /\ failures' = failures + 1
    /\ ClaimSettled
    /\ pc' = IF failures' >= ClaimFailCrash THEN "dead" ELSE "sleeping"
    /\ reply' = "none" /\ claimDone' = FALSE
    /\ UNCHANGED <<heard, stopped, releasing, on, epoch, resume, worldVars>>

\* A run: it is handed back when the loop may not claim any more, and only then
\* is claimed() called; otherwise it is in flight when claimed() is called.
ClaimedRun ==
    /\ pc = "claiming"
    /\ reply = "run"
    /\ failures' = 0
    /\ reply' = "none"
    /\ IF stopped \/ ~allowed
       THEN /\ pc' = "handback"
            /\ UNCHANGED <<claimDone, stop>>
       ELSE /\ pc' = "working"
            /\ claimDone' = FALSE
            /\ ClaimSettled
    /\ UNCHANGED <<heard, stopped, releasing, on, epoch, resume, worldVars>>

\* releaseLease, whose failure is swallowed (the lease will lapse), and break.
HandedBack ==
    /\ pc = "handback"
    /\ \/ /\ available' = available + 1
          /\ announced' = TRUE
          /\ UNCHANGED faults
       \/ /\ faults < FaultBound
          /\ faults' = faults + 1
          /\ UNCHANGED <<available, announced>>
    /\ pc' = "off"
    /\ claimDone' = FALSE
    /\ ClaimSettled
    /\ UNCHANGED <<reply, heard, failures, stopped, releasing, on, epoch,
                   resume, allowed, flips>>

\* processRun is over (RunQueue models it); inFlight is settled.
TurnEnds ==
    /\ pc = "working"
    /\ HeadOfLoop(stopped)
    /\ releasing' = IF releasing = "aborting" THEN "done" ELSE releasing
    /\ UNCHANGED <<failures, stopped, stop, on, epoch, resume, worldVars>>

\* notify(): count it, and wake the loop if it waits for work.
Notify ==
    /\ heard' = TRUE
    /\ pc' = IF pc = "waiting" THEN "sleeping" ELSE pc
    /\ UNCHANGED <<reply, claimDone, failures>>

\* A notification arrives; a stopped worker has unsubscribed.
Announcement ==
    /\ announced
    /\ announced' = FALSE
    /\ IF pc # "off" /\ ~stopped THEN Notify ELSE UNCHANGED loopVars
    /\ UNCHANGED <<controlVars, allowed, available, flips, faults>>

\* The recovery poll.
WaitTimesOut ==
    /\ pc = "waiting"
    /\ pc' = "sleeping"
    /\ UNCHANGED <<reply, claimDone, heard, failures, controlVars, worldVars>>

-----------------------------------------------------------------------------
(* Starting and stopping                                                   *)

stopClaims ==
    /\ stopped' = TRUE
    /\ Notify
    /\ stop' = IF claimDone THEN "waiting" ELSE "done"

\* worker.start(), when no loop runs.
startLoop ==
    /\ stopped' = FALSE
    /\ stop' = "none"
    /\ failures' = 0
    /\ HeadOfLoop(FALSE)

\* Broken variant: a loop that is still draining is not started again.
startBackgroundOnce ==
    /\ ~on
    /\ releasing = "no"
    /\ epoch < CycleBound
    /\ on' = TRUE
    /\ epoch' = epoch + 1
    /\ IF pc = "off" THEN startLoop
       ELSE UNCHANGED <<loopVars, stopped, stop>>
    /\ UNCHANGED <<resume, releasing, worldVars>>

\* start() does nothing while the previous loop is still draining; the start
\* is then repeated when drained() resolves.
startBackground ==
    /\ ~on
    /\ releasing = "no"
    /\ epoch < CycleBound
    /\ on' = TRUE
    /\ epoch' = epoch + 1
    /\ IF pc = "off"
       THEN startLoop /\ UNCHANGED resume
       ELSE /\ resume' = resume \cup {epoch'}
            /\ UNCHANGED <<loopVars, stopped, stop>>
    /\ UNCHANGED <<releasing, worldVars>>

stopBackground ==
    /\ epoch > 0
    /\ epoch < CycleBound
    /\ on' = FALSE
    /\ epoch' = epoch + 1
    /\ stopClaims
    /\ UNCHANGED <<resume, releasing, worldVars>>

\* Broken variant: the start is repeated whatever happened meanwhile.
DrainedThenStarts ==
    /\ pc = "off"
    /\ resume # {}
    /\ resume' = {}
    /\ startLoop
    /\ UNCHANGED <<releasing, on, epoch, worldVars>>

\* drained().then(...): repeat the start, if nothing was stopped since.
Drained ==
    /\ pc = "off"
    /\ resume # {}
    /\ resume' = {}
    /\ IF on /\ epoch \in resume
       THEN startLoop
       ELSE UNCHANGED <<loopVars, stopped, stop>>
    /\ UNCHANGED <<releasing, on, epoch, worldVars>>

\* releaseInFlight(), called at shutdown after stopBackground.
releaseInFlight ==
    /\ releasing = "no"
    /\ ~on /\ epoch > 0
    /\ stopClaims
    /\ releasing' = "stopping"
    /\ UNCHANGED <<on, epoch, resume, worldVars>>

\* Broken variant: the turn in flight is read before the claims have stopped.
AbortInFlightEarly ==
    /\ releasing = "stopping"
    /\ releasing' = IF pc = "working" THEN "aborting" ELSE "done"
    /\ UNCHANGED <<loopVars, stopped, stop, on, epoch, resume, worldVars>>

\* ... once stopClaims() resolves: abort the turn in flight, and await it.
AbortInFlight ==
    /\ releasing = "stopping"
    /\ stop = "done"
    /\ releasing' = IF pc = "working" THEN "aborting" ELSE "done"
    /\ UNCHANGED <<loopVars, stopped, stop, on, epoch, resume, worldVars>>

-----------------------------------------------------------------------------
(* The world                                                               *)

\* A run is submitted, requeued or handed back by another worker.
RunArrives ==
    /\ available < RunBound
    /\ available' = available + 1
    /\ announced' = TRUE
    /\ UNCHANGED <<loopVars, controlVars, allowed, flips, faults>>

\* Another worker claims one.
RunTaken ==
    /\ available > 0
    /\ available' = available - 1
    /\ UNCHANGED <<loopVars, controlVars, allowed, announced, flips, faults>>

\* The drain controller's beat sees a newer build appear or disappear.
DrainBeat ==
    /\ flips < FlipBound
    /\ flips' = flips + 1
    /\ allowed' = ~allowed
    /\ UNCHANGED <<loopVars, controlVars, available, announced, faults>>

LoopStep ==
    \/ SleepEnds \/ ClaimStatement \/ ClaimFoundNothing \/ ClaimFailed
    \/ ClaimedRun \/ HandedBack \/ TurnEnds \/ WaitTimesOut \/ Announcement

ProcessStep == startBackground \/ stopBackground \/ Drained \/ releaseInFlight \/ AbortInFlight

Next == LoopStep \/ ProcessStep \/ RunArrives \/ RunTaken \/ DrainBeat

Spec == Init /\ [][Next]_vars

\* Timers fire, statements and turns end, promises resolve, and the process
\* starts its workers at boot.  Nothing makes the drain controller, other
\* workers or the process' stop fair.
FairSpec ==
    /\ Spec
    /\ WF_vars(SleepEnds \/ ClaimStatement \/ ClaimFoundNothing \/ ClaimFailed
               \/ ClaimedRun \/ HandedBack \/ TurnEnds \/ WaitTimesOut)
    /\ WF_vars(Announcement)
    /\ WF_vars(Drained)
    /\ WF_vars(startBackground)

-----------------------------------------------------------------------------
(* What is checked                                                         *)

\* The worker holds the lease of a run.
Holds == pc \in {"handback", "working"} \/ reply = "run"

\* When releaseInFlight() has returned, the worker works on no run and has none
\* still to hand back: nothing it claimed is forgotten by the shutdown.  (A hand
\* back that failed is over too; its row stays leased until the lease lapses.)
NothingHeldAfterRelease == releasing = "done" => ~Holds

\* A worker goes to sleep on an empty queue only: when a run is claimable, its
\* notification is still to come, so a run announced while the claim that
\* missed it was outstanding does not wait for the recovery poll.
NoMissedAnnouncement == (pc = "waiting" /\ available > 0) => announced

\* A start that waited for the old loop to drain does not revive a worker that
\* was stopped meanwhile.
StoppedStaysStopped == ~on => (stopped \/ pc = "off")

\* Once the worker may claim for good, queued runs are claimed again.  The test
\* "claiming resumes when the newer build dies" (test/deploy-drain.test.ts) and
\* the drain controller's "newer build gone, resuming run claims" say so.
ClaimingResumes ==
    <>[](allowed /\ on) => []<>(pc = "working" \/ available = 0)

\* While no newer build pauses the worker and the process does not give itself
\* up, failed claims are survived and a start that follows a stop makes it
\* claim again, also when the loop it replaces was still handing its run back
\* (the drained().then of startBackground).
RestartResumes == [](allowed /\ pc # "dead") => ClaimingResumes
=============================================================================
