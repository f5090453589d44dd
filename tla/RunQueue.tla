------------------------------ MODULE RunQueue ------------------------------
(***************************************************************************)
(* Workers that claim runs and drive turns, the reaper that takes runs     *)
(* back from dead workers, and the sessions the turns write to.            *)
(*                                                                         *)
(* A worker is src/runs/worker.ts processRun around the lease-relevant     *)
(* part of src/core/orchestrator.ts handleTurn; a reaper is one sweep of   *)
(* src/runs/reaper.ts over RunStore.reapExpired.  A step ends at an await, *)
(* so a program counter sits between any two statements on the stores:     *)
(*   idle -> turn -> complete -> settle -> idle          a turn that ends  *)
(*           turn -> fail -> retire -> settle -> idle    a turn that throws*)
(*           ... -> handback -> down                     shutdown          *)
(* A crash may come at any of them.  A slow worker whose lease lapsed is a *)
(* worker that takes no step for a while.                                  *)
(***************************************************************************)
EXTENDS RunStore, FiniteSets, Sequences

CONSTANTS
    Workers,                \* claim loops (and inline callers) of all processes
    Reapers,                \* reaper sweeps that may overlap
    LeaseLostConsecutive,   \* LEASE_LOST_CONSECUTIVE heartbeats, then cancel
    NoRun,                  \* what an idle worker works on
    FaultBound,             \* bound: crashes, shutdowns, stalls, failed statements
    AppendBound,            \* bound: entries one turn appends
    EditBound,              \* bound: edits of a queued text
    CompactionBound         \* bound: compactions per session

ASSUME QueueAssumption ==
    /\ NoRun \notin Runs
    /\ LeaseLostConsecutive \in Nat \ {0}
    /\ {FaultBound, AppendBound, EditBound, CompactionBound} \subseteq Nat

VARIABLES
    sessionLease, leaseMint, tape,  \* see SessionLease
    worker,     \* the call frame of processRun, per worker
    reaper,     \* the call frame of reapExpired, per reaper
    compaction, \* lease token of the running compaction, per session, or 0
    settles,    \* history: terminal notifications sent, per run
    cover,      \* history: the run whose turn took the session lease while it
                \* held the run lease, per session, unless that turn's
                \* release failed
    faults,     \* bound: faults so far
    compactions \* bound: compactions so far, per session

INSTANCE SessionLease WITH Writers <- Runs \cup {NoRun}

sessionVars == <<sessionLease, leaseMint, tape>>
queueVars == <<worker, reaper, compaction, settles, cover, faults, compactions>>
vars == <<status, seq, nextSeq, keyed, noted, text, runLease, minted, attempts,
          errors, cooling, outcome, sessionLease, leaseMint, tape, worker,
          reaper, compaction, settles, cover, faults, compactions>>

-----------------------------------------------------------------------------

WorkerPCs ==
    {"idle", "turn", "complete", "fail", "retire", "settle", "handback", "down"}

\* What retire looks at in a row it was handed.
Budget == [attempts : Nat, errors : Nat]

budgetOf(r) == [attempts |-> attempts[r], errors |-> errors[r]]

\* A worker's frame: the claimed row as claim returned it (run, token,
\* attempts, errors, text), the budget of the row fail re-read (seen),
\* the lost heartbeats, the shutdown signal, the session lease of the turn,
\* the entries it appended and how the turn ended.
Frame ==
    [pc : WorkerPCs, run : Runs \cup {NoRun}, token : Nat, attempts : Nat,
     errors : Nat, text : Nat, seen : Budget,
     lost : Nat, shutdown : BOOLEAN, lease : Nat, appended : Nat,
     result : Results, retry : BOOLEAN]

IdleFrame ==
    [pc |-> "idle", run |-> NoRun, token |-> NoToken, attempts |-> 0,
     errors |-> 0, text |-> 0, seen |-> [attempts |-> 0, errors |-> 0],
     lost |-> 0, shutdown |-> FALSE, lease |-> 0, appended |-> 0,
     result |-> "none", retry |-> TRUE]

DownFrame == [IdleFrame EXCEPT !.pc = "down"]

\* A row of the reaper's SELECT.
ExpiredRow == [run : Runs, token : Nat, seen : Budget, tooOld : BOOLEAN]

ReaperPCs == {"idle", "fence", "release", "retire", "settle"}

\* A reaper's frame: the rows of its SELECT still to do, the one in hand and
\* the fence token it put on it.
Sweep ==
    [pc : ReaperPCs, todo : SUBSET ExpiredRow, run : Runs \cup {NoRun},
     fence : Nat, seen : Budget, tooOld : BOOLEAN]

IdleSweep ==
    [pc |-> "idle", todo |-> {}, run |-> NoRun, fence |-> NoToken,
     seen |-> [attempts |-> 0, errors |-> 0], tooOld |-> FALSE]

SessionOfWorker(w) == SessionOf[worker[w].run]

\* Where processRun goes after its last statement on the run: the finally
\* block hands the lease back under shutdown, and the loop goes on otherwise.
Leave(f) == IF f.shutdown THEN [f EXCEPT !.pc = "handback"] ELSE IdleFrame

Init ==
    /\ StoreInit
    /\ SessionInit
    /\ worker = [w \in Workers |-> IdleFrame]
    /\ reaper = [p \in Reapers |-> IdleSweep]
    /\ compaction = [s \in Sessions |-> 0]
    /\ settles = [r \in Runs |-> 0]
    /\ cover = [s \in Sessions |-> NoRun]
    /\ faults = 0
    /\ compactions = [s \in Sessions |-> 0]

-----------------------------------------------------------------------------
(* Users of the queue                                                      *)

Enqueue(r) ==
    enqueue(r) /\ UNCHANGED <<sessionVars, queueVars>>

Edit(r, expected) ==
    /\ text[r] < EditBound
    /\ editPendingText(r, expected)
    /\ UNCHANGED <<sessionVars, queueVars>>

Withdraw(r) ==
    /\ \E unstartedOnly \in BOOLEAN : withdraw(r, unstartedOnly)
    /\ UNCHANGED <<sessionVars, queueVars>>

Steer(q, t) ==
    steerQueued(q, t) /\ UNCHANGED <<sessionVars, queueVars>>

-----------------------------------------------------------------------------
(* A worker                                                                *)

\* claim takes the oldest candidate it finds unlocked, claimForSession the
\* head of one session: between them, any claimable row.
WorkerClaims(w, r) ==
    /\ worker[w].pc = "idle"
    /\ claim(r)
    /\ worker' = [worker EXCEPT ![w] =
           [IdleFrame EXCEPT !.pc = "turn", !.run = r,
              !.token = runLease'[r].token, !.attempts = attempts'[r],
              !.errors = errors[r], !.text = text[r]]]
    /\ UNCHANGED <<sessionVars, reaper, compaction, settles, cover, faults,
                   compactions>>

\* The interval beats until handleTurn is over or the lease is given up.
Beats(w) ==
    worker[w].pc = "turn" /\ worker[w].lost < LeaseLostConsecutive

HeartbeatAlive(w) ==
    /\ Beats(w)
    /\ heartbeat(worker[w].run, worker[w].token)
    /\ worker' = [worker EXCEPT ![w].lost = 0]
    /\ UNCHANGED <<sessionVars, reaper, compaction, settles, cover, faults,
                   compactions>>

HeartbeatLost(w) ==
    /\ Beats(w)
    /\ ~HoldsLease(worker[w].run, worker[w].token)
    /\ worker' = [worker EXCEPT ![w].lost = @ + 1]
    /\ UNCHANGED <<storeVars, sessionVars, reaper, compaction, settles, cover,
                   faults, compactions>>

\* A heartbeat that throws is taken for transient and forgives the count.
HeartbeatError(w) ==
    /\ Beats(w)
    /\ worker[w].lost > 0
    /\ faults < FaultBound
    /\ faults' = faults + 1
    /\ worker' = [worker EXCEPT ![w].lost = 0]
    /\ UNCHANGED <<storeVars, sessionVars, reaper, compaction, settles, cover,
                   compactions>>

\* acquireTurnLeaseOrRefuse, granted.  Nothing here looks at the run lease.
TurnAcquires(w) ==
    /\ worker[w].pc = "turn"
    /\ worker[w].lease = 0
    /\ acquireLease(SessionOfWorker(w), "turn")
    /\ worker' = [worker EXCEPT ![w].lease = leaseMint'[SessionOfWorker(w)]]
    /\ cover' = [cover EXCEPT ![SessionOfWorker(w)] =
           IF HoldsLease(worker[w].run, worker[w].token)
           THEN worker[w].run ELSE NoRun]
    /\ UNCHANGED <<storeVars, reaper, compaction, settles, faults, compactions>>

\* acquireTurnLeaseOrRefuse, refused: at once when another turn holds the
\* lease, after a bounded wait when a compaction does.  The refusal is the
\* turn's result.
TurnRefused(w) ==
    /\ worker[w].pc = "turn"
    /\ worker[w].lease = 0
    /\ ~Grantable(SessionOfWorker(w))
    /\ worker' = [worker EXCEPT ![w] =
           IF @.shutdown THEN [@ EXCEPT !.pc = "handback"]
                         ELSE [@ EXCEPT !.pc = "complete", !.result = "busy"]]
    /\ UNCHANGED <<storeVars, sessionVars, reaper, compaction, settles, cover,
                   faults, compactions>>

\* An append of the turn.
TurnAppends(w) ==
    LET f == worker[w] IN
    /\ f.pc = "turn"
    /\ f.lease # 0
    /\ f.appended < AppendBound
    /\ append(SessionOf[f.run], f.lease, f.run)
    /\ worker' = [worker EXCEPT ![w].appended = @ + 1]
    /\ UNCHANGED <<storeVars, reaper, compaction, settles, cover, faults,
                   compactions>>

\* The first one is the user's entry, whose position is then noted on the run;
\* an error of that statement is swallowed.
TurnNotes(w) ==
    /\ worker[w].pc = "turn"
    /\ worker[w].appended = 1
    /\ noteTurnUserSeq(worker[w].run)
    /\ UNCHANGED <<sessionVars, queueVars>>

\* The finally block of handleTurn.
TurnLetsGo(w) == releaseSession(SessionOfWorker(w), worker[w].lease)

\* handleTurn returns: a shutdown leaves the run to handback, otherwise
\* complete is called.
TurnReturns(w) ==
    /\ worker[w].pc = "turn"
    /\ TurnLetsGo(w)
    /\ worker' = [worker EXCEPT ![w] =
           IF @.shutdown THEN [@ EXCEPT !.pc = "handback", !.lease = 0]
           ELSE [@ EXCEPT !.pc = "complete", !.result = "answer", !.lease = 0]]
    /\ UNCHANGED <<storeVars, reaper, compaction, settles, cover, faults,
                   compactions>>

\* handleTurn throws, of itself or because an append found the session lease
\* gone; NonRetryableTurnError clears `retry`.
TurnThrows(w, retry) ==
    /\ worker[w].pc = "turn"
    /\ TurnLetsGo(w)
    /\ worker' = [worker EXCEPT ![w] =
           IF @.shutdown THEN [@ EXCEPT !.pc = "handback", !.lease = 0]
           ELSE [@ EXCEPT !.pc = "fail", !.retry = retry, !.lease = 0]]
    /\ UNCHANGED <<storeVars, reaper, compaction, settles, cover, faults,
                   compactions>>

\* A statement of that finally block throws (reclaimBox, releaseLease): the
\* turn ends in this error whatever it had come to, and leaves the session
\* lease behind, which nobody renews.  (A release that was applied and only
\* went unanswered is TurnThrows.)
TurnCleanupFails(w) ==
    LET s == SessionOfWorker(w) IN
    /\ worker[w].pc = "turn"
    /\ worker[w].lease # 0
    /\ faults < FaultBound
    /\ faults' = faults + 1
    /\ cover' = [cover EXCEPT ![s] =
           IF sessionLease[s].token = worker[w].lease THEN NoRun ELSE @]
    /\ worker' = [worker EXCEPT ![w] =
           IF @.shutdown THEN [@ EXCEPT !.pc = "handback", !.lease = 0]
           ELSE [@ EXCEPT !.pc = "fail", !.retry = TRUE, !.lease = 0]]
    /\ UNCHANGED <<storeVars, sessionVars, reaper, compaction, settles, compactions>>

Completes(w) ==
    LET f == worker[w] IN
    /\ f.pc = "complete"
    /\ complete(f.run, f.token, f.result)
    /\ worker' = [worker EXCEPT ![w].pc = "settle"]
    /\ UNCHANGED <<sessionVars, reaper, compaction, settles, cover, faults,
                   compactions>>

\* Broken variant: the terminal listeners are called although no row matched.
CompletionRefusedYetSettles(w) ==
    LET f == worker[w] IN
    /\ f.pc = "complete"
    /\ ~CompletionAccepted(f.run, f.token)
    /\ worker' = [worker EXCEPT ![w].pc = "settle"]
    /\ UNCHANGED <<storeVars, sessionVars, reaper, compaction, settles, cover,
                   faults, compactions>>

\* complete answers false: "lost its lease before completion" is thrown, and
\* caught by processRun's own handler.
CompletionRefused(w) ==
    LET f == worker[w] IN
    /\ f.pc = "complete"
    /\ ~CompletionAccepted(f.run, f.token)
    /\ worker' = [worker EXCEPT ![w].pc = IF f.shutdown THEN "handback" ELSE "fail"]
    /\ UNCHANGED <<storeVars, sessionVars, reaper, compaction, settles, cover,
                   faults, compactions>>

\* complete throws: its statement may have been applied or not.  If it was,
\* this process never notifies anybody.
CompletionErrs(w) ==
    LET f == worker[w] IN
    /\ f.pc = "complete"
    /\ faults < FaultBound
    /\ faults' = faults + 1
    /\ \/ complete(f.run, f.token, f.result)
       \/ UNCHANGED storeVars
    /\ worker' = [worker EXCEPT ![w].pc = IF f.shutdown THEN "handback" ELSE "fail"]
    /\ UNCHANGED <<sessionVars, reaper, compaction, settles, cover, compactions>>

\* settle(await getRun(id)): the terminal listeners of this process.
WorkerSettles(w) ==
    LET f == worker[w] IN
    /\ f.pc = "settle"
    /\ settles' = [settles EXCEPT ![f.run] = @ + (IF isTerminal(f.run) THEN 1 ELSE 0)]
    /\ worker' = [worker EXCEPT ![w] = Leave(f)]
    /\ UNCHANGED <<storeVars, sessionVars, reaper, compaction, cover, faults,
                   compactions>>

\* fail reads the row; a lease that is not this worker's ends it.
FailReads(w) ==
    LET f == worker[w] IN
    /\ f.pc = "fail"
    /\ worker' = [worker EXCEPT ![w] =
           IF runLease[f.run].token = f.token
           THEN [f EXCEPT !.pc = "retire",
                          !.seen = budgetOf(f.run)]
           ELSE Leave(f)]
    /\ UNCHANGED <<storeVars, sessionVars, reaper, compaction, settles, cover,
                   faults, compactions>>

\* fail's retire, guarded by the token; parking notifies.
FailRetires(w) ==
    LET f == worker[w] IN
    /\ f.pc = "retire"
    /\ retire(f.run, f.token, f.seen, f.retry, TRUE, TRUE)
    /\ worker' = [worker EXCEPT ![w] =
           IF Requeues(f.seen, f.retry, TRUE) THEN Leave(f)
                                              ELSE [f EXCEPT !.pc = "settle"]]
    /\ UNCHANGED <<sessionVars, reaper, compaction, settles, cover, faults,
                   compactions>>

FailMisses(w) ==
    LET f == worker[w] IN
    /\ f.pc = "retire"
    /\ ~HoldsLease(f.run, f.token)
    /\ worker' = [worker EXCEPT ![w] = Leave(f)]
    /\ UNCHANGED <<storeVars, sessionVars, reaper, compaction, settles, cover,
                   faults, compactions>>

\* A statement of fail throws: the error leaves processRun, the run keeps its
\* lease until it lapses.  (If the update was applied and only its answer is
\* lost, nobody is notified: that is FailRetires followed by Crash.)
FailErrs(w) ==
    /\ worker[w].pc \in {"fail", "retire"}
    /\ faults < FaultBound
    /\ faults' = faults + 1
    /\ worker' = [worker EXCEPT ![w] = Leave(@)]
    /\ UNCHANGED <<storeVars, sessionVars, reaper, compaction, settles, cover,
                   compactions>>

\* releaseInFlight: stop claiming, abort the turn in flight, if any.
Shutdown(w) ==
    /\ worker[w].pc \notin {"down", "handback"}
    /\ ~worker[w].shutdown
    /\ faults < FaultBound
    /\ faults' = faults + 1
    /\ worker' = [worker EXCEPT ![w] =
           IF @.pc = "idle" THEN DownFrame ELSE [@ EXCEPT !.shutdown = TRUE]]
    /\ UNCHANGED <<storeVars, sessionVars, reaper, compaction, settles, cover,
                   compactions>>

\* The finally block under shutdown; an error of releaseLease is swallowed and
\* leaves the lease to lapse, as Crash does.
HandsBack(w) ==
    LET f == worker[w] IN
    /\ f.pc = "handback"
    /\ \/ releaseLease(f.run, f.token)
       \/ ~HoldsLease(f.run, f.token) /\ UNCHANGED storeVars
    /\ worker' = [worker EXCEPT ![w] = DownFrame]
    /\ UNCHANGED <<sessionVars, reaper, compaction, settles, cover, faults,
                   compactions>>

\* The process dies with whatever it holds.
Crash(w) ==
    /\ worker[w].pc \notin {"idle", "down"}
    /\ faults < FaultBound
    /\ faults' = faults + 1
    /\ worker' = [worker EXCEPT ![w] = DownFrame]
    /\ UNCHANGED <<storeVars, sessionVars, reaper, compaction, settles, cover,
                   compactions>>

Restart(w) ==
    /\ worker[w].pc = "down"
    /\ worker' = [worker EXCEPT ![w] = IdleFrame]
    /\ UNCHANGED <<storeVars, sessionVars, reaper, compaction, settles, cover,
                   faults, compactions>>

-----------------------------------------------------------------------------
(* A reaper                                                                *)

\* Broken variant: the sweep passes over runs that are out of claims.
ExpiredUnderCap ==
    {r \in Runs : /\ status[r] = "running" /\ runLease[r].lapsed
                  /\ attempts[r] < MaxClaims}

Expired == {r \in Runs : status[r] = "running" /\ runLease[r].lapsed}

\* The SELECT of expired leases; `old` are those past the age cap.
ReaperSelects(p) ==
    /\ reaper[p].pc = "idle"
    /\ Expired # {}
    /\ \E old \in SUBSET Expired :
         reaper' = [reaper EXCEPT ![p] = [IdleSweep EXCEPT !.pc = "fence",
            !.todo = {[run |-> r, token |-> runLease[r].token,
                       seen |-> budgetOf(r), tooOld |-> r \in old]
                         : r \in Expired}]]
    /\ UNCHANGED <<storeVars, sessionVars, worker, compaction, settles, cover,
                   faults, compactions>>

\* A lease renewed and lapsed again since the SELECT is left to the next
\* sweep by the code and to this one here.
ReaperFences(p) ==
    \E x \in reaper[p].todo :
        /\ reaper[p].pc = "fence"
        /\ fence(x.run, x.token)
        /\ reaper' = [reaper EXCEPT ![p] =
              [pc |-> "release", todo |-> @.todo \ {x}, run |-> x.run,
               fence |-> runLease'[x.run].token, seen |-> x.seen,
               tooOld |-> x.tooOld]]
        /\ UNCHANGED <<sessionVars, worker, compaction, settles, cover, faults,
                       compactions>>

\* Not fenced: the lease was renewed, retired or settled meanwhile.
ReaperSkips(p) ==
    \E x \in reaper[p].todo :
        /\ reaper[p].pc = "fence"
        /\ ~(HoldsLease(x.run, x.token) /\ runLease[x.run].lapsed)
        /\ reaper' = [reaper EXCEPT ![p].todo = @ \ {x}]
        /\ UNCHANGED <<storeVars, sessionVars, worker, compaction, settles,
                       cover, faults, compactions>>

\* Broken variant: onRetired does not release the session lease.
ReaperReleasesNothing(p) ==
    /\ reaper[p].pc = "release"
    /\ reaper' = [reaper EXCEPT ![p].pc = "retire"]
    /\ UNCHANGED <<storeVars, sessionVars, worker, compaction, settles, cover,
                   faults, compactions>>

\* onRetired: releaseStrandedSessionLeases.
ReaperReleases(p) ==
    /\ reaper[p].pc = "release"
    /\ forceReleaseLease(SessionOf[reaper[p].run])
    /\ reaper' = [reaper EXCEPT ![p].pc = "retire"]
    /\ UNCHANGED <<storeVars, worker, compaction, settles, cover, faults,
                   compactions>>

NextOfSweep(f) == [IdleSweep EXCEPT !.pc = "fence", !.todo = f.todo]

ReaperRetires(p) ==
    LET f == reaper[p] IN
    /\ f.pc = "retire"
    /\ retire(f.run, f.fence, f.seen, ~f.tooOld, FALSE, FALSE)
    /\ reaper' = [reaper EXCEPT ![p] =
           IF Requeues(f.seen, ~f.tooOld, FALSE)
           THEN NextOfSweep(f) ELSE [f EXCEPT !.pc = "settle"]]
    /\ UNCHANGED <<sessionVars, worker, compaction, settles, cover, faults,
                   compactions>>

\* The fence itself lapsed and another sweep fenced the run again.
ReaperMisses(p) ==
    LET f == reaper[p] IN
    /\ f.pc = "retire"
    /\ ~HoldsLease(f.run, f.fence)
    /\ reaper' = [reaper EXCEPT ![p] = NextOfSweep(f)]
    /\ UNCHANGED <<storeVars, sessionVars, worker, compaction, settles, cover,
                   faults, compactions>>

ReaperSettles(p) ==
    LET f == reaper[p] IN
    /\ f.pc = "settle"
    /\ settles' = [settles EXCEPT ![f.run] = @ + (IF isTerminal(f.run) THEN 1 ELSE 0)]
    /\ reaper' = [reaper EXCEPT ![p] = NextOfSweep(f)]
    /\ UNCHANGED <<storeVars, sessionVars, worker, compaction, cover, faults,
                   compactions>>

ReaperEnds(p) ==
    /\ reaper[p].pc = "fence"
    /\ reaper[p].todo = {}
    /\ reaper' = [reaper EXCEPT ![p] = IdleSweep]
    /\ UNCHANGED <<storeVars, sessionVars, worker, compaction, settles, cover,
                   faults, compactions>>

\* A statement of the sweep throws, or its process dies: the rest of the
\* sweep is dropped, a fenced run waits for its fence to lapse.
ReaperFails(p) ==
    /\ reaper[p].pc # "idle"
    /\ faults < FaultBound
    /\ faults' = faults + 1
    /\ reaper' = [reaper EXCEPT ![p] = IdleSweep]
    /\ UNCHANGED <<storeVars, sessionVars, worker, compaction, settles, cover,
                   compactions>>

-----------------------------------------------------------------------------
(* Background compaction, the other writer of a session                    *)

CompactionAcquires(s) ==
    /\ compaction[s] = 0
    /\ compactions[s] < CompactionBound
    /\ acquireLease(s, "compaction")
    /\ compaction' = [compaction EXCEPT ![s] = leaseMint'[s]]
    /\ compactions' = [compactions EXCEPT ![s] = @ + 1]
    /\ cover' = [cover EXCEPT ![s] = NoRun]
    /\ UNCHANGED <<storeVars, worker, reaper, settles, faults>>

\* writeCompaction appends the summary if the lease is still good, and the
\* finally block releases it either way.
CompactionEnds(s) ==
    /\ compaction[s] # 0
    /\ tape' = IF LeaseValid(s, compaction[s])
               THEN [tape EXCEPT ![s] =
                        Append(@, [lease |-> compaction[s], writer |-> NoRun])]
               ELSE tape
    /\ sessionLease' = [sessionLease EXCEPT ![s] =
                            IF @.token = compaction[s] THEN NoLease ELSE @]
    /\ compaction' = [compaction EXCEPT ![s] = 0]
    /\ UNCHANGED <<storeVars, leaseMint, worker, reaper, settles, cover, faults,
                   compactions>>

-----------------------------------------------------------------------------

\* No live worker or sweep owns the token of the running row r.
Abandoned(r) ==
    /\ \A w \in Workers : worker[w].run = r => worker[w].token # runLease[r].token
    /\ \A p \in Reapers : reaper[p].run = r => reaper[p].fence # runLease[r].token

\* A lease nobody renews lapses; one whose owner is alive lapses only when the
\* owner stalls, which counts as a fault.
LapseAbandoned(r) ==
    /\ Abandoned(r)
    /\ LeaseLapses(r)
    /\ UNCHANGED <<sessionVars, queueVars>>

LapseStalled(r) ==
    /\ ~Abandoned(r)
    /\ faults < FaultBound
    /\ faults' = faults + 1
    /\ LeaseLapses(r)
    /\ UNCHANGED <<sessionVars, worker, reaper, compaction, settles, cover,
                   compactions>>

CoolsDown(r) == BackoffElapses(r) /\ UNCHANGED <<sessionVars, queueVars>>

SessionLapses(s) ==
    /\ SessionLeaseLapses(s)
    /\ faults < FaultBound
    /\ faults' = faults + 1
    /\ UNCHANGED <<storeVars, worker, reaper, compaction, settles, cover,
                   compactions>>

UserStep ==
    \/ \E r \in Runs : Enqueue(r) \/ Withdraw(r)
    \/ \E r \in Runs : \E n \in 0..EditBound : Edit(r, n)
    \/ \E q, t \in Runs : Steer(q, t)

WorkerStep(w) ==
    \/ \E r \in Runs : WorkerClaims(w, r)
    \/ HeartbeatAlive(w) \/ HeartbeatLost(w) \/ HeartbeatError(w)
    \/ TurnAcquires(w) \/ TurnRefused(w) \/ TurnAppends(w) \/ TurnNotes(w)
    \/ TurnReturns(w) \/ \E retry \in BOOLEAN : TurnThrows(w, retry)
    \/ TurnCleanupFails(w)
    \/ Completes(w) \/ CompletionRefused(w) \/ CompletionErrs(w)
    \/ WorkerSettles(w)
    \/ FailReads(w) \/ FailRetires(w) \/ FailMisses(w) \/ FailErrs(w)
    \/ Shutdown(w) \/ HandsBack(w) \/ Crash(w) \/ Restart(w)

ReaperStep(p) ==
    \/ ReaperSelects(p) \/ ReaperFences(p) \/ ReaperSkips(p)
    \/ ReaperReleases(p) \/ ReaperRetires(p) \/ ReaperMisses(p)
    \/ ReaperSettles(p) \/ ReaperEnds(p) \/ ReaperFails(p)

TimeStep ==
    \/ \E r \in Runs : LapseAbandoned(r) \/ LapseStalled(r) \/ CoolsDown(r)
    \/ \E s \in Sessions : SessionLapses(s)

CompactionStep == \E s \in Sessions : CompactionAcquires(s) \/ CompactionEnds(s)

Next ==
    \/ UserStep
    \/ \E w \in Workers : WorkerStep(w)
    \/ \E p \in Reapers : ReaperStep(p)
    \/ TimeStep
    \/ CompactionStep

Spec == Init /\ [][Next]_vars

-----------------------------------------------------------------------------
(* Fairness.  A turn ends: handleTurn has a wall clock and a stall watchdog *)
(* that abort it.  A claim loop polls, a reaper sweeps on an interval, a    *)
(* process that went down is restarted, and time passes for a lease nobody  *)
(* renews.  Faults are not fair, and there are finitely many of them.       *)

Finishes(w) ==
    \/ TurnReturns(w) \/ \E retry \in BOOLEAN : TurnThrows(w, retry)
    \/ Completes(w) \/ CompletionRefused(w) \/ WorkerSettles(w)
    \/ FailReads(w) \/ FailRetires(w) \/ FailMisses(w)
    \/ HandsBack(w) \/ Restart(w)

Sweeps(p) ==
    \/ ReaperSelects(p) \/ ReaperFences(p) \/ ReaperSkips(p)
    \/ ReaperReleases(p) \/ ReaperRetires(p) \/ ReaperMisses(p)
    \/ ReaperSettles(p) \/ ReaperEnds(p)

ClaimsSomething == \E w \in Workers, r \in Runs : WorkerClaims(w, r)

Fairness ==
    /\ WF_vars(ClaimsSomething)
    /\ \A w \in Workers : WF_vars(Finishes(w))
    /\ \A p \in Reapers : WF_vars(Sweeps(p))
    /\ \A r \in Runs : WF_vars(LapseAbandoned(r)) /\ WF_vars(CoolsDown(r))

FairSpec == Spec /\ Fairness

-----------------------------------------------------------------------------
(* What is checked                                                         *)

TypeOK ==
    /\ StoreTypeOK
    /\ SessionTypeOK
    /\ worker \in [Workers -> Frame]
    /\ reaper \in [Reapers -> Sweep]
    /\ compaction \in [Sessions -> Nat]
    /\ settles \in [Runs -> Nat]
    /\ cover \in [Sessions -> Runs \cup {NoRun}]
    /\ faults \in Nat
    /\ compactions \in [Sessions -> Nat]

\* A row carries a lease token exactly while it is running, and it is the last
\* one minted for it.  complete() compares the token only: it is this that
\* keeps it from settling a run that was requeued, withdrawn or settled.
LeasedIffRunning ==
    \A r \in Runs :
        IF status[r] = "running"
        THEN runLease[r].token # NoToken /\ runLease[r].token = minted[r]
        ELSE runLease[r].token = NoToken

\* Turns of one conversation never run side by side: claim()'s sub-select and
\* the unique index on running runs of a session.
OneRunningPerSession ==
    \A q, r \in Runs :
        /\ q # r
        /\ SessionOf[q] = SessionOf[r]
        /\ status[q] = "running"
        => status[r] # "running"

\* The result of a settled run was written under the last lease ever given on
\* it: no worker whose lease was fenced, handed back or retired, however late
\* it wakes up, decides a run (complete, fail and reapExpired in
\* postgres-run-store.ts).
SettledByLastLease ==
    \A r \in Runs : isTerminal(r) => outcome[r].by = minted[r]

\* onTerminal listeners hear of a run at most once, and only of a settled one,
\* across workers, sweeps and lost replies of complete().
NotifiedAtMostOnce ==
    \A r \in Runs : settles[r] <= 1 /\ (settles[r] = 1 => isTerminal(r))

\* A key is answered once: of the runs submitted under one idempotency key, at
\* most one settles with anything but a session_busy refusal.
AnsweredOncePerKey ==
    \A q, r \in Runs :
        /\ q # r
        /\ KeyOf[q] = KeyOf[r]
        /\ isTerminal(q) /\ outcome[q].result # "busy"
        => ~(isTerminal(r) /\ outcome[r].result # "busy")

\* finalAttempt, computed from the claimed row before the turn, foretells what
\* a retryable failure of that turn does to the run: the turn writes its
\* failure into the conversation only if it believes it is the last one.
FinalAttemptForetold ==
    \A w \in Workers :
        LET f == worker[w] IN
        (f.pc = "retire" /\ HoldsLease(f.run, f.token)) =>
            (errorParks(f) <=> ~Requeues(f.seen, TRUE, TRUE))

\* The text a worker runs is the text of the row: no edit of a queued message
\* is accepted once a worker took it, on its first claim or a later one.
AcknowledgedEditIsRun ==
    \A w \in Workers :
        worker[w].run # NoRun => worker[w].text = text[worker[w].run]

\* A session lease taken by a turn that held its run does not outlive the run's
\* lease: by the time a run is claimable again or settled, the reaper or the
\* turn itself has released the session, so the retry is not refused as busy
\* because of its own dead predecessor (reaper.ts, reapExpired's onRetired).
\* The exception is a turn whose own cleanup failed (the finally block of
\* handleTurn): its retry may be refused until the session lease lapses.
SessionFreedBeforeRetry ==
    \A s \in Sessions :
        (sessionLease[s].holder = "turn" /\ cover[s] # NoRun) =>
            status[cover[s]] = "running"

\* A settled run is final: status, result and errors never change again.
SettledIsFinal ==
    [][\A r \in Runs : isTerminal(r) =>
          /\ status'[r] = status[r]
          /\ outcome'[r].result = outcome[r].result
          /\ errors'[r] = errors[r]]_vars

\* Seen from outside, a run is queued, runs, yields and settles, at most one
\* run of a conversation at a time and in the order they were submitted.
Phase(st) ==
    CASE st = "pending" -> "queued"
      [] st \in {"done", "failed"} -> "settled"
      [] OTHER -> st

Lifecycle == INSTANCE RunLifecycle WITH
    phase <- [r \in Runs |-> Phase(status[r])],
    position <- seq,
    next <- nextSeq

\* The queue, with its leases, workers and reapers, implements RunLifecycle.
ImplementsLifecycle == Lifecycle!Spec

\* Every submitted run is settled or withdrawn, whatever crashes, shutdowns
\* and lost statements come in between.
EventuallySettled ==
    \A r \in Runs : status[r] = "pending" ~>
                        (isTerminal(r) \/ status[r] = "withdrawn")
=============================================================================
