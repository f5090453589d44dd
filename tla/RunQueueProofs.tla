--------------------------- MODULE RunQueueProofs ---------------------------
(***************************************************************************)
(* Proofs about RunQueue, for any sets of runs, sessions, workers and      *)
(* reapers and any bounds.                                                 *)
(*                                                                         *)
(* The argument: whatever a worker, a reaper, a user or the clock does, it *)
(* touches the table of runs by at most one statement of RunStore          *)
(* (NextIsStoreStep), so the safety of the table is proved statement by    *)
(* statement.  The one fact about call frames this needs is that they name *)
(* runs (FramesNameRuns).  complete() compares tokens only, so that it     *)
(* settles nothing but a running run follows from LeasedIffRunning, which  *)
(* is inductive; SettledByLastLease, SettledIsFinal and the refinement of  *)
(* RunLifecycle rest on it.                                                *)
(***************************************************************************)
EXTENDS RunQueue, TLAPS

\* One statement of the store, with any arguments.
StoreStep ==
    \E r \in Runs :
        \/ enqueue(r) \/ claim(r) \/ noteTurnUserSeq(r)
        \/ LeaseLapses(r) \/ BackoffElapses(r)
        \/ \E n : editPendingText(r, n)
        \/ \E unstartedOnly : withdraw(r, unstartedOnly)
        \/ \E t : heartbeat(r, t) \/ releaseLease(r, t) \/ fence(r, t)
        \/ \E t : \E result \in Results : complete(r, t, result)
        \/ \E t, seen, retry, countsAsError : \E backoff \in BOOLEAN :
              retire(r, t, seen, retry, countsAsError, backoff)

\* Every statement of the store keeps the columns within their types.
LEMMA StoreTypeStep ==
    ASSUME StoreTypeOK, [StoreStep]_storeVars
    PROVE  StoreTypeOK'
<1> USE DEF StoreTypeOK, Statuses, Results, NoToken, Leased, HoldsLease,
            intake, leasing, budget
<1>1. CASE UNCHANGED storeVars
  BY <1>1 DEF storeVars
<1>2. ASSUME NEW r \in Runs, enqueue(r) PROVE StoreTypeOK'
  BY <1>2 DEF enqueue
<1>3. ASSUME NEW r \in Runs, claim(r) PROVE StoreTypeOK'
  BY <1>3 DEF claim, Mints
<1>4. ASSUME NEW r \in Runs, noteTurnUserSeq(r) PROVE StoreTypeOK'
  BY <1>4 DEF noteTurnUserSeq
<1>5. ASSUME NEW r \in Runs, LeaseLapses(r) \/ BackoffElapses(r) PROVE StoreTypeOK'
  <2>1. CASE LeaseLapses(r)
    BY <2>1 DEF LeaseLapses
  <2>2. CASE BackoffElapses(r)
    BY <2>2 DEF BackoffElapses
  <2>3. QED
    BY <1>5, <2>1, <2>2
<1>6. ASSUME NEW r \in Runs, NEW n, editPendingText(r, n) PROVE StoreTypeOK'
  BY <1>6 DEF editPendingText
<1>7. ASSUME NEW r \in Runs, NEW u, withdraw(r, u) PROVE StoreTypeOK'
  BY <1>7 DEF withdraw
<1>8. ASSUME NEW r \in Runs, NEW t, heartbeat(r, t) \/ releaseLease(r, t) \/ fence(r, t)
      PROVE StoreTypeOK'
  <2>1. runLease[r].token \in Nat /\ t = runLease[r].token
    BY <1>8 DEF heartbeat, releaseLease, fence
  <2>2. CASE heartbeat(r, t)
    BY <2>1, <2>2 DEF heartbeat
  <2>3. CASE releaseLease(r, t)
    BY <2>1, <2>3 DEF releaseLease
  <2>4. CASE fence(r, t)
    BY <2>4 DEF fence, Mints
  <2>5. QED
    BY <1>8, <2>2, <2>3, <2>4
<1>9. ASSUME NEW r \in Runs, NEW t, NEW result \in Results, complete(r, t, result)
      PROVE StoreTypeOK'
  BY <1>9 DEF complete, CompletionAccepted
<1>10. ASSUME NEW r \in Runs, NEW t, NEW seen, NEW retry, NEW c, NEW b \in BOOLEAN,
              retire(r, t, seen, retry, c, b)
       PROVE StoreTypeOK'
  <2>1. runLease[r].token \in Nat /\ t = runLease[r].token
    BY <1>10 DEF retire
  <2>2. errors' \in [Runs -> Nat]
    <3>1. Charge(c) \in Nat
      BY DEF Charge
    <3>2. errors' = [errors EXCEPT ![r] = errors[r] + Charge(c)]
      BY <1>10 DEF retire
    <3>3. QED
      BY <3>1, <3>2
  <2>3. outcome' \in [Runs -> [result : Results, by : Nat]]
    BY <1>10, <2>1 DEF retire
  <2>4. status' \in [Runs -> Statuses] /\ cooling' \in [Runs -> BOOLEAN]
    BY <1>10 DEF retire
  <2>5. runLease' \in [Runs -> [token : Nat, lapsed : BOOLEAN]]
    BY <1>10 DEF retire
  <2>6. UNCHANGED <<intake, minted, attempts>>
    BY <1>10 DEF retire
  <2>7. QED
    BY <2>2, <2>3, <2>4, <2>5, <2>6
<1>11. QED
  BY <1>1, <1>2, <1>3, <1>4, <1>5, <1>6, <1>7, <1>8, <1>9, <1>10 DEF StoreStep

-----------------------------------------------------------------------------

\* A frame that is past its claim (or its fence) names a run of the table, and
\* a turn ends with one of the known results.
FramesNameRuns ==
    /\ worker = [w \in Workers |-> worker[w]]
    /\ reaper = [p \in Reapers |-> reaper[p]]
    /\ \A w \in Workers :
          /\ worker[w].pc \notin {"idle", "down"} => worker[w].run \in Runs
          /\ worker[w].result \in Results
    /\ \A p \in Reapers :
          /\ reaper[p].pc \in {"release", "retire", "settle"} => reaper[p].run \in Runs
          /\ \A x \in reaper[p].todo : x.run \in Runs

\* Idle frames name nothing.
LEMMA FramesInit == Init => FramesNameRuns
  BY DEF Init, FramesNameRuns, IdleFrame, IdleSweep, Results

\* FramesNameRuns after one worker's frame is replaced.
LEMMA WorkerFrameStep ==
    ASSUME FramesNameRuns, UNCHANGED reaper, NEW w \in Workers, NEW f,
           worker' = [worker EXCEPT ![w] = f],
           f.pc \notin {"idle", "down"} => f.run \in Runs,
           f.result \in Results
    PROVE  FramesNameRuns'
  BY DEF FramesNameRuns

\* FramesNameRuns after one reaper's frame is replaced.
LEMMA SweepFrameStep ==
    ASSUME FramesNameRuns, UNCHANGED worker, NEW p \in Reapers, NEW f,
           reaper' = [reaper EXCEPT ![p] = f],
           f.pc \in {"release", "retire", "settle"} => f.run \in Runs,
           \A x \in f.todo : x.run \in Runs
    PROVE  FramesNameRuns'
  BY DEF FramesNameRuns

\* FramesNameRuns is inductive.
LEMMA FramesStep ==
    ASSUME FramesNameRuns, [Next]_vars
    PROVE  FramesNameRuns'
<1> USE DEF FramesNameRuns, Results
<1>1. CASE UNCHANGED <<worker, reaper>>
  BY <1>1
<1>2. ASSUME NEW w \in Workers, WorkerStep(w) PROVE FramesNameRuns'
  <2> USE DEF IdleFrame, DownFrame, Leave
  <2>1. UNCHANGED reaper
    BY <1>2 DEF WorkerStep, WorkerClaims, HeartbeatAlive, HeartbeatLost, HeartbeatError,
         TurnAcquires, TurnRefused, TurnAppends, TurnNotes, queueVars, TurnReturns, TurnThrows,
         TurnCleanupFails, Completes,
         CompletionRefused, CompletionErrs, WorkerSettles, FailReads, FailRetires,
         FailMisses, FailErrs, Shutdown, HandsBack, Crash, Restart
  <2>2. CASE \E r \in Runs : WorkerClaims(w, r)
    BY <2>1, <2>2 DEF WorkerClaims
  <2>3. CASE HeartbeatAlive(w) \/ HeartbeatLost(w) \/ HeartbeatError(w)
    <3>1. PICK n : worker' = [worker EXCEPT ![w] = [worker[w] EXCEPT !.lost = n]]
      BY <2>3 DEF HeartbeatAlive, HeartbeatLost, HeartbeatError
    <3>2. worker[w].run \in Runs /\ worker[w].result \in Results
      BY <2>3 DEF HeartbeatAlive, HeartbeatLost, HeartbeatError, Beats
    <3>3. QED
      BY <2>1, <3>1, <3>2, WorkerFrameStep
  <2>4. CASE TurnAcquires(w) \/ TurnAppends(w)
    <3>1. worker[w].run \in Runs /\ worker[w].result \in Results
      BY <2>4 DEF TurnAcquires, TurnAppends
    <3>2. PICK n : \/ worker' = [worker EXCEPT ![w] = [worker[w] EXCEPT !.lease = n]]
                   \/ worker' = [worker EXCEPT ![w] = [worker[w] EXCEPT !.appended = n]]
      BY <2>4 DEF TurnAcquires, TurnAppends
    <3>3. CASE worker' = [worker EXCEPT ![w] = [worker[w] EXCEPT !.lease = n]]
      BY <2>1, <3>1, <3>3, WorkerFrameStep
    <3>4. CASE worker' = [worker EXCEPT ![w] = [worker[w] EXCEPT !.appended = n]]
      BY <2>1, <3>1, <3>4, WorkerFrameStep
    <3>5. QED
      BY <3>2, <3>3, <3>4
  <2>5. CASE TurnRefused(w)
    BY <2>1, <2>5 DEF TurnRefused
  <2>6. CASE TurnReturns(w)
    BY <2>1, <2>6 DEF TurnReturns
  <2>7. CASE TurnCleanupFails(w) \/ \E retry \in BOOLEAN : TurnThrows(w, retry)
    <3>1. CASE TurnCleanupFails(w)
      BY <2>1, <3>1 DEF TurnCleanupFails
    <3>2. CASE \E retry \in BOOLEAN : TurnThrows(w, retry)
      BY <2>1, <3>2 DEF TurnThrows
    <3>3. QED
      BY <2>7, <3>1, <3>2
  <2>8. CASE Completes(w) \/ CompletionRefused(w) \/ CompletionErrs(w)
    <3>1. worker[w].run \in Runs /\ worker[w].result \in Results
      BY <2>8 DEF Completes, CompletionRefused, CompletionErrs
    <3>2. PICK c : worker' = [worker EXCEPT ![w] = [worker[w] EXCEPT !.pc = c]]
      BY <2>8 DEF Completes, CompletionRefused, CompletionErrs
    <3>3. QED
      BY <2>1, <3>1, <3>2, WorkerFrameStep
  <2>9. CASE WorkerSettles(w) \/ FailMisses(w) \/ FailErrs(w)
    <3>1. worker[w].run \in Runs /\ worker[w].result \in Results
      BY <2>9 DEF WorkerSettles, FailMisses, FailErrs
    <3>2. worker' = [worker EXCEPT ![w] = Leave(worker[w])]
      BY <2>9 DEF WorkerSettles, FailMisses, FailErrs
    <3>3. Leave(worker[w]).result \in Results
      BY <3>1
    <3>4. Leave(worker[w]).pc \notin {"idle", "down"} => Leave(worker[w]).run \in Runs
      BY <3>1
    <3>5. QED
      BY <2>1, <3>2, <3>3, <3>4, WorkerFrameStep
  <2>10. CASE FailReads(w) \/ FailRetires(w)
    <3>1. worker[w].run \in Runs /\ worker[w].result \in Results
      BY <2>10 DEF FailReads, FailRetires
    <3>2. PICK b : \/ worker' = [worker EXCEPT ![w] = Leave(worker[w])]
                   \/ worker' = [worker EXCEPT ![w] = [worker[w] EXCEPT !.pc = "retire", !.seen = b]]
                   \/ worker' = [worker EXCEPT ![w] = [worker[w] EXCEPT !.pc = "settle"]]
      BY <2>10 DEF FailReads, FailRetires
    <3>3. CASE worker' = [worker EXCEPT ![w] = Leave(worker[w])]
      <4>1. /\ Leave(worker[w]).result \in Results
            /\ Leave(worker[w]).pc \notin {"idle", "down"} => Leave(worker[w]).run \in Runs
        BY <3>1
      <4>2. QED
        BY <2>1, <3>3, <4>1, WorkerFrameStep
    <3>4. CASE worker' = [worker EXCEPT ![w] = [worker[w] EXCEPT !.pc = "retire", !.seen = b]]
      BY <2>1, <3>1, <3>4, WorkerFrameStep
    <3>5. CASE worker' = [worker EXCEPT ![w] = [worker[w] EXCEPT !.pc = "settle"]]
      BY <2>1, <3>1, <3>5, WorkerFrameStep
    <3>6. QED
      BY <3>2, <3>3, <3>4, <3>5
  <2>11. CASE TurnNotes(w)
    <3>1. UNCHANGED <<worker, reaper>>
      BY <2>11 DEF TurnNotes, queueVars
    <3>2. QED
      BY <3>1
  <2>12. CASE Shutdown(w)
    <3>1. /\ worker[w].result \in Results
          /\ worker[w].pc # "idle" => worker[w].run \in Runs
      BY <2>12 DEF Shutdown
    <3>2. \/ worker' = [worker EXCEPT ![w] = DownFrame]
          \/ /\ worker[w].pc # "idle"
             /\ worker' = [worker EXCEPT ![w] = [worker[w] EXCEPT !.shutdown = TRUE]]
      BY <2>12 DEF Shutdown
    <3>3. CASE worker' = [worker EXCEPT ![w] = DownFrame]
      BY <2>1, <3>3, WorkerFrameStep
    <3>4. CASE /\ worker[w].pc # "idle"
               /\ worker' = [worker EXCEPT ![w] = [worker[w] EXCEPT !.shutdown = TRUE]]
      <4>1. worker[w].run \in Runs
        BY <3>1, <3>4
      <4> DEFINE f == [worker[w] EXCEPT !.shutdown = TRUE]
      <4>2. f.result = worker[w].result /\ f.run = worker[w].run
        OBVIOUS
      <4>3. worker' = [worker EXCEPT ![w] = f]
        BY <3>4
      <4> HIDE DEF f
      <4>4. QED
        BY <2>1, <3>1, <4>1, <4>2, <4>3, WorkerFrameStep
    <3>5. QED
      BY <3>2, <3>3, <3>4
  <2>13. CASE HandsBack(w) \/ Crash(w) \/ Restart(w)
    BY <2>1, <2>13 DEF HandsBack, Crash, Restart
  <2>14. QED
    BY <1>2, <2>2, <2>3, <2>4, <2>5, <2>6, <2>7, <2>8, <2>9, <2>10, <2>11, <2>12, <2>13
       DEF WorkerStep
<1>3. ASSUME NEW p \in Reapers, ReaperStep(p) PROVE FramesNameRuns'
  <2> USE DEF IdleSweep, NextOfSweep
  <2>1. UNCHANGED worker
    BY <1>3 DEF ReaperStep, ReaperSelects, ReaperFences, ReaperSkips, ReaperReleases,
         ReaperRetires, ReaperMisses, ReaperSettles, ReaperEnds, ReaperFails
  <2>2. CASE ReaperSelects(p)
    <3>1. PICK old \in SUBSET Expired :
              reaper' = [reaper EXCEPT ![p] = [IdleSweep EXCEPT !.pc = "fence",
                !.todo = {[run |-> r, token |-> runLease[r].token,
                           seen |-> budgetOf(r), tooOld |-> r \in old] : r \in Expired}]]
      BY <2>2, Zenon DEF ReaperSelects
    <3> DEFINE rows == {[run |-> r, token |-> runLease[r].token,
                         seen |-> budgetOf(r), tooOld |-> r \in old] : r \in Expired}
    <3>2. \A x \in rows : x.run \in Runs
      BY DEF Expired
    <3>3. reaper' = [reaper EXCEPT ![p] = [IdleSweep EXCEPT !.pc = "fence", !.todo = rows]]
      BY <3>1
    <3> HIDE DEF rows
    <3>4. QED
      BY <2>1, <3>2, <3>3, SweepFrameStep
  <2>3. CASE ReaperFences(p)
    <3>1. PICK x \in reaper[p].todo : reaper' = [reaper EXCEPT ![p] =
              [pc |-> "release", todo |-> reaper[p].todo \ {x}, run |-> x.run,
               fence |-> runLease'[x.run].token, seen |-> x.seen,
               tooOld |-> x.tooOld]]
      BY <2>3 DEF ReaperFences
    <3>2. QED
      BY <2>1, <3>1, SweepFrameStep
  <2>4. CASE ReaperSkips(p)
    <3>1. PICK x \in reaper[p].todo : /\ reaper[p].pc = "fence"
              /\ reaper' = [reaper EXCEPT ![p] = [reaper[p] EXCEPT !.todo = reaper[p].todo \ {x}]]
      BY <2>4 DEF ReaperSkips
    <3> DEFINE f == [reaper[p] EXCEPT !.todo = reaper[p].todo \ {x}]
    <3>2. f.pc = "fence" /\ \A y \in f.todo : y.run \in Runs
      BY <3>1
    <3>3. reaper' = [reaper EXCEPT ![p] = f]
      BY <3>1
    <3> HIDE DEF f
    <3>4. QED
      BY <2>1, <3>2, <3>3, SweepFrameStep
  <2>5. CASE ReaperReleases(p)
    BY <2>1, <2>5 DEF ReaperReleases
  <2>6. ASSUME reaper' = [reaper EXCEPT ![p] = NextOfSweep(reaper[p])]
        PROVE  FramesNameRuns'
    <3>1. /\ NextOfSweep(reaper[p]).pc = "fence"
          /\ \A x \in NextOfSweep(reaper[p]).todo : x.run \in Runs
      OBVIOUS
    <3>2. QED
      BY <2>1, <2>6, <3>1, SweepFrameStep
  <2>7. CASE ReaperRetires(p)
    <3>1. reaper[p].run \in Runs
      BY <2>7 DEF ReaperRetires
    <3>2. CASE reaper' = [reaper EXCEPT ![p] = [reaper[p] EXCEPT !.pc = "settle"]]
      <4> DEFINE f == [reaper[p] EXCEPT !.pc = "settle"]
      <4>1. f.run \in Runs /\ \A x \in f.todo : x.run \in Runs
        BY <3>1
      <4> HIDE DEF f
      <4>2. QED
        BY <2>1, <3>2, <4>1, SweepFrameStep DEF f
    <3>3. QED
      BY <2>6, <2>7, <3>2 DEF ReaperRetires
  <2>8. CASE ReaperMisses(p) \/ ReaperSettles(p)
    BY <2>6, <2>8 DEF ReaperMisses, ReaperSettles
  <2>9. CASE ReaperEnds(p) \/ ReaperFails(p)
    <3>1. reaper' = [reaper EXCEPT ![p] = IdleSweep]
      BY <2>9 DEF ReaperEnds, ReaperFails
    <3>2. QED
      BY <2>1, <3>1, SweepFrameStep
  <2>10. QED
    BY <1>3, <2>2, <2>3, <2>4, <2>5, <2>7, <2>8, <2>9 DEF ReaperStep
<1>4. CASE UserStep
  BY <1>1, <1>4 DEF UserStep, Enqueue, Withdraw, Edit, Steer, queueVars
<1>5. CASE TimeStep
  BY <1>1, <1>5 DEF TimeStep, LapseAbandoned, LapseStalled, CoolsDown, SessionLapses, queueVars
<1>6. CASE CompactionStep
  BY <1>1, <1>6 DEF CompactionStep, CompactionAcquires, CompactionEnds
<1>7. CASE UNCHANGED vars
  BY <1>1, <1>7 DEF vars
<1>8. QED
  BY <1>2, <1>3, <1>4, <1>5, <1>6, <1>7 DEF Next

\* A step of the system is at most one statement on the table of runs.
LEMMA NextIsStoreStep ==
    ASSUME FramesNameRuns, [Next]_vars
    PROVE  [StoreStep]_storeVars
<1>1. CASE UNCHANGED vars
  BY <1>1 DEF vars, storeVars
<1>2. ASSUME NEW w \in Workers, WorkerStep(w) PROVE [StoreStep]_storeVars
  <2>1. CASE \E r \in Runs : WorkerClaims(w, r)
    BY <2>1 DEF WorkerClaims, StoreStep
  <2>2. CASE HeartbeatAlive(w)
    BY <2>2 DEF HeartbeatAlive, Beats, StoreStep, FramesNameRuns
  <2>3. CASE TurnNotes(w)
    BY <2>3 DEF TurnNotes, StoreStep, FramesNameRuns
  <2>4. CASE Completes(w) \/ CompletionErrs(w)
    BY <2>4 DEF Completes, CompletionErrs, StoreStep, FramesNameRuns
  <2>5. CASE FailRetires(w)
    BY <2>5 DEF FailRetires, StoreStep, FramesNameRuns
  <2>6. CASE HandsBack(w)
    BY <2>6 DEF HandsBack, StoreStep, FramesNameRuns
  <2>7. CASE HeartbeatLost(w) \/ HeartbeatError(w) \/ TurnAcquires(w) \/ TurnRefused(w)
             \/ TurnAppends(w) \/ TurnReturns(w) \/ TurnCleanupFails(w)
             \/ \E retry \in BOOLEAN : TurnThrows(w, retry)
    BY <2>7 DEF HeartbeatLost, HeartbeatError, TurnAcquires, TurnRefused, TurnAppends,
         TurnReturns, TurnThrows, TurnCleanupFails
  <2>8. CASE CompletionRefused(w) \/ WorkerSettles(w) \/ FailReads(w) \/ FailMisses(w)
             \/ FailErrs(w) \/ Shutdown(w) \/ Crash(w) \/ Restart(w)
    BY <2>8 DEF CompletionRefused, WorkerSettles, FailReads, FailMisses, FailErrs, Shutdown,
         Crash, Restart
  <2>9. QED
    BY <1>2, <2>1, <2>2, <2>3, <2>4, <2>5, <2>6, <2>7, <2>8 DEF WorkerStep
<1>3. ASSUME NEW p \in Reapers, ReaperStep(p) PROVE [StoreStep]_storeVars
  <2>1. CASE ReaperFences(p)
    BY <2>1 DEF ReaperFences, StoreStep, FramesNameRuns
  <2>2. CASE ReaperRetires(p)
    BY <2>2 DEF ReaperRetires, StoreStep, FramesNameRuns
  <2>3. CASE ReaperSelects(p) \/ ReaperSkips(p) \/ ReaperReleases(p) \/ ReaperMisses(p)
             \/ ReaperSettles(p) \/ ReaperEnds(p) \/ ReaperFails(p)
    BY <2>3 DEF ReaperSelects, ReaperSkips, ReaperReleases, ReaperMisses, ReaperSettles,
         ReaperEnds, ReaperFails
  <2>4. QED
    BY <1>3, <2>1, <2>2, <2>3 DEF ReaperStep
<1>4. CASE UserStep
  BY <1>4 DEF UserStep, Enqueue, Withdraw, Edit, Steer, steerQueued, StoreStep
<1>5. CASE TimeStep
  BY <1>5 DEF TimeStep, LapseAbandoned, LapseStalled, CoolsDown, SessionLapses, StoreStep
<1>6. CASE CompactionStep
  BY <1>6 DEF CompactionStep, CompactionAcquires, CompactionEnds
<1>7. QED
  BY <1>1, <1>2, <1>3, <1>4, <1>5, <1>6 DEF Next

-----------------------------------------------------------------------------

\* LeasedIffRunning is kept by every statement: claim and fence mint, and
\* whatever takes a row out of "running" clears its token.
LEMMA LeasedStep ==
    ASSUME StoreTypeOK, LeasedIffRunning, [StoreStep]_storeVars
    PROVE  LeasedIffRunning'
<1> USE DEF LeasedIffRunning, StoreTypeOK, NoToken, Leased
<1>1. CASE UNCHANGED storeVars
  BY <1>1 DEF storeVars
<1>2. ASSUME NEW r \in Runs, enqueue(r) PROVE LeasedIffRunning'
  BY <1>2 DEF enqueue, leasing
<1>3. ASSUME NEW r \in Runs, claim(r) PROVE LeasedIffRunning'
  BY <1>3 DEF claim, Mints
<1>4. ASSUME NEW r \in Runs, noteTurnUserSeq(r) PROVE LeasedIffRunning'
  BY <1>4 DEF noteTurnUserSeq, leasing
<1>5. ASSUME NEW r \in Runs, LeaseLapses(r) PROVE LeasedIffRunning'
  BY <1>5 DEF LeaseLapses
<1>6. ASSUME NEW r \in Runs, BackoffElapses(r) PROVE LeasedIffRunning'
  BY <1>6 DEF BackoffElapses, leasing
<1>7. ASSUME NEW r \in Runs, NEW n, editPendingText(r, n) PROVE LeasedIffRunning'
  BY <1>7 DEF editPendingText, leasing
<1>8. ASSUME NEW r \in Runs, NEW u, withdraw(r, u) PROVE LeasedIffRunning'
  BY <1>8 DEF withdraw, leasing
<1>9. ASSUME NEW r \in Runs, NEW t, heartbeat(r, t) PROVE LeasedIffRunning'
  BY <1>9 DEF heartbeat, HoldsLease
<1>10. ASSUME NEW r \in Runs, NEW t, releaseLease(r, t) PROVE LeasedIffRunning'
  BY <1>10 DEF releaseLease
<1>11. ASSUME NEW r \in Runs, NEW t, fence(r, t) PROVE LeasedIffRunning'
  BY <1>11 DEF fence, HoldsLease, Mints
<1>12. ASSUME NEW r \in Runs, NEW t, NEW result \in Results, complete(r, t, result)
       PROVE LeasedIffRunning'
  BY <1>12 DEF complete
<1>13. ASSUME NEW r \in Runs, NEW t, NEW seen, NEW retry, NEW c, NEW b \in BOOLEAN,
              retire(r, t, seen, retry, c, b)
       PROVE LeasedIffRunning'
  BY <1>13 DEF retire
<1>14. QED
  BY <1>1, <1>2, <1>3, <1>4, <1>5, <1>6, <1>7, <1>8, <1>9, <1>10, <1>11, <1>12, <1>13
     DEF StoreStep

\* SettledByLastLease is kept: only the holder of the current token settles a
\* row, and no token is minted for a settled row.
LEMMA SettledStep ==
    ASSUME StoreTypeOK, LeasedIffRunning, SettledByLastLease, [StoreStep]_storeVars
    PROVE  SettledByLastLease'
<1> USE DEF SettledByLastLease, isTerminal, LeasedIffRunning, StoreTypeOK
<1>1. CASE UNCHANGED storeVars
  BY <1>1 DEF storeVars
<1>2. ASSUME NEW r \in Runs, enqueue(r) PROVE SettledByLastLease'
  BY <1>2 DEF enqueue, leasing
<1>3. ASSUME NEW r \in Runs, claim(r) PROVE SettledByLastLease'
  BY <1>3 DEF claim, Claimable, Mints
<1>4. ASSUME NEW r \in Runs, noteTurnUserSeq(r) PROVE SettledByLastLease'
  BY <1>4 DEF noteTurnUserSeq, leasing
<1>5. ASSUME NEW r \in Runs, LeaseLapses(r) \/ BackoffElapses(r) PROVE SettledByLastLease'
  BY <1>5 DEF LeaseLapses, BackoffElapses, leasing
<1>6. ASSUME NEW r \in Runs, NEW n, editPendingText(r, n) PROVE SettledByLastLease'
  BY <1>6 DEF editPendingText, leasing
<1>7. ASSUME NEW r \in Runs, NEW u, withdraw(r, u) PROVE SettledByLastLease'
  BY <1>7 DEF withdraw, leasing
<1>8. ASSUME NEW r \in Runs, NEW t, heartbeat(r, t) \/ releaseLease(r, t)
      PROVE SettledByLastLease'
  BY <1>8 DEF heartbeat, releaseLease
<1>9. ASSUME NEW r \in Runs, NEW t, fence(r, t) PROVE SettledByLastLease'
  BY <1>9 DEF fence, HoldsLease, Mints
<1>10. ASSUME NEW r \in Runs, NEW t, NEW result \in Results, complete(r, t, result)
       PROVE SettledByLastLease'
  <2>1. t = minted[r]
    BY <1>10 DEF complete, CompletionAccepted, NoToken
  <2>2. QED
    BY <1>10, <2>1 DEF complete
<1>11. ASSUME NEW r \in Runs, NEW t, NEW seen, NEW retry, NEW c, NEW b \in BOOLEAN,
              retire(r, t, seen, retry, c, b)
       PROVE SettledByLastLease'
  <2>1. t = minted[r]
    BY <1>11 DEF retire, HoldsLease
  <2>2. QED
    BY <1>11, <2>1 DEF retire
<1>12. QED
  BY <1>1, <1>2, <1>3, <1>4, <1>5, <1>6, <1>7, <1>8, <1>9, <1>10, <1>11 DEF StoreStep

\* OneRunningPerSession is kept: claim is the only statement that makes a row
\* running, and it finds no running sibling.
LEMMA OneRunningStep ==
    ASSUME StoreTypeOK, OneRunningPerSession, [StoreStep]_storeVars
    PROVE  OneRunningPerSession'
<1> USE DEF OneRunningPerSession, StoreTypeOK
<1>1. CASE UNCHANGED status
  BY <1>1
<1>2. ASSUME NEW r \in Runs, claim(r) PROVE OneRunningPerSession'
  BY <1>2 DEF claim, Claimable, Siblings
<1>3. ASSUME NEW r \in Runs, NEW v, v # "running", status' = [status EXCEPT ![r] = v]
      PROVE OneRunningPerSession'
  BY <1>3
<1>4. ASSUME NEW r \in Runs, enqueue(r) PROVE OneRunningPerSession'
  BY <1>3, <1>4 DEF enqueue
<1>5. ASSUME NEW r \in Runs, NEW u, withdraw(r, u) PROVE OneRunningPerSession'
  BY <1>3, <1>5 DEF withdraw
<1>6. ASSUME NEW r \in Runs, NEW t, releaseLease(r, t) PROVE OneRunningPerSession'
  BY <1>3, <1>6 DEF releaseLease
<1>7. ASSUME NEW r \in Runs, NEW t, NEW result \in Results, complete(r, t, result)
      PROVE OneRunningPerSession'
  BY <1>3, <1>7 DEF complete
<1>8. ASSUME NEW r \in Runs, NEW t, NEW seen, NEW retry, NEW c, NEW b \in BOOLEAN,
             retire(r, t, seen, retry, c, b)
      PROVE OneRunningPerSession'
  BY <1>3, <1>8 DEF retire
<1>9. ASSUME NEW r \in Runs,
             \/ noteTurnUserSeq(r) \/ LeaseLapses(r) \/ BackoffElapses(r)
             \/ \E n : editPendingText(r, n)
             \/ \E t : heartbeat(r, t) \/ fence(r, t)
      PROVE UNCHANGED status
  BY <1>9 DEF noteTurnUserSeq, LeaseLapses, BackoffElapses, editPendingText, heartbeat, fence
<1>10. CASE UNCHANGED storeVars
  BY <1>1, <1>10 DEF storeVars
<1>11. QED
  BY <1>1, <1>2, <1>4, <1>5, <1>6, <1>7, <1>8, <1>9, <1>10 DEF StoreStep

\* A settled row has no token, so no guarded statement matches it again.
LEMMA SettledFinalStep ==
    ASSUME StoreTypeOK, LeasedIffRunning, [StoreStep]_storeVars,
           NEW q \in Runs, isTerminal(q)
    PROVE  /\ status'[q] = status[q]
           /\ outcome'[q].result = outcome[q].result
           /\ errors'[q] = errors[q]
<1> USE DEF isTerminal, LeasedIffRunning, StoreTypeOK
<1>1. CASE UNCHANGED <<status, outcome, errors>>
  BY <1>1
<1>2. ASSUME NEW r \in Runs, r # q,
             \/ \E v : status' = [status EXCEPT ![r] = v]
             \/ status' = status,
             \/ \E v : outcome' = [outcome EXCEPT ![r] = v]
             \/ outcome' = outcome,
             \/ \E v : errors' = [errors EXCEPT ![r] = v]
             \/ errors' = errors
      PROVE /\ status'[q] = status[q]
            /\ outcome'[q].result = outcome[q].result
            /\ errors'[q] = errors[q]
  BY <1>2
<1>3. ASSUME NEW r \in Runs, enqueue(r) \/ claim(r)
      PROVE r # q /\ status' = [status EXCEPT ![r] = status'[r]] /\ UNCHANGED <<outcome, errors>>
  BY <1>3 DEF enqueue, claim, Claimable, budget
<1>4. ASSUME NEW r \in Runs, NEW u, withdraw(r, u)
      PROVE r # q /\ status' = [status EXCEPT ![r] = status'[r]] /\ UNCHANGED <<outcome, errors>>
  BY <1>4 DEF withdraw, budget
<1>5. ASSUME NEW r \in Runs, NEW t, releaseLease(r, t)
      PROVE r # q /\ status' = [status EXCEPT ![r] = status'[r]] /\ UNCHANGED <<outcome, errors>>
  BY <1>5 DEF releaseLease, HoldsLease, budget
<1>6. ASSUME NEW r \in Runs, NEW t, NEW result \in Results, complete(r, t, result)
      PROVE /\ r # q
            /\ status' = [status EXCEPT ![r] = "done"]
            /\ \E v : outcome' = [outcome EXCEPT ![r] = v]
            /\ UNCHANGED errors
  BY <1>6 DEF complete, CompletionAccepted, budget, NoToken
<1>7. ASSUME NEW r \in Runs, NEW t, NEW seen, NEW retry, NEW c, NEW b \in BOOLEAN,
             retire(r, t, seen, retry, c, b)
      PROVE /\ r # q
            /\ \E v : status' = [status EXCEPT ![r] = v]
            /\ (\E v : outcome' = [outcome EXCEPT ![r] = v]) \/ UNCHANGED outcome
            /\ \E v : errors' = [errors EXCEPT ![r] = v]
  BY <1>7 DEF retire, HoldsLease
<1>8. ASSUME NEW r \in Runs,
             \/ noteTurnUserSeq(r) \/ LeaseLapses(r) \/ BackoffElapses(r)
             \/ \E n : editPendingText(r, n)
             \/ \E t : heartbeat(r, t) \/ fence(r, t)
      PROVE UNCHANGED <<status, outcome, errors>>
  BY <1>8 DEF noteTurnUserSeq, LeaseLapses, BackoffElapses, editPendingText, heartbeat,
     fence, budget
<1>9. CASE UNCHANGED storeVars
  BY <1>1, <1>9 DEF storeVars
<1>10. CASE StoreStep
  <2>1. PICK r \in Runs :
        \/ enqueue(r) \/ claim(r) \/ noteTurnUserSeq(r)
        \/ LeaseLapses(r) \/ BackoffElapses(r)
        \/ \E n : editPendingText(r, n)
        \/ \E unstartedOnly : withdraw(r, unstartedOnly)
        \/ \E t : heartbeat(r, t) \/ releaseLease(r, t) \/ fence(r, t)
        \/ \E t : \E result \in Results : complete(r, t, result)
        \/ \E t, seen, retry, countsAsError : \E backoff \in BOOLEAN :
              retire(r, t, seen, retry, countsAsError, backoff)
    BY <1>10 DEF StoreStep
  <2>2. CASE \/ enqueue(r) \/ claim(r)
             \/ \E u : withdraw(r, u)
             \/ \E t : releaseLease(r, t)
    BY <1>2, <1>3, <1>4, <1>5, <2>2
  <2>3. CASE \E t : \E result \in Results : complete(r, t, result)
    BY <1>2, <1>6, <2>3
  <2>4. CASE \E t, seen, retry, countsAsError : \E backoff \in BOOLEAN :
              retire(r, t, seen, retry, countsAsError, backoff)
    BY <1>2, <1>7, <2>4
  <2>5. CASE \/ noteTurnUserSeq(r) \/ LeaseLapses(r) \/ BackoffElapses(r)
             \/ \E n : editPendingText(r, n)
             \/ \E t : heartbeat(r, t) \/ fence(r, t)
    BY <1>1, <1>8, <2>5
  <2>6. QED
    BY <2>1, <2>2, <2>3, <2>4, <2>5
<1>11. QED
  BY <1>9, <1>10

-----------------------------------------------------------------------------

\* The inductive invariant.
SafetyInv ==
    /\ FramesNameRuns
    /\ StoreTypeOK
    /\ LeasedIffRunning
    /\ SettledByLastLease
    /\ OneRunningPerSession

\* The empty table satisfies the invariant.
LEMMA SafetyInit == Init => SafetyInv
<1> SUFFICES ASSUME Init PROVE SafetyInv
  OBVIOUS
<1> USE DEF Init, StoreInit, Leased, NoToken, NoResult
<1>1. StoreTypeOK
  BY DEF StoreTypeOK, Statuses, Results
<1>2. LeasedIffRunning /\ SettledByLastLease /\ OneRunningPerSession
  BY DEF LeasedIffRunning, SettledByLastLease, isTerminal, OneRunningPerSession
<1>3. QED
  BY <1>1, <1>2, FramesInit DEF SafetyInv

\* The inductive invariant holds in every behaviour of the queue.
THEOREM SafetyInvariant == Spec => []SafetyInv
<1>1. SafetyInv /\ [Next]_vars => SafetyInv'
  BY FramesStep, NextIsStoreStep, StoreTypeStep, LeasedStep, SettledStep, OneRunningStep
     DEF SafetyInv
<1>2. QED
  BY SafetyInit, <1>1, PTL DEF Spec

\* The columns of the runs table keep their types, whatever interleaving of
\* claims, heartbeats, completions, failures and reaps (postgres-run-store.ts).
THEOREM StoreTypeCorrect == Spec => []StoreTypeOK
  BY SafetyInvariant, PTL DEF SafetyInv

\* A row carries its last minted token exactly while it runs, for any number of
\* runs, workers and overlapping reaper sweeps.
THEOREM LeasedIffRunningHolds == Spec => []LeasedIffRunning
  BY SafetyInvariant, PTL DEF SafetyInv

\* No two runs of one conversation run at the same time.
THEOREM OneRunningPerSessionHolds == Spec => []OneRunningPerSession
  BY SafetyInvariant, PTL DEF SafetyInv

\* A run is settled by the holder of the last lease given on it, never by a
\* worker whose lease was fenced, retired or handed back.
THEOREM SettledByLastLeaseHolds == Spec => []SettledByLastLease
  BY SafetyInvariant, PTL DEF SafetyInv

\* Nothing changes the status, the result or the error count of a settled run.
THEOREM SettledIsFinalHolds == Spec => SettledIsFinal
<1>1. SafetyInv /\ [Next]_vars =>
          [\A r \in Runs : isTerminal(r) =>
              /\ status'[r] = status[r]
              /\ outcome'[r].result = outcome[r].result
              /\ errors'[r] = errors[r]]_vars
  BY NextIsStoreStep, SettledFinalStep DEF SafetyInv
<1>2. QED
  BY <1>1, SafetyInvariant, PTL DEF Spec, SettledIsFinal

-----------------------------------------------------------------------------

\* The queue implements RunLifecycle: in each conversation one run at a time,
\* in submission order, each settled at most once.
THEOREM Refinement == Spec => ImplementsLifecycle
<1>1. Init => Lifecycle!Init
  BY DEF Init, StoreInit, Lifecycle!Init, Phase
<1>2. ASSUME StoreTypeOK, LeasedIffRunning, [StoreStep]_storeVars
      PROVE  [Lifecycle!Next]_(Lifecycle!lifecycleVars)
  <2> USE DEF StoreTypeOK, LeasedIffRunning, NoToken, Statuses
  <2> DEFINE phase == [r \in Runs |-> Phase(status[r])]
  <2>1. CASE UNCHANGED <<status, seq, nextSeq>>
    BY <2>1 DEF Lifecycle!lifecycleVars
  <2>2. ASSUME NEW r \in Runs, NEW v \in Statuses, status' = [status EXCEPT ![r] = v]
        PROVE  phase' = [phase EXCEPT ![r] = Phase(v)]
    <3>1. \A q \in Runs : status'[q] = IF q = r THEN v ELSE status[q]
      BY <1>2, <2>2
    <3>2. phase' = [q \in Runs |-> Phase(status'[q])]
      OBVIOUS
    <3>3. [phase EXCEPT ![r] = Phase(v)] = [q \in Runs |-> IF q = r THEN Phase(v) ELSE phase[q]]
      OBVIOUS
    <3>4. \A q \in Runs : Phase(status'[q]) = IF q = r THEN Phase(v) ELSE phase[q]
      BY <3>1
    <3>5. QED
      BY <3>2, <3>3, <3>4, Zenon
  <2>3. ASSUME NEW r \in Runs, enqueue(r) PROVE Lifecycle!Submit(r)
    BY <1>2, <2>2, <2>3 DEF enqueue, Lifecycle!Submit, Phase
  <2>4. ASSUME NEW r \in Runs, NEW u, withdraw(r, u) PROVE Lifecycle!Withdraw(r)
    BY <1>2, <2>2, <2>4 DEF withdraw, intake, Lifecycle!Withdraw, Phase
  <2>5. ASSUME NEW r \in Runs, claim(r) PROVE Lifecycle!Start(r)
    <3>1. Lifecycle!Turn(r)
      <4>1. SUFFICES ASSUME NEW q \in Runs, q # r, SessionOf[q] = SessionOf[r]
                     PROVE  /\ Phase(status[q]) # "running"
                            /\ Phase(status[q]) = "queued" => seq[q] > seq[r]
        BY DEF Lifecycle!Turn
      <4>2. Claimable(r)
        BY <2>5 DEF claim
      <4>3. status[q] # "running" /\ (status[q] = "pending" => seq[q] > seq[r])
        BY <4>1, <4>2 DEF Claimable, Siblings
      <4>4. Phase(status[q]) # "running"
        BY <1>2, <4>3 DEF Phase
      <4>5. Phase(status[q]) = "queued" => status[q] = "pending"
        BY <1>2 DEF Phase
      <4>6. QED
        BY <4>3, <4>4, <4>5
    <3>2. QED
      BY <1>2, <2>2, <2>5, <3>1 DEF claim, Claimable, intake, Lifecycle!Start, Phase
  <2>6. ASSUME NEW r \in Runs, NEW t, releaseLease(r, t) PROVE Lifecycle!Yield(r)
    BY <1>2, <2>2, <2>6 DEF releaseLease, HoldsLease, intake, Lifecycle!Yield, Phase
  <2>7. ASSUME NEW r \in Runs, NEW t, NEW result \in Results, complete(r, t, result)
        PROVE Lifecycle!Settle(r)
    <3>1. status[r] = "running"
      BY <1>2, <2>7 DEF complete, CompletionAccepted
    <3>2. phase' = [phase EXCEPT ![r] = "settled"] /\ UNCHANGED <<seq, nextSeq>>
      BY <1>2, <2>2, <2>7 DEF complete, Phase
    <3>3. QED
      BY <3>1, <3>2 DEF Lifecycle!Settle, Phase
  <2>8. ASSUME NEW r \in Runs, NEW t, NEW seen, NEW retry, NEW c, NEW b \in BOOLEAN,
               retire(r, t, seen, retry, c, b)
        PROVE Lifecycle!Yield(r) \/ Lifecycle!Settle(r)
    BY <1>2, <2>2, <2>8 DEF retire, HoldsLease, intake, Lifecycle!Yield, Lifecycle!Settle, Phase
  <2>9. ASSUME NEW r \in Runs,
             \/ noteTurnUserSeq(r) \/ LeaseLapses(r) \/ BackoffElapses(r)
             \/ \E n : editPendingText(r, n)
             \/ \E t : heartbeat(r, t) \/ fence(r, t)
        PROVE UNCHANGED <<status, seq, nextSeq>>
    BY <2>9 DEF noteTurnUserSeq, LeaseLapses, BackoffElapses, editPendingText, heartbeat,
       fence, intake
  <2>10. CASE UNCHANGED storeVars
    BY <2>1, <2>10 DEF storeVars
  <2>11. QED
    BY <1>2, <2>1, <2>3, <2>4, <2>5, <2>6, <2>7, <2>8, <2>9, <2>10
       DEF StoreStep, Lifecycle!Next
<1>3. SafetyInv /\ [Next]_vars => [Lifecycle!Next]_(Lifecycle!lifecycleVars)
  BY <1>2, NextIsStoreStep DEF SafetyInv
<1>4. QED
  BY <1>1, <1>3, SafetyInvariant, PTL DEF Spec, ImplementsLifecycle, Lifecycle!Spec
=============================================================================
