-------------------------- MODULE RunFramesProofs ---------------------------
(***************************************************************************)
(* Proofs about what workers and reapers know, on top of RunQueueProofs:   *)
(* the call frames, the sessions' leases and logs, and the notifications.  *)
(***************************************************************************)
EXTENDS RunQueueProofs

\* What a worker's frame may become, field by field.
LEMMA FrameEdits ==
    ASSUME NEW f \in Frame
    PROVE  /\ \A c \in WorkerPCs : [f EXCEPT !.pc = c] \in Frame
           /\ \A n \in Nat : /\ [f EXCEPT !.lost = n] \in Frame
                             /\ [f EXCEPT !.lease = n] \in Frame
                             /\ [f EXCEPT !.appended = n] \in Frame
           /\ [f EXCEPT !.shutdown = TRUE] \in Frame
           /\ \A c \in WorkerPCs : \A r \in Results :
                 [f EXCEPT !.pc = c, !.result = r] \in Frame
           /\ \A c \in WorkerPCs : [f EXCEPT !.pc = c, !.lease = 0] \in Frame
           /\ \A c \in WorkerPCs : \A r \in Results :
                 [f EXCEPT !.pc = c, !.result = r, !.lease = 0] \in Frame
           /\ \A c \in WorkerPCs : \A b \in BOOLEAN :
                 [f EXCEPT !.pc = c, !.retry = b, !.lease = 0] \in Frame
           /\ \A c \in WorkerPCs : \A b \in Budget :
                 [f EXCEPT !.pc = c, !.seen = b] \in Frame
  BY DEF Frame

\* The frames processRun starts and ends with.
LEMMA FixedFrames ==
    /\ IdleFrame \in Frame
    /\ DownFrame \in Frame
    /\ IdleSweep \in Sweep
  BY DEF IdleFrame, DownFrame, IdleSweep, Frame, Sweep, Budget, WorkerPCs, ReaperPCs,
     Results, NoToken, ExpiredRow

\* Leaving processRun gives a frame.
LEMMA LeaveType == \A f \in Frame : Leave(f) \in Frame
  BY FrameEdits, FixedFrames DEF Leave, WorkerPCs

\* The frames keep their types, whatever a worker does.
LEMMA WorkerTypeStep ==
    ASSUME TypeOK, FramesNameRuns, NEW w \in Workers, WorkerStep(w)
    PROVE  worker' \in [Workers -> Frame]
<1> DEFINE f == worker[w]
<1>1. f \in Frame /\ worker \in [Workers -> Frame]
  BY DEF TypeOK
<1>2. ASSUME NEW g \in Frame, worker' = [worker EXCEPT ![w] = g]
      PROVE  worker' \in [Workers -> Frame]
  BY <1>1, <1>2
<1> USE DEF WorkerPCs, Results
<1>3. CASE \E r \in Runs : WorkerClaims(w, r)
  <2> PICK r \in Runs : WorkerClaims(w, r)
    BY <1>3
  <2> DEFINE g == [IdleFrame EXCEPT !.pc = "turn", !.run = r,
                      !.token = runLease'[r].token, !.attempts = attempts'[r],
                      !.errors = errors[r], !.text = text[r]]
  <2>1. runLease'[r].token = minted[r] + 1 /\ attempts'[r] = attempts[r] + 1
    BY DEF WorkerClaims, claim, Mints, Leased, TypeOK, StoreTypeOK
  <2>2. /\ runLease'[r].token \in Nat /\ attempts'[r] \in Nat
        /\ errors[r] \in Nat /\ text[r] \in Nat
    BY <2>1 DEF TypeOK, StoreTypeOK
  <2>3. g \in Frame
    BY <2>2 DEF IdleFrame, Frame, Budget, NoToken
  <2>4. worker' = [worker EXCEPT ![w] = g]
    BY DEF WorkerClaims
  <2> HIDE DEF g
  <2>5. QED
    BY <1>2, <2>3, <2>4
<1>4. CASE HeartbeatAlive(w) \/ HeartbeatLost(w) \/ HeartbeatError(w)
  <2>1. f.lost \in Nat
    BY <1>1 DEF Frame
  <2>2. PICK n \in Nat : worker' = [worker EXCEPT ![w] = [f EXCEPT !.lost = n]]
    BY <1>4, <2>1 DEF HeartbeatAlive, HeartbeatLost, HeartbeatError
  <2>3. QED
    BY <1>1, <1>2, <2>2, FrameEdits
<1>5. CASE TurnAcquires(w)
  <2>1. f.run \in Runs
    BY <1>5 DEF TurnAcquires, FramesNameRuns
  <2>2. leaseMint'[SessionOf[f.run]] \in Nat
    BY <1>5, <2>1, StoreAssumption
       DEF TurnAcquires, acquireLease, SessionOfWorker, TypeOK, SessionTypeOK
  <2>3. worker' = [worker EXCEPT ![w] = [f EXCEPT !.lease = leaseMint'[SessionOf[f.run]]]]
    BY <1>5 DEF TurnAcquires, SessionOfWorker
  <2>4. QED
    BY <1>1, <1>2, <2>2, <2>3, FrameEdits
<1>6. CASE TurnAppends(w)
  <2>1. f.appended + 1 \in Nat
    BY <1>1 DEF Frame
  <2>2. worker' = [worker EXCEPT ![w] = [f EXCEPT !.appended = f.appended + 1]]
    BY <1>6 DEF TurnAppends
  <2>3. QED
    BY <1>1, <1>2, <2>1, <2>2, FrameEdits
<1>7. CASE TurnRefused(w)
  <2> DEFINE g == IF f.shutdown THEN [f EXCEPT !.pc = "handback"]
                                ELSE [f EXCEPT !.pc = "complete", !.result = "busy"]
  <2>1. worker' = [worker EXCEPT ![w] = g]
    BY <1>7 DEF TurnRefused
  <2>2. g \in Frame
    BY <1>1, FrameEdits
  <2> HIDE DEF g
  <2>3. QED
    BY <1>2, <2>1, <2>2
<1>8. CASE TurnReturns(w)
  <2> DEFINE g == IF f.shutdown THEN [f EXCEPT !.pc = "handback", !.lease = 0]
                  ELSE [f EXCEPT !.pc = "complete", !.result = "answer", !.lease = 0]
  <2>1. worker' = [worker EXCEPT ![w] = g]
    BY <1>8 DEF TurnReturns
  <2>2. g \in Frame
    BY <1>1, FrameEdits
  <2> HIDE DEF g
  <2>3. QED
    BY <1>2, <2>1, <2>2
<1>9. CASE \E retry \in BOOLEAN : TurnThrows(w, retry)
  <2> PICK retry \in BOOLEAN : TurnThrows(w, retry)
    BY <1>9
  <2> DEFINE g == IF f.shutdown THEN [f EXCEPT !.pc = "handback", !.lease = 0]
                  ELSE [f EXCEPT !.pc = "fail", !.retry = retry, !.lease = 0]
  <2>1. worker' = [worker EXCEPT ![w] = g]
    BY DEF TurnThrows
  <2>2. g \in Frame
    BY <1>1, FrameEdits
  <2> HIDE DEF g
  <2>3. QED
    BY <1>2, <2>1, <2>2
<1>10. CASE Completes(w) \/ CompletionRefused(w) \/ CompletionErrs(w)
  <2>1. PICK c \in WorkerPCs : worker' = [worker EXCEPT ![w] = [f EXCEPT !.pc = c]]
    BY <1>10 DEF Completes, CompletionRefused, CompletionErrs
  <2>2. QED
    BY <1>1, <1>2, <2>1, FrameEdits
<1>11. CASE WorkerSettles(w) \/ FailMisses(w) \/ FailErrs(w)
  <2>1. worker' = [worker EXCEPT ![w] = Leave(f)]
    BY <1>11 DEF WorkerSettles, FailMisses, FailErrs
  <2>2. QED
    BY <1>1, <1>2, <2>1, LeaveType
<1>12. CASE FailReads(w) \/ FailRetires(w)
  <2>1. f.run \in Runs
    BY <1>12 DEF FailReads, FailRetires, FramesNameRuns
  <2>2. budgetOf(f.run) \in Budget
    BY <2>1 DEF budgetOf, Budget, TypeOK, StoreTypeOK
  <2>3. PICK g : worker' = [worker EXCEPT ![w] = g]
                 /\ g \in {Leave(f), [f EXCEPT !.pc = "retire", !.seen = budgetOf(f.run)],
                           [f EXCEPT !.pc = "settle"]}
    BY <1>12 DEF FailReads, FailRetires
  <2>4. g \in Frame
    <3>1. [f EXCEPT !.pc = "retire", !.seen = budgetOf(f.run)] \in Frame
      BY <1>1, <2>2, FrameEdits
    <3>2. [f EXCEPT !.pc = "settle"] \in Frame /\ Leave(f) \in Frame
      BY <1>1, FrameEdits, LeaveType
    <3>3. QED
      BY <2>3, <3>1, <3>2
  <2>5. QED
    BY <1>2, <2>3, <2>4
<1>13. CASE Shutdown(w)
  <2> DEFINE g == IF f.pc = "idle" THEN DownFrame ELSE [f EXCEPT !.shutdown = TRUE]
  <2>1. worker' = [worker EXCEPT ![w] = g]
    BY <1>13 DEF Shutdown
  <2>2. g \in Frame
    BY <1>1, FrameEdits, FixedFrames
  <2> HIDE DEF g
  <2>3. QED
    BY <1>2, <2>1, <2>2
<1>14. CASE HandsBack(w) \/ Crash(w) \/ Restart(w)
  BY <1>2, <1>14, FixedFrames DEF HandsBack, Crash, Restart
<1>15. CASE TurnNotes(w)
  BY <1>1, <1>15 DEF TurnNotes, queueVars
<1>16. CASE TurnCleanupFails(w)
  <2> DEFINE g == IF f.shutdown THEN [f EXCEPT !.pc = "handback", !.lease = 0]
                  ELSE [f EXCEPT !.pc = "fail", !.retry = TRUE, !.lease = 0]
  <2>1. worker' = [worker EXCEPT ![w] = g]
    BY <1>16 DEF TurnCleanupFails
  <2>2. g \in Frame
    BY <1>1, FrameEdits
  <2> HIDE DEF g
  <2>3. QED
    BY <1>2, <2>1, <2>2
<1>17. QED
  BY <1>3, <1>4, <1>5, <1>6, <1>7, <1>8, <1>9, <1>10, <1>11, <1>12, <1>13, <1>14, <1>15, <1>16
     DEF WorkerStep

\* The sweeps keep their types, whatever a reaper does.
LEMMA ReaperTypeStep ==
    ASSUME TypeOK, FramesNameRuns, NEW p \in Reapers, ReaperStep(p)
    PROVE  reaper' \in [Reapers -> Sweep]
<1> DEFINE f == reaper[p]
<1>1. f \in Sweep /\ reaper \in [Reapers -> Sweep]
  BY DEF TypeOK
<1>2. ASSUME NEW g \in Sweep, reaper' = [reaper EXCEPT ![p] = g]
      PROVE  reaper' \in [Reapers -> Sweep]
  BY <1>1, <1>2
<1>3. /\ f.pc \in ReaperPCs /\ f.todo \subseteq ExpiredRow /\ f.run \in Runs \cup {NoRun}
      /\ f.fence \in Nat /\ f.seen \in Budget /\ f.tooOld \in BOOLEAN
  BY <1>1 DEF Sweep
<1>4. \A c \in ReaperPCs : [f EXCEPT !.pc = c] \in Sweep
  BY <1>1 DEF Sweep
<1>5. \A t \in SUBSET ExpiredRow : /\ [f EXCEPT !.todo = t] \in Sweep
                                   /\ [IdleSweep EXCEPT !.pc = "fence", !.todo = t] \in Sweep
  BY <1>1, FixedFrames DEF Sweep, ReaperPCs
<1>6. NextOfSweep(f) \in Sweep
  BY <1>3, <1>5 DEF NextOfSweep
<1>7. CASE ReaperSelects(p)
  <2>1. PICK old \in SUBSET Expired :
              reaper' = [reaper EXCEPT ![p] = [IdleSweep EXCEPT !.pc = "fence",
                !.todo = {[run |-> r, token |-> runLease[r].token,
                           seen |-> budgetOf(r), tooOld |-> r \in old] : r \in Expired}]]
    BY <1>7, Zenon DEF ReaperSelects
  <2> DEFINE rows == {[run |-> r, token |-> runLease[r].token,
                       seen |-> budgetOf(r), tooOld |-> r \in old] : r \in Expired}
  <2>2. ASSUME NEW r \in Expired
        PROVE  [run |-> r, token |-> runLease[r].token,
                seen |-> budgetOf(r), tooOld |-> r \in old] \in ExpiredRow
    <3>1. r \in Runs /\ runLease[r].token \in Nat /\ budgetOf(r) \in Budget
      BY DEF Expired, TypeOK, StoreTypeOK, budgetOf, Budget
    <3>2. QED
      BY <3>1 DEF ExpiredRow
  <2>3. rows \in SUBSET ExpiredRow
    BY <2>2
  <2>4. reaper' = [reaper EXCEPT ![p] = [IdleSweep EXCEPT !.pc = "fence", !.todo = rows]]
    BY <2>1
  <2> HIDE DEF rows
  <2>5. QED
    BY <1>2, <1>5, <2>3, <2>4
<1>8. CASE ReaperFences(p)
  <2>1. PICK x \in f.todo :
          /\ fence(x.run, x.token)
          /\ reaper' = [reaper EXCEPT ![p] =
                [pc |-> "release", todo |-> f.todo \ {x}, run |-> x.run,
                 fence |-> runLease'[x.run].token, seen |-> x.seen, tooOld |-> x.tooOld]]
    BY <1>8 DEF ReaperFences
  <2>2. x.run \in Runs /\ x.seen \in Budget /\ x.tooOld \in BOOLEAN
    BY <1>3 DEF ExpiredRow
  <2>3. runLease'[x.run].token \in Nat
    BY <2>1, <2>2 DEF fence, Mints, Leased, TypeOK, StoreTypeOK
  <2>4. [pc |-> "release", todo |-> f.todo \ {x}, run |-> x.run,
         fence |-> runLease'[x.run].token, seen |-> x.seen, tooOld |-> x.tooOld] \in Sweep
    BY <1>3, <2>2, <2>3 DEF Sweep, ReaperPCs
  <2>5. QED
    BY <1>2, <2>1, <2>4
<1>9. CASE ReaperSkips(p)
  <2>1. PICK x \in f.todo : reaper' = [reaper EXCEPT ![p] = [f EXCEPT !.todo = f.todo \ {x}]]
    BY <1>9 DEF ReaperSkips
  <2>2. f.todo \ {x} \in SUBSET ExpiredRow
    BY <1>3
  <2>3. QED
    BY <1>2, <1>5, <2>1, <2>2
<1>10. CASE ReaperReleases(p)
  BY <1>2, <1>4, <1>10 DEF ReaperReleases, ReaperPCs
<1>11. CASE ReaperRetires(p)
  BY <1>2, <1>4, <1>6, <1>11 DEF ReaperRetires, ReaperPCs
<1>12. CASE ReaperMisses(p) \/ ReaperSettles(p)
  BY <1>2, <1>6, <1>12 DEF ReaperMisses, ReaperSettles
<1>13. CASE ReaperEnds(p) \/ ReaperFails(p)
  BY <1>2, <1>13, FixedFrames DEF ReaperEnds, ReaperFails
<1>14. QED
  BY <1>7, <1>8, <1>9, <1>10, <1>11, <1>12, <1>13 DEF ReaperStep

\* The sessions' leases and logs keep their types.
LEMMA SessionTypeStep ==
    ASSUME TypeOK, FramesNameRuns, [Next]_vars
    PROVE  SessionTypeOK'
<1> USE DEF TypeOK, SessionTypeOK, SessionLeaseRow, Holders, NoLease
<1>1. CASE UNCHANGED sessionVars
  BY <1>1 DEF sessionVars
<1>2. ASSUME NEW s \in Sessions, NEW h \in Holders, acquireLease(s, h) PROVE SessionTypeOK'
  BY <1>2 DEF acquireLease
<1>3. ASSUME NEW s \in Sessions, NEW t, releaseSession(s, t) PROVE SessionTypeOK'
  BY <1>3 DEF releaseSession
<1>4. ASSUME NEW s \in Sessions, NEW t \in Nat, NEW r \in Runs \cup {NoRun},
             tape' = [tape EXCEPT ![s] = Append(tape[s], [lease |-> t, writer |-> r])]
      PROVE  tape' \in [Sessions -> Seq(Entry)]
  <2>1. [lease |-> t, writer |-> r] \in Entry
    BY DEF Entry
  <2>2. Append(tape[s], [lease |-> t, writer |-> r]) \in Seq(Entry)
    BY <2>1
  <2>3. QED
    BY <1>4, <2>2
<1>5. ASSUME NEW w \in Workers, WorkerStep(w) PROVE SessionTypeOK'
  <2>1. CASE TurnAcquires(w)
    <3>1. SessionOfWorker(w) \in Sessions
      BY <2>1, StoreAssumption DEF TurnAcquires, SessionOfWorker, FramesNameRuns
    <3>2. QED
      BY <1>2, <2>1, <3>1 DEF TurnAcquires
  <2>2. CASE TurnAppends(w)
    <3>1. SessionOf[worker[w].run] \in Sessions /\ worker[w].run \in Runs
      BY <2>2, StoreAssumption DEF TurnAppends, FramesNameRuns
    <3>2. worker[w].lease \in Nat
      BY DEF Frame
    <3>3. QED
      BY <1>4, <2>2, <3>1, <3>2 DEF TurnAppends, append
  <2>3. CASE TurnReturns(w) \/ \E retry \in BOOLEAN : TurnThrows(w, retry)
    <3>1. SessionOfWorker(w) \in Sessions
      BY <2>3, StoreAssumption DEF TurnReturns, TurnThrows, SessionOfWorker, FramesNameRuns
    <3>2. QED
      BY <1>3, <2>3, <3>1 DEF TurnReturns, TurnThrows, TurnLetsGo
  <2>4. CASE \/ \E r \in Runs : WorkerClaims(w, r)
             \/ HeartbeatAlive(w) \/ HeartbeatLost(w) \/ HeartbeatError(w)
             \/ TurnRefused(w) \/ TurnNotes(w) \/ Completes(w) \/ CompletionRefused(w)
             \/ CompletionErrs(w) \/ WorkerSettles(w) \/ TurnCleanupFails(w)
    BY <1>1, <2>4 DEF WorkerClaims, HeartbeatAlive, HeartbeatLost, HeartbeatError, TurnRefused,
       TurnNotes, Completes, CompletionRefused, CompletionErrs, WorkerSettles, TurnCleanupFails
  <2>5. CASE \/ FailReads(w) \/ FailRetires(w) \/ FailMisses(w) \/ FailErrs(w)
             \/ Shutdown(w) \/ HandsBack(w) \/ Crash(w) \/ Restart(w)
    BY <1>1, <2>5 DEF FailReads, FailRetires, FailMisses, FailErrs, Shutdown, HandsBack,
       Crash, Restart
  <2>6. QED
    BY <1>5, <2>1, <2>2, <2>3, <2>4, <2>5 DEF WorkerStep
<1>6. ASSUME NEW p \in Reapers, ReaperStep(p) PROVE SessionTypeOK'
  <2>1. CASE ReaperReleases(p)
    BY <2>1 DEF ReaperReleases, forceReleaseLease
  <2>2. CASE ~ReaperReleases(p)
    BY <1>1, <1>6, <2>2 DEF ReaperStep, ReaperSelects, ReaperFences, ReaperSkips,
       ReaperRetires, ReaperMisses, ReaperSettles, ReaperEnds, ReaperFails
  <2>3. QED
    BY <2>1, <2>2
<1>7. CASE UserStep
  BY <1>1, <1>7 DEF UserStep, Enqueue, Withdraw, Edit, Steer
<1>8. CASE TimeStep
  <2>1. ASSUME NEW s \in Sessions, SessionLapses(s) PROVE SessionTypeOK'
    BY <2>1 DEF SessionLapses, SessionLeaseLapses
  <2>2. QED
    BY <1>1, <1>8, <2>1 DEF TimeStep, LapseAbandoned, LapseStalled, CoolsDown
<1>9. CASE CompactionStep
  <2>1. ASSUME NEW s \in Sessions, CompactionAcquires(s) PROVE SessionTypeOK'
    BY <1>2, <2>1 DEF CompactionAcquires
  <2>2. ASSUME NEW s \in Sessions, CompactionEnds(s) PROVE SessionTypeOK'
    <3>1. sessionLease' \in [Sessions -> SessionLeaseRow] /\ UNCHANGED leaseMint
      BY <2>2 DEF CompactionEnds
    <3>2. tape' \in [Sessions -> Seq(Entry)]
      BY <1>4, <2>2 DEF CompactionEnds
    <3>3. QED
      BY <3>1, <3>2
  <2>3. QED
    BY <1>9, <2>1, <2>2 DEF CompactionStep
<1>10. CASE UNCHANGED vars
  BY <1>1, <1>10 DEF vars, sessionVars
<1>11. QED
  BY <1>5, <1>6, <1>7, <1>8, <1>9, <1>10 DEF Next

\* The compactions, the bounds and the history variables keep their types.
LEMMA HistoryTypeStep ==
    ASSUME TypeOK, FramesNameRuns, SessionTypeOK', [Next]_vars
    PROVE  /\ compaction' \in [Sessions -> Nat] /\ settles' \in [Runs -> Nat]
           /\ cover' \in [Sessions -> Runs \cup {NoRun}] /\ faults' \in Nat
           /\ compactions' \in [Sessions -> Nat]
<1> DEFINE Goal == /\ compaction' \in [Sessions -> Nat] /\ settles' \in [Runs -> Nat]
                   /\ cover' \in [Sessions -> Runs \cup {NoRun}] /\ faults' \in Nat
                   /\ compactions' \in [Sessions -> Nat]
<1> USE DEF TypeOK
<1>1. ASSUME UNCHANGED <<compaction, settles, cover, compactions>>,
             faults' \in {faults, faults + 1}
      PROVE  Goal
  BY <1>1
<1>2. ASSUME NEW w \in Workers, WorkerStep(w) PROVE Goal
  <2>1. CASE TurnAcquires(w)
    <3>1. worker[w].run \in Runs /\ SessionOfWorker(w) \in Sessions
      BY <2>1, StoreAssumption DEF TurnAcquires, SessionOfWorker, FramesNameRuns
    <3>2. QED
      BY <2>1, <3>1 DEF TurnAcquires
  <2>2. CASE WorkerSettles(w)
    <3>1. worker[w].run \in Runs
      BY <2>2 DEF WorkerSettles, FramesNameRuns
    <3>2. QED
      BY <2>2, <3>1 DEF WorkerSettles
  <2>3. CASE \/ \E r \in Runs : WorkerClaims(w, r)
             \/ HeartbeatAlive(w) \/ HeartbeatLost(w) \/ HeartbeatError(w)
             \/ TurnRefused(w) \/ TurnNotes(w) \/ TurnAppends(w) \/ TurnReturns(w)
             \/ \E retry \in BOOLEAN : TurnThrows(w, retry)
             \/ Completes(w) \/ CompletionRefused(w) \/ CompletionErrs(w)
    BY <1>1, <2>3 DEF WorkerClaims, HeartbeatAlive, HeartbeatLost, HeartbeatError, TurnRefused,
       TurnAppends, TurnReturns, TurnThrows, TurnNotes, Completes, CompletionRefused,
       CompletionErrs, queueVars
  <2>4. CASE \/ FailReads(w) \/ FailRetires(w) \/ FailMisses(w) \/ FailErrs(w)
             \/ Shutdown(w) \/ HandsBack(w) \/ Crash(w) \/ Restart(w)
    BY <1>1, <2>4 DEF FailReads, FailRetires, FailMisses, FailErrs, Shutdown, HandsBack,
       Crash, Restart
  <2>5. CASE TurnCleanupFails(w)
    <3>1. SessionOfWorker(w) \in Sessions
      BY <2>5, StoreAssumption DEF TurnCleanupFails, SessionOfWorker, FramesNameRuns
    <3>2. /\ UNCHANGED <<compaction, settles, compactions>> /\ faults' = faults + 1
          /\ \/ cover' = [cover EXCEPT ![SessionOfWorker(w)] = NoRun]
             \/ cover' = [cover EXCEPT ![SessionOfWorker(w)] = @]
      BY <2>5 DEF TurnCleanupFails
    <3>3. QED
      BY <3>1, <3>2
  <2>6. QED
    BY <1>2, <2>1, <2>2, <2>3, <2>4, <2>5 DEF WorkerStep
<1>3. ASSUME NEW p \in Reapers, ReaperStep(p) PROVE Goal
  <2>1. CASE ReaperSettles(p)
    <3>1. reaper[p].run \in Runs
      BY <2>1 DEF ReaperSettles, FramesNameRuns
    <3>2. QED
      BY <2>1, <3>1 DEF ReaperSettles
  <2>2. CASE ~ReaperSettles(p)
    BY <1>1, <1>3, <2>2 DEF ReaperStep, ReaperSelects, ReaperFences, ReaperSkips,
       ReaperReleases, ReaperRetires, ReaperMisses, ReaperEnds, ReaperFails
  <2>3. QED
    BY <2>1, <2>2
<1>4. CASE UserStep
  BY <1>1, <1>4 DEF UserStep, Enqueue, Withdraw, Edit, Steer, queueVars
<1>5. CASE TimeStep
  BY <1>1, <1>5 DEF TimeStep, LapseAbandoned, LapseStalled, CoolsDown, SessionLapses, queueVars
<1>6. CASE CompactionStep
  <2>1. ASSUME NEW s \in Sessions, CompactionAcquires(s) PROVE Goal
    <3>1. leaseMint'[s] \in Nat
      BY DEF SessionTypeOK
    <3>2. QED
      BY <2>1, <3>1 DEF CompactionAcquires
  <2>2. ASSUME NEW s \in Sessions, CompactionEnds(s) PROVE Goal
    BY <2>2 DEF CompactionEnds
  <2>3. QED
    BY <1>6, <2>1, <2>2 DEF CompactionStep
<1>7. CASE UNCHANGED vars
  BY <1>1, <1>7 DEF vars
<1>8. QED
  BY <1>2, <1>3, <1>4, <1>5, <1>6, <1>7 DEF Next

\* Types at boot.
LEMMA TypeInit == Init => TypeOK
<1> SUFFICES ASSUME Init PROVE TypeOK
  OBVIOUS
<1> USE DEF Init
<1>1. StoreTypeOK
  BY SafetyInit DEF SafetyInv
<1>2. SessionTypeOK
  BY DEF SessionInit, SessionTypeOK, SessionLeaseRow, Holders, NoLease
<1>3. worker \in [Workers -> Frame] /\ reaper \in [Reapers -> Sweep]
  BY FixedFrames
<1>4. /\ compaction \in [Sessions -> Nat] /\ settles \in [Runs -> Nat]
      /\ cover \in [Sessions -> Runs \cup {NoRun}] /\ faults \in Nat
      /\ compactions \in [Sessions -> Nat]
  OBVIOUS
<1>5. QED
  BY <1>1, <1>2, <1>3, <1>4 DEF TypeOK

\* Every variable keeps its type in every step.
LEMMA TypeStep ==
    ASSUME TypeOK, SafetyInv, [Next]_vars
    PROVE  TypeOK'
<1>1. FramesNameRuns /\ StoreTypeOK'
  BY NextIsStoreStep, StoreTypeStep DEF SafetyInv
<1>2. SessionTypeOK'
  BY <1>1, SessionTypeStep
<1>3. worker' \in [Workers -> Frame]
  <2>1. CASE UNCHANGED worker
    BY <2>1 DEF TypeOK
  <2>2. CASE \E w \in Workers : WorkerStep(w)
    BY <1>1, <2>2, WorkerTypeStep
  <2>3. QED
    BY <2>1, <2>2 DEF Next, UserStep, Enqueue, Withdraw, Edit, Steer, queueVars, TimeStep,
       LapseAbandoned, LapseStalled, CoolsDown, SessionLapses, CompactionStep,
       CompactionAcquires, CompactionEnds, ReaperStep, ReaperSelects, ReaperFences, ReaperSkips,
       ReaperReleases, ReaperRetires, ReaperMisses, ReaperSettles, ReaperEnds, ReaperFails, vars
<1>4. reaper' \in [Reapers -> Sweep]
  <2>1. CASE UNCHANGED reaper
    BY <2>1 DEF TypeOK
  <2>2. CASE \E p \in Reapers : ReaperStep(p)
    BY <1>1, <2>2, ReaperTypeStep
  <2>3. ASSUME NEW w \in Workers, WorkerStep(w) PROVE UNCHANGED reaper
    BY <2>3 DEF WorkerStep, WorkerClaims, HeartbeatAlive, HeartbeatLost, HeartbeatError,
       TurnAcquires, TurnRefused, TurnAppends, TurnNotes, queueVars, TurnReturns, TurnThrows,
       TurnCleanupFails, Completes, CompletionRefused, CompletionErrs, WorkerSettles, FailReads, FailRetires,
       FailMisses, FailErrs, Shutdown, HandsBack, Crash, Restart
  <2>4. QED
    BY <2>1, <2>2, <2>3 DEF Next, UserStep, Enqueue, Withdraw, Edit, Steer, queueVars, TimeStep,
       LapseAbandoned, LapseStalled, CoolsDown, SessionLapses, CompactionStep,
       CompactionAcquires, CompactionEnds, vars
<1>5. QED
  BY <1>1, <1>2, <1>3, <1>4, HistoryTypeStep DEF TypeOK

\* Every variable of the queue keeps its type: rows, session leases, logs and
\* the call frames of workers and sweeps.
THEOREM TypeCorrect == Spec => []TypeOK
  BY TypeInit, TypeStep, SafetyInvariant, PTL DEF Spec

-----------------------------------------------------------------------------
(* Idempotency keys: a fact about the table alone.                         *)

Live(r) == status[r] \notin {"absent", "withdrawn"} /\ keyed[r]

\* A row gives its key up only with a busy refusal, and no two rows of the
\* table carry the same key (the unique index on idempotency_key).
KeyInv ==
    /\ \A r \in Runs : InFlight(r) => keyed[r]
    /\ \A r \in Runs : isTerminal(r) /\ outcome[r].result # "busy" => keyed[r]
    /\ \A q, r \in Runs : Live(q) /\ Live(r) /\ KeyOf[q] = KeyOf[r] => q = r

\* Every statement keeps the keys.
LEMMA KeyStep ==
    ASSUME StoreTypeOK, LeasedIffRunning, KeyInv, [StoreStep]_storeVars
    PROVE  KeyInv'
<1> USE DEF KeyInv, Live, InFlight, isTerminal, StoreTypeOK
<1>1. CASE UNCHANGED <<status, keyed, outcome>>
  BY <1>1
<1>2. ASSUME NEW r \in Runs, enqueue(r) PROVE KeyInv'
  BY <1>2 DEF enqueue, KeyTaken
<1>3. ASSUME NEW r \in Runs, status[r] \in {"pending", "running"}, UNCHANGED <<keyed, outcome>>,
             NEW v \in {"pending", "running", "withdrawn"}, status' = [status EXCEPT ![r] = v]
      PROVE  KeyInv'
  BY <1>3
<1>4. ASSUME NEW r \in Runs, claim(r) PROVE KeyInv'
  BY <1>3, <1>4 DEF claim, Claimable, intake
<1>5. ASSUME NEW r \in Runs, NEW u, withdraw(r, u) PROVE KeyInv'
  BY <1>3, <1>5 DEF withdraw, intake
<1>6. ASSUME NEW r \in Runs, NEW t, releaseLease(r, t) PROVE KeyInv'
  BY <1>3, <1>6 DEF releaseLease, HoldsLease, intake
<1>7. ASSUME NEW r \in Runs, NEW t, NEW result \in Results, complete(r, t, result) PROVE KeyInv'
  <2>1. status[r] = "running" /\ keyed[r]
    BY <1>7 DEF complete, CompletionAccepted, LeasedIffRunning
  <2>2. /\ status' = [status EXCEPT ![r] = "done"]
        /\ keyed' = [keyed EXCEPT ![r] = result # "busy"]
        /\ outcome' = [outcome EXCEPT ![r] = [result |-> result, by |-> t]]
    BY <1>7, <2>1 DEF complete
  <2>3. QED
    BY <2>1, <2>2
<1>8. ASSUME NEW r \in Runs, NEW t, NEW seen, NEW retry, NEW c, NEW b \in BOOLEAN,
             retire(r, t, seen, retry, c, b)
      PROVE KeyInv'
  <2>1. status[r] = "running" /\ UNCHANGED keyed
    BY <1>8 DEF retire, HoldsLease, intake
  <2>2. CASE status' = [status EXCEPT ![r] = "pending"] /\ UNCHANGED outcome
    BY <1>3, <2>1, <2>2
  <2>3. CASE /\ status' = [status EXCEPT ![r] = "failed"]
             /\ outcome' = [outcome EXCEPT ![r] = [result |-> "error", by |-> t]]
    BY <2>1, <2>3
  <2>4. QED
    BY <1>8, <2>2, <2>3 DEF retire
<1>9. ASSUME NEW r \in Runs,
             \/ noteTurnUserSeq(r) \/ LeaseLapses(r) \/ BackoffElapses(r)
             \/ \E n : editPendingText(r, n)
             \/ \E t : heartbeat(r, t) \/ fence(r, t)
      PROVE UNCHANGED <<status, keyed, outcome>>
  BY <1>9 DEF noteTurnUserSeq, LeaseLapses, BackoffElapses, editPendingText, heartbeat,
     fence, intake
<1>10. CASE UNCHANGED storeVars
  BY <1>1, <1>10 DEF storeVars
<1>11. QED
  BY <1>1, <1>2, <1>4, <1>5, <1>6, <1>7, <1>8, <1>9, <1>10 DEF StoreStep

\* Of the runs submitted under one idempotency key, at most one settles with
\* anything but a session_busy refusal (releasesDedupKey of complete).
THEOREM AnsweredOncePerKeyHolds == Spec => []AnsweredOncePerKey
<1>1. Init => KeyInv
  BY DEF Init, StoreInit, KeyInv, InFlight, isTerminal, Live
<1>2. SafetyInv /\ KeyInv /\ [Next]_vars => KeyInv'
  BY NextIsStoreStep, KeyStep DEF SafetyInv
<1>3. KeyInv => AnsweredOncePerKey
  BY DEF KeyInv, AnsweredOncePerKey, Live, isTerminal
<1>4. QED
  BY <1>1, <1>2, <1>3, SafetyInvariant, PTL DEF Spec

-----------------------------------------------------------------------------
(* The log of a session.                                                   *)

\* The lease of a session is the last one minted for it, and no entry was
\* written under a later one.
TapeInv ==
    /\ \A s \in Sessions : sessionLease[s].token \in {0, leaseMint[s]}
    /\ \A s \in Sessions : sessionLease[s].holder # "none" => sessionLease[s].token # 0
    /\ \A s \in Sessions : \A i \in 1..Len(tape[s]) : tape[s][i].lease <= leaseMint[s]
    /\ TapeUnmixed

\* Whatever is done to a session, one statement does it.
SessionStep ==
    \E s \in Sessions :
        \/ \E h \in {"turn", "compaction"} : acquireLease(s, h)
        \/ \E t, x : append(s, t, x)
        \/ \E t : releaseSession(s, t)
        \/ forceReleaseLease(s)
        \/ SessionLeaseLapses(s)
        \/ CompactionEnds(s)

\* A step of the system is at most one of them.
LEMMA NextIsSessionStep ==
    ASSUME FramesNameRuns, [Next]_vars
    PROVE  [SessionStep]_sessionVars
<1> USE StoreAssumption DEF SessionStep, FramesNameRuns
<1>1. ASSUME NEW w \in Workers, WorkerStep(w) PROVE [SessionStep]_sessionVars
  <2>1. CASE TurnAcquires(w)
    BY <2>1 DEF TurnAcquires, SessionOfWorker
  <2>2. CASE TurnAppends(w)
    BY <2>2 DEF TurnAppends
  <2>3. CASE TurnReturns(w) \/ \E retry \in BOOLEAN : TurnThrows(w, retry)
    BY <2>3 DEF TurnReturns, TurnThrows, TurnLetsGo, SessionOfWorker
  <2>4. CASE \/ \E r \in Runs : WorkerClaims(w, r)
             \/ HeartbeatAlive(w) \/ HeartbeatLost(w) \/ HeartbeatError(w)
             \/ TurnRefused(w) \/ TurnNotes(w) \/ Completes(w) \/ CompletionRefused(w)
             \/ CompletionErrs(w) \/ WorkerSettles(w) \/ TurnCleanupFails(w)
    BY <2>4 DEF WorkerClaims, HeartbeatAlive, HeartbeatLost, HeartbeatError, TurnRefused,
       TurnNotes, Completes, CompletionRefused, CompletionErrs, WorkerSettles, TurnCleanupFails
  <2>5. CASE \/ FailReads(w) \/ FailRetires(w) \/ FailMisses(w) \/ FailErrs(w)
             \/ Shutdown(w) \/ HandsBack(w) \/ Crash(w) \/ Restart(w)
    BY <2>5 DEF FailReads, FailRetires, FailMisses, FailErrs, Shutdown, HandsBack,
       Crash, Restart
  <2>6. QED
    BY <1>1, <2>1, <2>2, <2>3, <2>4, <2>5 DEF WorkerStep
<1>2. ASSUME NEW p \in Reapers, ReaperStep(p) PROVE [SessionStep]_sessionVars
  BY <1>2 DEF ReaperStep, ReaperReleases, ReaperSelects, ReaperFences, ReaperSkips,
     ReaperRetires, ReaperMisses, ReaperSettles, ReaperEnds, ReaperFails
<1>3. CASE UserStep \/ TimeStep \/ CompactionStep
  BY <1>3 DEF UserStep, Enqueue, Withdraw, Edit, Steer, TimeStep, LapseAbandoned,
     LapseStalled, CoolsDown, SessionLapses, CompactionStep, CompactionAcquires
<1>4. CASE UNCHANGED vars
  BY <1>4 DEF vars, sessionVars
<1>5. QED
  BY <1>1, <1>2, <1>3, <1>4 DEF Next

\* An entry appended under the lease last minted keeps the log in order.
LEMMA AppendKeepsOrder ==
    ASSUME SessionTypeOK, TapeInv, NEW s \in Sessions, NEW x,
           tape' = [tape EXCEPT ![s] = Append(tape[s], [lease |-> leaseMint[s], writer |-> x])],
           UNCHANGED leaseMint
    PROVE  /\ \A q \in Sessions : \A i \in 1..Len(tape'[q]) : tape'[q][i].lease <= leaseMint'[q]
           /\ TapeUnmixed'
<1> DEFINE e == [lease |-> leaseMint[s], writer |-> x]
<1>1. /\ tape[s] \in Seq(Entry) /\ leaseMint[s] \in Nat /\ Len(tape[s]) \in Nat
  BY DEF SessionTypeOK
<1>2. tape'[s] = Append(tape[s], e) /\ \A q \in Sessions \ {s} : tape'[q] = tape[q]
  BY DEF SessionTypeOK
<1>3. e.lease = leaseMint[s]
  OBVIOUS
<1> HIDE DEF e
<1>4. /\ Len(tape'[s]) = Len(tape[s]) + 1
      /\ tape'[s][Len(tape[s]) + 1] = e
      /\ \A i \in 1..Len(tape[s]) : tape'[s][i] = tape[s][i]
  BY <1>1, <1>2
<1>5. \A i \in 1..Len(tape[s]) : tape[s][i].lease <= leaseMint[s]
  BY DEF TapeInv
<1>6. \A i \in 1..Len(tape'[s]) :
         /\ tape'[s][i].lease <= leaseMint[s]
         /\ i < Len(tape'[s]) => i \in 1..Len(tape[s])
         /\ i = Len(tape'[s]) => tape'[s][i].lease = leaseMint[s]
  BY <1>1, <1>3, <1>4, <1>5
<1>7. ASSUME NEW i \in 1..Len(tape'[s]), NEW j \in 1..Len(tape'[s]), i < j
      PROVE  tape'[s][i].lease <= tape'[s][j].lease
  <2>1. i \in 1..Len(tape[s]) /\ (j = Len(tape'[s]) \/ j \in 1..Len(tape[s]))
    BY <1>1, <1>4, <1>7
  <2>2. QED
    BY <1>4, <1>6, <1>7, <2>1 DEF TapeInv, TapeUnmixed
<1>8. QED
  BY <1>2, <1>6, <1>7 DEF TapeInv, TapeUnmixed

\* Every statement on a session keeps its log in order.
LEMMA TapeStep ==
    ASSUME SessionTypeOK, TapeInv, [SessionStep]_sessionVars
    PROVE  TapeInv'
<1> DEFINE LeaseGood(q) ==
      /\ sessionLease'[q].token \in {0, leaseMint'[q]}
      /\ sessionLease'[q].holder # "none" => sessionLease'[q].token # 0
<1>1. ASSUME UNCHANGED tape, \A q \in Sessions : leaseMint'[q] \in {leaseMint[q], leaseMint[q] + 1},
             \A q \in Sessions : LeaseGood(q)
      PROVE  TapeInv'
  <2>1. TapeUnmixed'
    BY <1>1 DEF TapeInv, TapeUnmixed
  <2>2. ASSUME NEW q \in Sessions, NEW i \in 1..Len(tape'[q])
        PROVE  tape'[q][i].lease <= leaseMint'[q]
    <3>1. tape[q] \in Seq(Entry) /\ leaseMint[q] \in Nat
      BY DEF SessionTypeOK
    <3>2. tape[q][i].lease \in Nat /\ tape[q][i].lease <= leaseMint[q]
      <4>1. i \in 1..Len(tape[q])
        BY <1>1, <2>2
      <4>2. tape[q][i] \in Entry
        BY <3>1, <4>1
      <4>3. QED
        BY <4>1, <4>2 DEF TapeInv, Entry
    <3>3. QED
      BY <1>1, <3>1, <3>2
  <2>3. QED
    BY <1>1, <2>1, <2>2 DEF TapeInv
<1>2. ASSUME NEW s \in Sessions, NEW h, h # "none", acquireLease(s, h) PROVE TapeInv'
  <2>1. \A q \in Sessions : LeaseGood(q)
    BY <1>2 DEF acquireLease, TapeInv, SessionTypeOK
  <2>2. QED
    BY <1>1, <1>2, <2>1 DEF acquireLease, SessionTypeOK
<1>3. ASSUME NEW s \in Sessions, NEW t, NEW x, append(s, t, x) PROVE TapeInv'
  <2>1. t = leaseMint[s]
    BY <1>3 DEF append, LeaseValid, TapeInv
  <2>2. QED
    BY <1>3, <2>1, AppendKeepsOrder DEF append, TapeInv
<1>4. ASSUME NEW s \in Sessions, UNCHANGED <<leaseMint, tape>>, NEW v,
             v = NoLease \/ v = sessionLease[s] \/ v = [sessionLease[s] EXCEPT !.lapsed = TRUE],
             sessionLease' = [sessionLease EXCEPT ![s] = v]
      PROVE  TapeInv'
  <2>1. \A q \in Sessions : LeaseGood(q)
    BY <1>4 DEF TapeInv, SessionTypeOK, SessionLeaseRow, NoLease
  <2>2. QED
    BY <1>1, <1>4, <2>1 DEF SessionTypeOK
<1>5. ASSUME NEW s \in Sessions,
             (\E t : releaseSession(s, t)) \/ forceReleaseLease(s) \/ SessionLeaseLapses(s)
      PROVE  TapeInv'
  BY <1>4, <1>5 DEF releaseSession, forceReleaseLease, SessionLeaseLapses
<1>6. ASSUME NEW s \in Sessions, CompactionEnds(s) PROVE TapeInv'
  <2>1. \A q \in Sessions : LeaseGood(q)
    BY <1>6 DEF CompactionEnds, TapeInv, SessionTypeOK, SessionLeaseRow, NoLease
  <2>2. CASE LeaseValid(s, compaction[s])
    <3>1. compaction[s] = leaseMint[s]
      BY <2>2 DEF LeaseValid, TapeInv
    <3>2. /\ tape' = [tape EXCEPT ![s] =
                Append(tape[s], [lease |-> leaseMint[s], writer |-> NoRun])]
          /\ UNCHANGED leaseMint
      BY <1>6, <2>2, <3>1 DEF CompactionEnds
    <3>3. /\ \A q \in Sessions : \A i \in 1..Len(tape'[q]) : tape'[q][i].lease <= leaseMint'[q]
          /\ TapeUnmixed'
      BY <3>2, AppendKeepsOrder
    <3>4. QED
      BY <2>1, <3>3 DEF TapeInv
  <2>3. CASE ~LeaseValid(s, compaction[s])
    BY <1>1, <1>6, <2>1, <2>3 DEF CompactionEnds, SessionTypeOK
  <2>4. QED
    BY <2>2, <2>3
<1>7. CASE UNCHANGED sessionVars
  BY <1>7 DEF sessionVars, TapeInv, TapeUnmixed
<1>8. QED
  BY <1>2, <1>3, <1>5, <1>6, <1>7 DEF SessionStep

\* The inductive invariants so far, together.
BaseInv == SafetyInv /\ TypeOK /\ TapeInv

\* They hold throughout.
THEOREM BaseInvariant == Spec => []BaseInv
<1>1. Init => TapeInv
  BY DEF Init, SessionInit, TapeInv, TapeUnmixed, NoLease
<1>2. SafetyInv /\ TypeOK /\ TapeInv /\ [Next]_vars => TapeInv'
  BY NextIsSessionStep, TapeStep DEF SafetyInv, TypeOK
<1>3. QED
  BY <1>1, <1>2, SafetyInvariant, TypeCorrect, PTL DEF Spec, BaseInv

\* The entries written under one lease are contiguous in the log: a turn whose
\* lease expired or was force-released by the reaper never writes again once
\* another holder has written (withLease of postgres-session-store.ts).
THEOREM TapeUnmixedHolds == Spec => []TapeUnmixed
  BY BaseInvariant, PTL DEF BaseInv, TapeInv

-----------------------------------------------------------------------------
(* What a frame knows of its row.                                          *)

\* A worker's claimed row: its token was minted for the row, its text is the
\* row's, and while the token is good so are the counters it remembers.
RowOf(f) ==
    f.run # NoRun =>
        /\ f.token \in 1..minted[f.run]
        /\ attempts[f.run] > 0
        /\ f.text = text[f.run]
        /\ HoldsLease(f.run, f.token) =>
              /\ f.attempts = attempts[f.run]
              /\ f.errors = errors[f.run]
              /\ f.pc = "retire" => f.seen = budgetOf(f.run)

\* A statement of the store does not falsify it.
LEMMA RowKept ==
    ASSUME StoreTypeOK, [StoreStep]_storeVars, NEW f \in Frame, RowOf(f)
    PROVE  RowOf(f)'
<1> SUFFICES ASSUME f.run # NoRun PROVE RowOf(f)'
  BY DEF RowOf
<1> DEFINE q == f.run
<1>1. q \in Runs /\ f.token \in Nat
  BY DEF Frame
<1>2. /\ f.token \in 1..minted[q] /\ attempts[q] > 0 /\ f.text = text[q]
      /\ HoldsLease(q, f.token) =>
            /\ f.attempts = attempts[q] /\ f.errors = errors[q]
            /\ f.pc = "retire" => f.seen = budgetOf(q)
  BY DEF RowOf
<1> DEFINE Goal ==
      /\ f.token \in 1..minted'[q] /\ attempts'[q] > 0 /\ f.text = text'[q]
      /\ (status'[q] = "running" /\ runLease'[q].token = f.token) =>
            /\ f.attempts = attempts'[q] /\ f.errors = errors'[q]
            /\ f.pc = "retire" => f.seen = [attempts |-> attempts'[q], errors |-> errors'[q]]
<1>3. SUFFICES Goal
  BY DEF RowOf, HoldsLease, budgetOf
<1> USE DEF HoldsLease, budgetOf, StoreTypeOK
<1> HIDE DEF q
<1>4. CASE UNCHANGED <<status, text, minted, attempts, errors>>
           /\ (\A r \in Runs : runLease'[r].token = runLease[r].token)
  BY <1>1, <1>2, <1>4
<1>5. ASSUME NEW r \in Runs, enqueue(r) PROVE Goal
  BY <1>1, <1>2, <1>5 DEF enqueue, leasing, budget
<1>6. ASSUME NEW r \in Runs, claim(r) PROVE Goal
  BY <1>1, <1>2, <1>6 DEF claim, Mints, Leased, intake
<1>7. ASSUME NEW r \in Runs, NEW n, editPendingText(r, n) PROVE Goal
  BY <1>1, <1>2, <1>7 DEF editPendingText, Unstarted, leasing, budget
<1>8. ASSUME NEW r \in Runs, NEW u, withdraw(r, u) PROVE Goal
  BY <1>1, <1>2, <1>8 DEF withdraw, intake, leasing, budget
<1>9. ASSUME NEW r \in Runs, NEW t, releaseLease(r, t) PROVE Goal
  BY <1>1, <1>2, <1>9 DEF releaseLease, intake, budget
<1>10. ASSUME NEW r \in Runs, NEW t, fence(r, t) PROVE Goal
  BY <1>1, <1>2, <1>10 DEF fence, Mints, Leased, intake, budget
<1>11. ASSUME NEW r \in Runs, NEW t, NEW result \in Results, complete(r, t, result) PROVE Goal
  BY <1>1, <1>2, <1>11 DEF complete, Leased, budget
<1>12. ASSUME NEW r \in Runs, NEW t, NEW seen, NEW retry, NEW c, NEW b \in BOOLEAN,
              retire(r, t, seen, retry, c, b)
       PROVE Goal
  <2>1. /\ UNCHANGED <<text, minted, attempts>>
        /\ runLease' = [runLease EXCEPT ![r] = Leased(NoToken)]
        /\ \E v : status' = [status EXCEPT ![r] = v]
        /\ \E v : errors' = [errors EXCEPT ![r] = v]
    BY <1>12 DEF retire, intake
  <2>2. QED
    BY <1>1, <1>2, <2>1 DEF Leased, NoToken
<1>13. ASSUME NEW r \in Runs, NEW t, heartbeat(r, t) PROVE Goal
  BY <1>4, <1>13 DEF heartbeat, Leased, intake, budget
<1>14. ASSUME NEW r \in Runs, LeaseLapses(r) PROVE Goal
  BY <1>4, <1>14 DEF LeaseLapses, intake, budget
<1>15. ASSUME NEW r \in Runs, noteTurnUserSeq(r) \/ BackoffElapses(r) PROVE Goal
  BY <1>4, <1>15 DEF noteTurnUserSeq, BackoffElapses, leasing, budget, intake
<1>16. CASE UNCHANGED storeVars
  BY <1>4, <1>16 DEF storeVars
<1>17. QED
  BY <1>5, <1>6, <1>7, <1>8, <1>9, <1>10, <1>11, <1>12, <1>13, <1>14, <1>15, <1>16
     DEF StoreStep

\* g still works on the row f claimed.
SameRow(f, g) ==
    /\ g.run = f.run /\ g.token = f.token /\ g.attempts = f.attempts
    /\ g.errors = f.errors /\ g.text = f.text

\* A worker that claimed r.
Claimed(r, g) ==
    /\ claim(r)
    /\ g.pc = "turn" /\ g.run = r /\ g.token = runLease'[r].token
    /\ g.attempts = attempts'[r] /\ g.errors = errors[r] /\ g.text = text[r]

\* A step of a worker replaces its own frame: by one with no run, by one that
\* claimed a row, or by one on the same row, which reaches "retire" only by
\* reading the row.
LEMMA WorkerShape ==
    ASSUME TypeOK, FramesNameRuns, NEW w \in Workers, WorkerStep(w)
    PROVE  /\ UNCHANGED reaper
           /\ \A v \in Workers \ {w} : worker'[v] = worker[v]
           /\ \/ worker'[w].run = NoRun
              \/ \E r \in Runs : Claimed(r, worker'[w])
              \/ /\ SameRow(worker[w], worker'[w])
                 /\ worker'[w].pc = "retire" =>
                       \/ worker[w].pc = "retire" /\ worker'[w].seen = worker[w].seen
                       \/ worker'[w].seen = budgetOf(worker[w].run) /\ UNCHANGED storeVars
<1> DEFINE f == worker[w]
           Good(g) == \/ g.run = NoRun
                      \/ \E r \in Runs : Claimed(r, g)
                      \/ /\ SameRow(f, g)
                         /\ g.pc = "retire" =>
                               \/ f.pc = "retire" /\ g.seen = f.seen
                               \/ g.seen = budgetOf(f.run) /\ UNCHANGED storeVars
<1>1. f \in Frame /\ worker \in [Workers -> Frame]
  BY DEF TypeOK
<1>2. UNCHANGED reaper
  BY DEF WorkerStep, WorkerClaims, HeartbeatAlive, HeartbeatLost, HeartbeatError,
     TurnAcquires, TurnRefused, TurnAppends, TurnNotes, queueVars, TurnReturns, TurnThrows,
     TurnCleanupFails, Completes, CompletionRefused, CompletionErrs, WorkerSettles, FailReads, FailRetires,
     FailMisses, FailErrs, Shutdown, HandsBack, Crash, Restart
<1>3. SUFFICES \E g : worker' = [worker EXCEPT ![w] = g] /\ Good(g)
  BY <1>1, <1>2
<1>4. Good(IdleFrame) /\ Good(DownFrame)
  BY DEF IdleFrame, DownFrame
<1>5. f.pc # "retire" => Good(f)
  BY DEF SameRow
<1>6. Good(Leave(f))
  BY <1>1, <1>4 DEF Leave, SameRow, Frame
<1>7. ASSUME NEW c, c # "retire" PROVE Good([f EXCEPT !.pc = c])
  BY <1>1, <1>7 DEF SameRow, Frame
<1>8. CASE \E r \in Runs : WorkerClaims(w, r)
  <2> PICK r \in Runs : WorkerClaims(w, r)
    BY <1>8
  <2> DEFINE g == [IdleFrame EXCEPT !.pc = "turn", !.run = r,
                      !.token = runLease'[r].token, !.attempts = attempts'[r],
                      !.errors = errors[r], !.text = text[r]]
  <2>1. Claimed(r, g)
    BY DEF WorkerClaims, Claimed, IdleFrame
  <2>2. QED
    BY <2>1 DEF WorkerClaims
<1>9. CASE HeartbeatAlive(w) \/ HeartbeatLost(w) \/ HeartbeatError(w)
  <2>1. f.pc = "turn"
    BY <1>9 DEF HeartbeatAlive, HeartbeatLost, HeartbeatError, Beats
  <2>2. PICK n : worker' = [worker EXCEPT ![w] = [f EXCEPT !.lost = n]]
    BY <1>9 DEF HeartbeatAlive, HeartbeatLost, HeartbeatError
  <2>3. Good([f EXCEPT !.lost = n])
    BY <1>1, <2>1 DEF SameRow, Frame
  <2>4. QED
    BY <2>2, <2>3
<1>10. CASE TurnAcquires(w) \/ TurnAppends(w)
  <2>1. f.pc = "turn"
    BY <1>10 DEF TurnAcquires, TurnAppends
  <2>2. PICK n : \/ worker' = [worker EXCEPT ![w] = [f EXCEPT !.lease = n]]
                 \/ worker' = [worker EXCEPT ![w] = [f EXCEPT !.appended = n]]
    BY <1>10 DEF TurnAcquires, TurnAppends
  <2>3. Good([f EXCEPT !.lease = n]) /\ Good([f EXCEPT !.appended = n])
    BY <1>1, <2>1 DEF SameRow, Frame
  <2>4. QED
    BY <2>2, <2>3
<1>11. CASE TurnRefused(w)
  <2> DEFINE g == IF f.shutdown THEN [f EXCEPT !.pc = "handback"]
                                ELSE [f EXCEPT !.pc = "complete", !.result = "busy"]
  <2>1. worker' = [worker EXCEPT ![w] = g]
    BY <1>11 DEF TurnRefused
  <2>2. Good(g)
    BY <1>1 DEF SameRow, Frame
  <2> HIDE DEF g
  <2>3. QED
    BY <2>1, <2>2
<1>12. CASE TurnReturns(w)
  <2> DEFINE g == IF f.shutdown THEN [f EXCEPT !.pc = "handback", !.lease = 0]
                  ELSE [f EXCEPT !.pc = "complete", !.result = "answer", !.lease = 0]
  <2>1. worker' = [worker EXCEPT ![w] = g]
    BY <1>12 DEF TurnReturns
  <2>2. Good(g)
    BY <1>1 DEF SameRow, Frame
  <2> HIDE DEF g
  <2>3. QED
    BY <2>1, <2>2
<1>13. CASE \E retry \in BOOLEAN : TurnThrows(w, retry)
  <2> PICK retry \in BOOLEAN : TurnThrows(w, retry)
    BY <1>13
  <2> DEFINE g == IF f.shutdown THEN [f EXCEPT !.pc = "handback", !.lease = 0]
                  ELSE [f EXCEPT !.pc = "fail", !.retry = retry, !.lease = 0]
  <2>1. worker' = [worker EXCEPT ![w] = g]
    BY DEF TurnThrows
  <2>2. Good(g)
    BY <1>1 DEF SameRow, Frame
  <2> HIDE DEF g
  <2>3. QED
    BY <2>1, <2>2
<1>14. CASE Completes(w) \/ CompletionRefused(w) \/ CompletionErrs(w)
  <2>1. PICK c : c # "retire" /\ worker' = [worker EXCEPT ![w] = [f EXCEPT !.pc = c]]
    BY <1>14 DEF Completes, CompletionRefused, CompletionErrs
  <2>2. QED
    BY <1>7, <2>1
<1>15. CASE WorkerSettles(w) \/ FailMisses(w) \/ FailErrs(w)
  BY <1>6, <1>15 DEF WorkerSettles, FailMisses, FailErrs
<1>16. CASE FailReads(w)
  <2> DEFINE g == [f EXCEPT !.pc = "retire", !.seen = budgetOf(f.run)]
  <2>1. Good(g)
    BY <1>1, <1>16 DEF SameRow, Frame, FailReads
  <2> HIDE DEF g
  <2>2. worker' = [worker EXCEPT ![w] = g] \/ worker' = [worker EXCEPT ![w] = Leave(f)]
    BY <1>16 DEF FailReads, g
  <2>3. QED
    BY <1>6, <2>1, <2>2
<1>17. CASE FailRetires(w)
  BY <1>6, <1>7, <1>17 DEF FailRetires
<1>18. CASE Shutdown(w)
  <2> DEFINE g == IF f.pc = "idle" THEN DownFrame ELSE [f EXCEPT !.shutdown = TRUE]
  <2>1. worker' = [worker EXCEPT ![w] = g]
    BY <1>18 DEF Shutdown
  <2>2. Good(g)
    BY <1>1, <1>4 DEF SameRow, Frame
  <2> HIDE DEF g
  <2>3. QED
    BY <2>1, <2>2
<1>19. CASE HandsBack(w) \/ Crash(w) \/ Restart(w)
  BY <1>4, <1>19 DEF HandsBack, Crash, Restart
<1>20. CASE TurnNotes(w)
  <2>1. worker' = [worker EXCEPT ![w] = f] /\ Good(f)
    BY <1>1, <1>5, <1>20 DEF TurnNotes, queueVars
  <2>2. QED
    BY <2>1
<1>21. CASE TurnCleanupFails(w)
  <2> DEFINE g == IF f.shutdown THEN [f EXCEPT !.pc = "handback", !.lease = 0]
                  ELSE [f EXCEPT !.pc = "fail", !.retry = TRUE, !.lease = 0]
  <2>1. worker' = [worker EXCEPT ![w] = g]
    BY <1>21 DEF TurnCleanupFails
  <2>2. Good(g)
    BY <1>1 DEF SameRow, Frame
  <2> HIDE DEF g
  <2>3. QED
    BY <2>1, <2>2
<1>22. QED
  BY <1>8, <1>9, <1>10, <1>11, <1>12, <1>13, <1>14, <1>15, <1>16, <1>17, <1>18, <1>19, <1>20,
     <1>21 DEF WorkerStep

\* A reaper that fenced r.
Fenced(r, g) ==
    /\ \E t : fence(r, t)
    /\ g.pc = "release" /\ g.run = r /\ g.fence = runLease'[r].token

\* A step of a reaper replaces its own frame: by one with no run in hand, by one
\* that fenced a run, or by one that goes on with the run it fenced.
LEMMA ReaperShape ==
    ASSUME TypeOK, FramesNameRuns, NEW p \in Reapers, ReaperStep(p)
    PROVE  /\ UNCHANGED worker
           /\ \A q \in Reapers \ {p} : reaper'[q] = reaper[q]
           /\ \/ reaper'[p].run = NoRun
              \/ \E r \in Runs : Fenced(r, reaper'[p])
              \/ reaper'[p].run = reaper[p].run /\ reaper'[p].fence = reaper[p].fence
<1> DEFINE f == reaper[p]
           Good(g) == \/ g.run = NoRun
                      \/ \E r \in Runs : Fenced(r, g)
                      \/ g.run = f.run /\ g.fence = f.fence
<1>1. f \in Sweep /\ reaper \in [Reapers -> Sweep]
  BY DEF TypeOK
<1>2. UNCHANGED worker
  BY DEF ReaperStep, ReaperReleases, ReaperSelects, ReaperFences, ReaperSkips,
     ReaperRetires, ReaperMisses, ReaperSettles, ReaperEnds, ReaperFails
<1>3. SUFFICES \E g : reaper' = [reaper EXCEPT ![p] = g] /\ Good(g)
  BY <1>1, <1>2
<1>4. /\ Good(IdleSweep) /\ Good(NextOfSweep(f))
      /\ \A t : Good([IdleSweep EXCEPT !.pc = "fence", !.todo = t])
      /\ \A t : Good([f EXCEPT !.todo = t])
      /\ \A c : Good([f EXCEPT !.pc = c])
  BY <1>1 DEF IdleSweep, NextOfSweep, Sweep
<1>5. CASE ReaperSelects(p)
  BY <1>4, <1>5 DEF ReaperSelects
<1>6. CASE ReaperFences(p)
  <2>1. PICK x \in f.todo :
          /\ fence(x.run, x.token)
          /\ reaper' = [reaper EXCEPT ![p] =
                [pc |-> "release", todo |-> f.todo \ {x}, run |-> x.run,
                 fence |-> runLease'[x.run].token, seen |-> x.seen, tooOld |-> x.tooOld]]
    BY <1>6 DEF ReaperFences
  <2>2. x.run \in Runs
    BY DEF FramesNameRuns
  <2>3. Fenced(x.run, [pc |-> "release", todo |-> f.todo \ {x}, run |-> x.run,
                       fence |-> runLease'[x.run].token, seen |-> x.seen,
                       tooOld |-> x.tooOld])
    BY <2>1 DEF Fenced
  <2>4. QED
    BY <2>1, <2>2, <2>3
<1>7. CASE ReaperSkips(p) \/ ReaperReleases(p) \/ ReaperRetires(p)
  BY <1>4, <1>7 DEF ReaperSkips, ReaperReleases, ReaperRetires
<1>8. CASE ReaperMisses(p) \/ ReaperSettles(p) \/ ReaperEnds(p) \/ ReaperFails(p)
  BY <1>4, <1>8 DEF ReaperMisses, ReaperSettles, ReaperEnds, ReaperFails
<1>9. QED
  BY <1>5, <1>6, <1>7, <1>8 DEF ReaperStep

\* No step takes a token back, and claim and fence mint one above all others.
LEMMA MintsGrow ==
    ASSUME StoreTypeOK, [StoreStep]_storeVars
    PROVE  \A r \in Runs : /\ minted'[r] >= minted[r]
                           /\ claim(r) \/ (\E t : fence(r, t)) =>
                                 /\ runLease'[r].token = minted[r] + 1
                                 /\ minted'[r] = minted[r] + 1
<1> USE DEF StoreTypeOK
<1>1. \A r \in Runs : claim(r) \/ (\E t : fence(r, t)) =>
          /\ runLease'[r].token = minted[r] + 1
          /\ minted'[r] = minted[r] + 1
          /\ \A q \in Runs : minted'[q] >= minted[q]
  BY DEF claim, fence, Mints, Leased
<1>2. ASSUME NEW r \in Runs, ~claim(r), ~\E t : fence(r, t),
             \/ enqueue(r) \/ claim(r) \/ noteTurnUserSeq(r)
             \/ LeaseLapses(r) \/ BackoffElapses(r)
             \/ \E n : editPendingText(r, n)
             \/ \E unstartedOnly : withdraw(r, unstartedOnly)
             \/ \E t : heartbeat(r, t) \/ releaseLease(r, t) \/ fence(r, t)
             \/ \E t : \E result \in Results : complete(r, t, result)
             \/ \E t, seen, retry, countsAsError : \E backoff \in BOOLEAN :
                   retire(r, t, seen, retry, countsAsError, backoff)
      PROVE  UNCHANGED minted
  BY <1>2 DEF enqueue, noteTurnUserSeq, LeaseLapses, BackoffElapses, editPendingText, withdraw,
     heartbeat, releaseLease, complete, retire, leasing
<1>3. UNCHANGED minted \/ \E r \in Runs : claim(r) \/ (\E t : fence(r, t))
  BY <1>2 DEF StoreStep, storeVars
<1>4. QED
  BY <1>1, <1>3

FrameInv ==
    /\ \A w \in Workers : RowOf(worker[w])
    /\ \A p \in Reapers : reaper[p].run # NoRun =>
          reaper[p].fence \in 1..minted[reaper[p].run]
    /\ \A v, w \in Workers :
          v # w /\ worker[v].run # NoRun /\ worker[v].run = worker[w].run
             => worker[v].token # worker[w].token
    /\ \A p, q \in Reapers :
          p # q /\ reaper[p].run # NoRun /\ reaper[p].run = reaper[q].run
             => reaper[p].fence # reaper[q].fence
    /\ \A w \in Workers, p \in Reapers :
          worker[w].run # NoRun /\ worker[w].run = reaper[p].run
             => worker[w].token # reaper[p].fence

\* Frames keep knowing their rows, and no two frames hold the same token.
LEMMA FrameStep ==
    ASSUME SafetyInv, TypeOK, FrameInv, [Next]_vars
    PROVE  FrameInv'
<1>1. FramesNameRuns /\ StoreTypeOK /\ [StoreStep]_storeVars
  BY NextIsStoreStep DEF SafetyInv
<1>2. \A w \in Workers : worker[w] \in Frame /\ worker[w].run \in Runs \cup {NoRun}
  BY DEF TypeOK, Frame
<1>3. \A p \in Reapers : reaper[p] \in Sweep /\ reaper[p].run \in Runs \cup {NoRun}
  BY DEF TypeOK, Sweep
<1>4. \A f \in Frame : RowOf(f) => RowOf(f)'
  BY <1>1, RowKept
<1>5. \A r \in Runs : minted[r] \in Nat /\ minted'[r] \in Nat /\ minted'[r] >= minted[r]
  BY <1>1, StoreTypeStep, MintsGrow DEF StoreTypeOK
<1>6. CASE UNCHANGED <<worker, reaper>>
  <2>1. \A w \in Workers : RowOf(worker[w])'
    BY <1>2, <1>4, <1>6 DEF FrameInv, RowOf
  <2>2. \A p \in Reapers : reaper'[p].run # NoRun =>
          reaper'[p].fence \in 1..minted'[reaper'[p].run]
    BY <1>3, <1>5, <1>6 DEF FrameInv
  <2>3. QED
    BY <1>6, <2>1, <2>2 DEF FrameInv
<1>7. ASSUME NEW w \in Workers, WorkerStep(w) PROVE FrameInv'
  <2> DEFINE f == worker[w]
             g == worker'[w]
  <2>1. UNCHANGED reaper /\ \A v \in Workers \ {w} : worker'[v] = worker[v]
    BY <1>1, <1>7, WorkerShape
  <2>2. \A v \in Workers \ {w} : RowOf(worker[v])'
    BY <1>2, <1>4, <2>1 DEF FrameInv, RowOf
  <2>3. \A p \in Reapers : reaper'[p].run # NoRun =>
          reaper'[p].fence \in 1..minted'[reaper'[p].run]
    BY <1>3, <1>5, <2>1 DEF FrameInv
  <2>4. \A v \in Workers : worker[v].run # NoRun => worker[v].token \in 1..minted[worker[v].run]
    BY DEF FrameInv, RowOf
  <2>5. CASE g.run = NoRun
    BY <2>1, <2>2, <2>3, <2>5 DEF FrameInv, RowOf
  <2>6. CASE \E r \in Runs : Claimed(r, g)
    <3>1. PICK r \in Runs : Claimed(r, g)
      BY <2>6
    <3>2. g.run = r /\ g.token = minted[r] + 1 /\ minted'[r] = minted[r] + 1
      BY <1>1, <3>1, MintsGrow DEF Claimed
    <3>3. attempts'[r] > 0 /\ errors'[r] = errors[r] /\ text'[r] = text[r]
      BY <1>1, <3>1 DEF Claimed, claim, intake, StoreTypeOK
    <3>4. RowOf(worker[w])'
      BY <1>5, <3>1, <3>2, <3>3 DEF RowOf, Claimed
    <3>5. /\ \A v \in Workers : worker[v].run = r => worker[v].token # minted[r] + 1
          /\ \A p \in Reapers : reaper[p].run = r => reaper[p].fence # minted[r] + 1
      BY <1>5, <2>4, QueueAssumption DEF FrameInv
    <3>6. QED
      BY <2>1, <2>2, <2>3, <3>2, <3>4, <3>5 DEF FrameInv
  <2>7. CASE /\ SameRow(f, g)
             /\ g.pc = "retire" =>
                       \/ f.pc = "retire" /\ g.seen = f.seen
                       \/ g.seen = budgetOf(f.run) /\ UNCHANGED storeVars
    <3>1. UNCHANGED storeVars => budgetOf(f.run) = [attempts |-> attempts'[f.run],
                                                    errors |-> errors'[f.run]]
      BY DEF storeVars, budgetOf
    <3>2. RowOf(worker[w])'
      <4>1. CASE g.pc # "retire" \/ (f.pc = "retire" /\ g.seen = f.seen)
        BY <1>2, <1>4, <2>7, <4>1 DEF FrameInv, RowOf, SameRow
      <4>2. CASE g.seen = budgetOf(f.run) /\ UNCHANGED storeVars
        BY <1>2, <1>4, <2>7, <3>1, <4>2 DEF FrameInv, RowOf, SameRow, budgetOf
      <4>3. QED
        BY <2>7, <4>1, <4>2
    <3>3. QED
      BY <2>1, <2>2, <2>3, <2>7, <3>2 DEF FrameInv, SameRow
  <2>8. QED
    BY <1>1, <1>7, <2>5, <2>6, <2>7, WorkerShape
<1>8. ASSUME NEW p \in Reapers, ReaperStep(p) PROVE FrameInv'
  <2> DEFINE g == reaper'[p]
  <2>1. UNCHANGED worker /\ \A q \in Reapers \ {p} : reaper'[q] = reaper[q]
    BY <1>1, <1>8, ReaperShape
  <2>2. \A w \in Workers : RowOf(worker[w])'
    BY <1>2, <1>4, <2>1 DEF FrameInv, RowOf
  <2>3. \A q \in Reapers \ {p} : reaper'[q].run # NoRun =>
          reaper'[q].fence \in 1..minted'[reaper'[q].run]
    BY <1>3, <1>5, <2>1 DEF FrameInv
  <2>4. \A v \in Workers : worker[v].run # NoRun => worker[v].token \in 1..minted[worker[v].run]
    BY DEF FrameInv, RowOf
  <2>5. CASE g.run = NoRun
    BY <2>1, <2>2, <2>3, <2>5 DEF FrameInv
  <2>6. CASE g.run = reaper[p].run /\ g.fence = reaper[p].fence
    <3>1. g.run # NoRun => g.fence \in 1..minted'[g.run]
      BY <1>3, <1>5, <2>6 DEF FrameInv
    <3>2. QED
      BY <2>1, <2>2, <2>3, <2>6, <3>1 DEF FrameInv
  <2>7. CASE \E r \in Runs : Fenced(r, g)
    <3>1. PICK r \in Runs : Fenced(r, g)
      BY <2>7
    <3>2. g.run = r /\ g.fence = minted[r] + 1 /\ minted'[r] = minted[r] + 1
      BY <1>1, <3>1, MintsGrow DEF Fenced
    <3>3. /\ \A v \in Workers : worker[v].run = r => worker[v].token # minted[r] + 1
          /\ \A q \in Reapers : reaper[q].run = r => reaper[q].fence # minted[r] + 1
      BY <1>5, <2>4, QueueAssumption DEF FrameInv
    <3>4. g.fence \in 1..minted'[g.run]
      BY <1>5, <3>2
    <3>5. QED
      BY <2>1, <2>2, <2>3, <3>2, <3>3, <3>4 DEF FrameInv
  <2>8. QED
    BY <1>1, <1>8, <2>5, <2>6, <2>7, ReaperShape
<1>9. CASE UserStep \/ TimeStep \/ CompactionStep \/ UNCHANGED vars
  BY <1>6, <1>9 DEF UserStep, Enqueue, Withdraw, Edit, Steer, queueVars, TimeStep,
     LapseAbandoned, LapseStalled, CoolsDown, SessionLapses, CompactionStep,
     CompactionAcquires, CompactionEnds, vars
<1>10. QED
  BY <1>7, <1>8, <1>9 DEF Next

\* FrameInv holds throughout.
THEOREM FrameInvariant == Spec => []FrameInv
<1>1. Init => FrameInv
  BY DEF Init, FrameInv, RowOf, IdleFrame, IdleSweep
<1>2. QED
  BY <1>1, FrameStep, SafetyInvariant, TypeCorrect, PTL DEF Spec

\* The text a worker runs is the text of the row: no edit of a queued message
\* is accepted once a worker has claimed it, then or after a retry.
THEOREM AcknowledgedEditIsRunHolds == Spec => []AcknowledgedEditIsRun
<1>1. FrameInv => AcknowledgedEditIsRun
  BY DEF FrameInv, RowOf, AcknowledgedEditIsRun
<1>2. QED
  BY <1>1, FrameInvariant, PTL

\* finalAttempt, computed from the claimed row, agrees with what fail does to
\* the run: as long as the lease is good nobody charged the row meanwhile.
THEOREM FinalAttemptForetoldHolds == Spec => []FinalAttemptForetold
<1>1. TypeOK /\ FramesNameRuns /\ FrameInv => FinalAttemptForetold
  <2> SUFFICES ASSUME TypeOK, FramesNameRuns, FrameInv, NEW w \in Workers,
                      worker[w].pc = "retire", HoldsLease(worker[w].run, worker[w].token)
               PROVE  errorParks(worker[w]) <=> ~Requeues(worker[w].seen, TRUE, TRUE)
    BY DEF FinalAttemptForetold
  <2> DEFINE f == worker[w]
  <2>1. f \in Frame /\ f.run \in Runs
    BY DEF TypeOK, FramesNameRuns
  <2>2. f.run # NoRun
    BY <2>1, QueueAssumption
  <2>3. f.attempts = attempts[f.run] /\ f.errors = errors[f.run] /\ f.seen = budgetOf(f.run)
    BY <2>2 DEF FrameInv, RowOf
  <2>4. f.seen.attempts = f.attempts /\ f.seen.errors = f.errors
    BY <2>3 DEF budgetOf
  <2>5. f.attempts \in Nat /\ f.errors \in Nat
    BY <2>1 DEF Frame
  <2>6. QED
    BY <2>4, <2>5, StoreAssumption DEF errorParks, Requeues, Charge
<1>2. QED
  BY <1>1, FrameInvariant, TypeCorrect, SafetyInvariant, PTL DEF SafetyInv

-----------------------------------------------------------------------------
(* Terminal notifications.                                                 *)

\* A frame about to notify is the only one, of a settled run that nobody was
\* notified of.
SettleInv ==
    /\ \A r \in Runs : settles[r] = 0 \/ (settles[r] = 1 /\ isTerminal(r))
    /\ \A w \in Workers : worker[w].pc = "settle" =>
          isTerminal(worker[w].run) /\ settles[worker[w].run] = 0
    /\ \A p \in Reapers : reaper[p].pc = "settle" =>
          isTerminal(reaper[p].run) /\ settles[reaper[p].run] = 0
    /\ \A v, w \in Workers :
          v # w /\ worker[v].pc = "settle" /\ worker[w].pc = "settle"
             => worker[v].run # worker[w].run
    /\ \A p, q \in Reapers :
          p # q /\ reaper[p].pc = "settle" /\ reaper[q].pc = "settle"
             => reaper[p].run # reaper[q].run
    /\ \A w \in Workers, p \in Reapers :
          worker[w].pc = "settle" /\ reaper[p].pc = "settle"
             => worker[w].run # reaper[p].run

\* How a step from frame f to frame g may come to notify, or notifies: f was
\* about to and either still is or has done it, or it has just settled the run.
Notifies(f, g) ==
    \/ /\ f.pc = "settle" /\ g.pc # "settle"
       /\ settles' = [settles EXCEPT ![f.run] = @ + (IF isTerminal(f.run) THEN 1 ELSE 0)]
    \/ /\ UNCHANGED settles
       /\ \/ g.pc # "settle"
          \/ f.pc = "settle" /\ g.run = f.run
          \/ g.run = f.run /\ status[f.run] = "running" /\ status'[f.run] \in {"done", "failed"}

\* A row whose token a statement matched was running.
LEMMA SettlersHeld ==
    ASSUME StoreTypeOK, LeasedIffRunning, NEW r \in Runs, NEW t
    PROVE  /\ \A x : complete(r, t, x) => status[r] = "running" /\ status'[r] = "done"
           /\ \A seen, retry, c, b : retire(r, t, seen, retry, c, b) =>
                 /\ status[r] = "running"
                 /\ ~Requeues(seen, retry, c) => status'[r] = "failed"
<1>1. \A x : complete(r, t, x) => status[r] = "running" /\ status'[r] = "done"
  BY DEF complete, CompletionAccepted, LeasedIffRunning, StoreTypeOK
<1>2. ASSUME NEW seen, NEW retry, NEW c, NEW b, retire(r, t, seen, retry, c, b)
      PROVE  status[r] = "running" /\ (~Requeues(seen, retry, c) => status'[r] = "failed")
  BY <1>2 DEF retire, HoldsLease, StoreTypeOK
<1>3. QED
  BY <1>1, <1>2

\* No worker notifies but for a run it has just settled.
LEMMA WorkerNotifies ==
    ASSUME TypeOK, SafetyInv, NEW w \in Workers, WorkerStep(w)
    PROVE  Notifies(worker[w], worker'[w])
<1> DEFINE f == worker[w]
<1>1. f \in Frame /\ worker \in [Workers -> Frame]
  BY DEF TypeOK
<1>2. /\ StoreTypeOK /\ LeasedIffRunning
      /\ f.pc \notin {"idle", "down"} => f.run \in Runs
  BY DEF SafetyInv, FramesNameRuns
<1>3. Leave(f).pc # "settle" /\ IdleFrame.pc # "settle" /\ DownFrame.pc # "settle"
  BY <1>1 DEF Leave, IdleFrame, DownFrame, Frame
<1>4. \A g : worker' = [worker EXCEPT ![w] = g] => worker'[w] = g
  BY <1>1
<1>5. CASE \E r \in Runs : WorkerClaims(w, r)
  <2> PICK r \in Runs : WorkerClaims(w, r)
    BY <1>5
  <2> DEFINE g == [IdleFrame EXCEPT !.pc = "turn", !.run = r,
                      !.token = runLease'[r].token, !.attempts = attempts'[r],
                      !.errors = errors[r], !.text = text[r]]
  <2>1. g.pc = "turn"
    BY DEF IdleFrame
  <2>2. worker'[w] = g /\ UNCHANGED settles
    BY <1>4 DEF WorkerClaims
  <2> HIDE DEF g
  <2>3. QED
    BY <2>1, <2>2 DEF Notifies
<1>6. CASE HeartbeatAlive(w) \/ HeartbeatLost(w) \/ HeartbeatError(w)
  <2>1. PICK n : worker' = [worker EXCEPT ![w] = [f EXCEPT !.lost = n]]
    BY <1>6 DEF HeartbeatAlive, HeartbeatLost, HeartbeatError
  <2>2. worker'[w].pc = "turn" /\ UNCHANGED settles
    BY <1>1, <1>6, <2>1 DEF HeartbeatAlive, HeartbeatLost, HeartbeatError, Beats, Frame
  <2>3. QED
    BY <2>2 DEF Notifies
<1>7. CASE TurnAcquires(w) \/ TurnAppends(w)
  <2>1. PICK n : \/ worker' = [worker EXCEPT ![w] = [f EXCEPT !.lease = n]]
                 \/ worker' = [worker EXCEPT ![w] = [f EXCEPT !.appended = n]]
    BY <1>7 DEF TurnAcquires, TurnAppends
  <2>2. worker'[w].pc = "turn" /\ UNCHANGED settles
    BY <1>1, <1>7, <2>1 DEF TurnAcquires, TurnAppends, Frame
  <2>3. QED
    BY <2>2 DEF Notifies
<1>8. CASE \/ TurnRefused(w) \/ TurnReturns(w) \/ TurnCleanupFails(w)
           \/ \E retry \in BOOLEAN : TurnThrows(w, retry)
  <2>1. worker'[w].pc \in {"handback", "complete", "fail"} /\ UNCHANGED settles
    <3>1. CASE TurnRefused(w)
      BY <1>1, <3>1 DEF TurnRefused, Frame
    <3>2. CASE TurnReturns(w)
      BY <1>1, <3>2 DEF TurnReturns, Frame
    <3>3. CASE \E retry \in BOOLEAN : TurnThrows(w, retry)
      BY <1>1, <3>3 DEF TurnThrows, Frame
    <3>4. CASE TurnCleanupFails(w)
      BY <1>1, <3>4 DEF TurnCleanupFails, Frame
    <3>5. QED
      BY <1>8, <3>1, <3>2, <3>3, <3>4
  <2>2. QED
    BY <2>1 DEF Notifies
<1>9. CASE Completes(w)
  <2>1. /\ worker'[w].run = f.run /\ UNCHANGED settles /\ f.run \in Runs
        /\ complete(f.run, f.token, f.result)
    BY <1>1, <1>2, <1>9 DEF Completes, Frame
  <2>2. QED
    BY <1>2, <2>1, SettlersHeld DEF Notifies
<1>10. CASE CompletionRefused(w) \/ CompletionErrs(w)
  <2>1. worker'[w].pc \in {"handback", "fail"} /\ UNCHANGED settles
    BY <1>1, <1>10 DEF CompletionRefused, CompletionErrs, Frame
  <2>2. QED
    BY <2>1 DEF Notifies
<1>11. CASE WorkerSettles(w)
  BY <1>3, <1>4, <1>11 DEF WorkerSettles, Notifies
<1>12. CASE FailMisses(w) \/ FailErrs(w)
  BY <1>3, <1>4, <1>12 DEF FailMisses, FailErrs, Notifies
<1>13. CASE FailReads(w)
  <2>1. worker'[w].pc # "settle" /\ UNCHANGED settles
    BY <1>1, <1>3, <1>13 DEF FailReads, Frame
  <2>2. QED
    BY <2>1 DEF Notifies
<1>14. CASE FailRetires(w)
  <2>1. /\ UNCHANGED settles /\ f.run \in Runs
        /\ retire(f.run, f.token, f.seen, f.retry, TRUE, TRUE)
    BY <1>2, <1>14 DEF FailRetires
  <2>2. CASE Requeues(f.seen, f.retry, TRUE)
    BY <1>3, <1>4, <1>14, <2>1, <2>2 DEF FailRetires, Notifies
  <2>3. CASE ~Requeues(f.seen, f.retry, TRUE)
    <3>1. worker'[w].run = f.run
      BY <1>1, <1>14, <2>3 DEF FailRetires, Frame
    <3>2. status[f.run] = "running" /\ status'[f.run] = "failed"
      BY <1>2, <2>1, <2>3, SettlersHeld
    <3>3. QED
      BY <2>1, <3>1, <3>2 DEF Notifies
  <2>4. QED
    BY <2>2, <2>3
<1>15. CASE Shutdown(w)
  <2> DEFINE g == IF f.pc = "idle" THEN DownFrame ELSE [f EXCEPT !.shutdown = TRUE]
  <2>1. worker'[w] = g /\ UNCHANGED settles
    BY <1>4, <1>15 DEF Shutdown
  <2>2. g.pc # "settle" \/ (f.pc = "settle" /\ g.run = f.run)
    BY <1>1, <1>3 DEF Frame
  <2> HIDE DEF g
  <2>3. QED
    BY <2>1, <2>2 DEF Notifies
<1>16. CASE HandsBack(w) \/ Crash(w) \/ Restart(w)
  BY <1>3, <1>4, <1>16 DEF HandsBack, Crash, Restart, Notifies
<1>17. CASE TurnNotes(w)
  <2>1. UNCHANGED <<worker, settles>>
    BY <1>17 DEF TurnNotes, queueVars
  <2>2. QED
    BY <2>1 DEF Notifies
<1>18. QED
  BY <1>5, <1>6, <1>7, <1>8, <1>9, <1>10, <1>11, <1>12, <1>13, <1>14, <1>15, <1>16, <1>17
     DEF WorkerStep

\* No reaper notifies but for a run it has just parked.
LEMMA ReaperNotifies ==
    ASSUME TypeOK, SafetyInv, NEW p \in Reapers, ReaperStep(p)
    PROVE  Notifies(reaper[p], reaper'[p])
<1> DEFINE f == reaper[p]
<1>1. f \in Sweep /\ reaper \in [Reapers -> Sweep]
  BY DEF TypeOK
<1>2. /\ StoreTypeOK /\ LeasedIffRunning
      /\ f.pc \in {"release", "retire", "settle"} => f.run \in Runs
  BY DEF SafetyInv, FramesNameRuns
<1>3. /\ NextOfSweep(f).pc # "settle" /\ IdleSweep.pc # "settle"
      /\ \A t : [IdleSweep EXCEPT !.pc = "fence", !.todo = t].pc # "settle"
  BY DEF NextOfSweep, IdleSweep
<1>4. \A g : reaper' = [reaper EXCEPT ![p] = g] => reaper'[p] = g
  BY <1>1
<1>5. CASE ReaperSelects(p)
  <2>1. PICK old \in SUBSET Expired :
              reaper' = [reaper EXCEPT ![p] = [IdleSweep EXCEPT !.pc = "fence",
                !.todo = {[run |-> r, token |-> runLease[r].token,
                           seen |-> budgetOf(r), tooOld |-> r \in old] : r \in Expired}]]
    BY <1>5, Zenon DEF ReaperSelects
  <2>2. reaper'[p].pc # "settle"
    BY <1>3, <1>4, <2>1
  <2>3. QED
    BY <1>5, <2>2 DEF ReaperSelects, Notifies
<1>6. CASE ReaperFences(p) \/ ReaperSkips(p) \/ ReaperReleases(p)
  <2>1. reaper'[p].pc \in {"fence", "release", "retire"} /\ UNCHANGED settles
    BY <1>1, <1>6 DEF ReaperFences, ReaperSkips, ReaperReleases, Sweep
  <2>2. QED
    BY <2>1 DEF Notifies
<1>7. CASE ReaperRetires(p)
  <2>1. /\ UNCHANGED settles /\ f.run \in Runs
        /\ retire(f.run, f.fence, f.seen, ~f.tooOld, FALSE, FALSE)
    BY <1>2, <1>7 DEF ReaperRetires
  <2>2. CASE Requeues(f.seen, ~f.tooOld, FALSE)
    BY <1>3, <1>4, <1>7, <2>1, <2>2 DEF ReaperRetires, Notifies
  <2>3. CASE ~Requeues(f.seen, ~f.tooOld, FALSE)
    <3>1. reaper'[p].run = f.run
      BY <1>1, <1>7, <2>3 DEF ReaperRetires, Sweep
    <3>2. status[f.run] = "running" /\ status'[f.run] = "failed"
      BY <1>2, <2>1, <2>3, SettlersHeld
    <3>3. QED
      BY <2>1, <3>1, <3>2 DEF Notifies
  <2>4. QED
    BY <2>2, <2>3
<1>8. CASE ReaperMisses(p) \/ ReaperSettles(p) \/ ReaperEnds(p) \/ ReaperFails(p)
  BY <1>3, <1>4, <1>8 DEF ReaperMisses, ReaperSettles, ReaperEnds, ReaperFails, Notifies
<1>9. QED
  BY <1>5, <1>6, <1>7, <1>8 DEF ReaperStep

\* Nobody is notified twice, or of a run that is not settled.
LEMMA SettleStep ==
    ASSUME SafetyInv, TypeOK, SettleInv, [Next]_vars
    PROVE  SettleInv'
<1> USE DEF isTerminal
<1>1. FramesNameRuns /\ StoreTypeOK /\ LeasedIffRunning /\ [StoreStep]_storeVars
  BY NextIsStoreStep DEF SafetyInv
<1>2. \A r \in Runs : status[r] \in {"done", "failed"} => status'[r] = status[r]
  BY <1>1, SettledFinalStep
<1>3. /\ \A w \in Workers : worker[w].pc = "settle" => worker[w].run \in Runs
      /\ \A p \in Reapers : reaper[p].pc = "settle" => reaper[p].run \in Runs
  BY <1>1 DEF FramesNameRuns
<1>4. settles \in [Runs -> Nat]
  BY DEF TypeOK
<1>5. CASE UNCHANGED <<worker, reaper, settles>>
  BY <1>2, <1>3, <1>5 DEF SettleInv
<1>6. ASSUME NEW w \in Workers, WorkerStep(w) PROVE SettleInv'
  <2>1. UNCHANGED reaper /\ \A v \in Workers \ {w} : worker'[v] = worker[v]
    BY <1>1, <1>6, WorkerShape
  <2>2. Notifies(worker[w], worker'[w])
    BY <1>6, WorkerNotifies
  <2>3. CASE /\ worker[w].pc = "settle" /\ worker'[w].pc # "settle"
             /\ settles' = [settles EXCEPT ![worker[w].run] =
                                @ + (IF isTerminal(worker[w].run) THEN 1 ELSE 0)]
    BY <1>2, <1>3, <1>4, <2>1, <2>3 DEF SettleInv
  <2>4. CASE UNCHANGED settles /\ worker'[w].pc # "settle"
    BY <1>2, <1>3, <2>1, <2>4 DEF SettleInv
  <2>5. CASE UNCHANGED settles /\ worker[w].pc = "settle" /\ worker'[w].run = worker[w].run
    BY <1>2, <1>3, <2>1, <2>5 DEF SettleInv
  <2>6. CASE /\ UNCHANGED settles /\ worker'[w].run = worker[w].run
             /\ status[worker[w].run] = "running"
             /\ status'[worker[w].run] \in {"done", "failed"}
             /\ worker'[w].pc = "settle"
    <3>1. worker[w].run \in Runs
      BY <1>6, <2>6, FramesStep DEF FramesNameRuns, SafetyInv, Next
    <3>2. QED
      BY <1>2, <1>3, <2>1, <2>6, <3>1 DEF SettleInv
  <2>7. QED
    BY <2>2, <2>3, <2>4, <2>5, <2>6 DEF Notifies
<1>7. ASSUME NEW p \in Reapers, ReaperStep(p) PROVE SettleInv'
  <2>1. UNCHANGED worker /\ \A q \in Reapers \ {p} : reaper'[q] = reaper[q]
    BY <1>1, <1>7, ReaperShape
  <2>2. Notifies(reaper[p], reaper'[p])
    BY <1>7, ReaperNotifies
  <2>3. CASE /\ reaper[p].pc = "settle" /\ reaper'[p].pc # "settle"
             /\ settles' = [settles EXCEPT ![reaper[p].run] =
                                @ + (IF isTerminal(reaper[p].run) THEN 1 ELSE 0)]
    BY <1>2, <1>3, <1>4, <2>1, <2>3 DEF SettleInv
  <2>4. CASE UNCHANGED settles /\ reaper'[p].pc # "settle"
    BY <1>2, <1>3, <2>1, <2>4 DEF SettleInv
  <2>5. CASE UNCHANGED settles /\ reaper[p].pc = "settle" /\ reaper'[p].run = reaper[p].run
    BY <1>2, <1>3, <2>1, <2>5 DEF SettleInv
  <2>6. CASE /\ UNCHANGED settles /\ reaper'[p].run = reaper[p].run
             /\ status[reaper[p].run] = "running"
             /\ status'[reaper[p].run] \in {"done", "failed"}
             /\ reaper'[p].pc = "settle"
    <3>1. reaper[p].run \in Runs
      BY <1>7, <2>6, FramesStep DEF FramesNameRuns, SafetyInv, Next
    <3>2. QED
      BY <1>2, <1>3, <2>1, <2>6, <3>1 DEF SettleInv
  <2>7. QED
    BY <2>2, <2>3, <2>4, <2>5, <2>6 DEF Notifies
<1>8. CASE UserStep \/ TimeStep \/ CompactionStep \/ UNCHANGED vars
  BY <1>5, <1>8 DEF UserStep, Enqueue, Withdraw, Edit, Steer, queueVars, TimeStep,
     LapseAbandoned, LapseStalled, CoolsDown, SessionLapses, CompactionStep,
     CompactionAcquires, CompactionEnds, vars
<1>9. QED
  BY <1>6, <1>7, <1>8 DEF Next

\* onTerminal listeners hear of a run at most once, and only of a settled one,
\* across workers, overlapping sweeps and lost replies of complete().
THEOREM NotifiedAtMostOnceHolds == Spec => []NotifiedAtMostOnce
<1>1. Init => SettleInv
  BY DEF Init, SettleInv, IdleFrame, IdleSweep
<1>2. SettleInv => NotifiedAtMostOnce
  <2> SUFFICES ASSUME SettleInv, NEW r \in Runs
               PROVE  settles[r] <= 1 /\ (settles[r] = 1 => isTerminal(r))
    BY DEF NotifiedAtMostOnce
  <2>1. settles[r] = 0 \/ (settles[r] = 1 /\ isTerminal(r))
    BY DEF SettleInv
  <2>2. QED
    BY <2>1
<1>3. QED
  BY <1>1, <1>2, SettleStep, SafetyInvariant, TypeCorrect, PTL DEF Spec

-----------------------------------------------------------------------------
(* The session lease of a dead turn.                                       *)

\* The session s is held by a turn that held its run when it took the lease.
Covered(s) == sessionLease[s].holder = "turn" /\ cover[s] # NoRun

\* While that is so the run is running, and whoever holds its lease is that
\* turn, or a reaper that is about to release the session.
CoverGood(s) ==
    LET q == cover[s] IN
    /\ SessionOf[q] = s
    /\ status[q] = "running"
    /\ \A w \in Workers : worker[w].run = q /\ worker[w].token = runLease[q].token
          => worker[w].pc = "turn" /\ worker[w].lease = sessionLease[s].token
    /\ \A p \in Reapers : reaper[p].run = q /\ reaper[p].fence = runLease[q].token
          => reaper[p].pc = "release"

CoverInv == \A s \in Sessions : Covered(s) => CoverGood(s)

\* The row of q keeps its status and its token.
RowQuiet(q) == status'[q] = status[q] /\ runLease'[q].token = runLease[q].token

\* The turn of w, if it covers s, goes on.
WorkerQuiet(s, w) ==
    (worker'[w].run = cover[s] /\ worker'[w].token = runLease[cover[s]].token) =>
        /\ worker[w].run = cover[s] /\ worker[w].token = runLease[cover[s]].token
        /\ (worker[w].pc = "turn" /\ worker[w].lease = sessionLease[s].token) =>
              worker'[w].pc = "turn" /\ worker'[w].lease = sessionLease[s].token

\* The reaper p, if it fenced the run that covers s, is still to release s.
ReaperQuiet(s, p) ==
    (reaper'[p].run = cover[s] /\ reaper'[p].fence = runLease[cover[s]].token) =>
        /\ reaper[p].run = cover[s] /\ reaper[p].fence = runLease[cover[s]].token
        /\ reaper[p].pc = "release" => reaper'[p].pc = "release"

SessionQuiet(s) ==
    /\ sessionLease'[s].holder = sessionLease[s].holder
    /\ sessionLease'[s].token = sessionLease[s].token
    /\ cover'[s] = cover[s]

\* A step that is quiet for s keeps its cover good.
LEMMA CoverKept ==
    ASSUME CoverInv, NEW s \in Sessions, Covered(s)',
           SessionQuiet(s), RowQuiet(cover[s]),
           \A w \in Workers : WorkerQuiet(s, w), \A p \in Reapers : ReaperQuiet(s, p)
    PROVE  CoverGood(s)'
<1>1. Covered(s) /\ CoverGood(s)
  BY DEF CoverInv, Covered, SessionQuiet
<1>2. QED
  BY <1>1 DEF CoverGood, SessionQuiet, RowQuiet, WorkerQuiet, ReaperQuiet

\* A running row changes hands only by a statement that names its token.
LEMMA RowsQuiet ==
    ASSUME StoreTypeOK, NEW q \in Runs, status[q] = "running"
    PROVE  /\ UNCHANGED storeVars => RowQuiet(q)
           /\ \A r \in Runs : enqueue(r) \/ claim(r) \/ noteTurnUserSeq(r) \/ LeaseLapses(r)
                 \/ BackoffElapses(r) => RowQuiet(q)
           /\ \A r \in Runs : \A n : editPendingText(r, n) \/ withdraw(r, n) => RowQuiet(q)
           /\ \A r \in Runs : \A t : heartbeat(r, t) => RowQuiet(q)
           /\ \A r \in Runs : \A t : releaseLease(r, t) \/ fence(r, t) =>
                 RowQuiet(q) \/ (r = q /\ t = runLease[q].token)
           /\ \A r \in Runs : \A t, x : complete(r, t, x) =>
                 RowQuiet(q) \/ (r = q /\ t = runLease[q].token)
           /\ \A r \in Runs : \A t, seen, retry, c, b : retire(r, t, seen, retry, c, b) =>
                 RowQuiet(q) \/ (r = q /\ t = runLease[q].token)
<1> USE DEF RowQuiet, StoreTypeOK
<1>1. UNCHANGED storeVars => RowQuiet(q)
  BY DEF storeVars
<1>2. \A r \in Runs : enqueue(r) \/ claim(r) => RowQuiet(q)
  BY DEF enqueue, claim, Claimable, Mints, leasing
<1>3. \A r \in Runs : noteTurnUserSeq(r) \/ LeaseLapses(r) \/ BackoffElapses(r) => RowQuiet(q)
  BY DEF noteTurnUserSeq, LeaseLapses, BackoffElapses, leasing
<1>4. \A r \in Runs : \A n : editPendingText(r, n) \/ withdraw(r, n) => RowQuiet(q)
  BY DEF editPendingText, withdraw, leasing
<1>5. \A r \in Runs : \A t : heartbeat(r, t) => RowQuiet(q)
  BY DEF heartbeat, HoldsLease, Leased
<1>6. \A r \in Runs : \A t : releaseLease(r, t) \/ fence(r, t) =>
          RowQuiet(q) \/ (r = q /\ t = runLease[q].token)
  BY DEF releaseLease, fence, Mints, HoldsLease
<1>7. \A r \in Runs : \A t, x : complete(r, t, x) =>
          RowQuiet(q) \/ (r = q /\ t = runLease[q].token)
  BY DEF complete, CompletionAccepted
<1>8. ASSUME NEW r \in Runs, NEW t, NEW seen, NEW retry, NEW c, NEW b,
             retire(r, t, seen, retry, c, b)
      PROVE  RowQuiet(q) \/ (r = q /\ t = runLease[q].token)
  BY <1>8 DEF retire, HoldsLease
<1>9. QED
  BY <1>1, <1>2, <1>3, <1>4, <1>5, <1>6, <1>7, <1>8

\* The steps of a turn that take, miss, give back or leave the session lease.
SessionAct(w) ==
    \/ TurnAcquires(w) \/ TurnRefused(w) \/ TurnReturns(w) \/ TurnCleanupFails(w)
    \/ \E retry \in BOOLEAN : TurnThrows(w, retry)

\* The other steps of a worker leave sessions alone, do not end a turn except
\* by a crash, and settle or hand back a run only after its turn.
LEMMA OtherWorkerActs ==
    ASSUME TypeOK, SafetyInv, NEW w \in Workers, WorkerStep(w), ~SessionAct(w)
    PROVE  /\ UNCHANGED <<sessionLease, cover>>
           /\ worker[w].pc = "turn" =>
                 \/ worker'[w].run = NoRun
                 \/ worker'[w].pc = "turn" /\ worker'[w].lease = worker[w].lease
           /\ \A q \in Runs : status[q] = "running" =>
                 \/ RowQuiet(q)
                 \/ /\ worker[w].run = q /\ worker[w].token = runLease[q].token
                    /\ worker[w].pc # "turn"
<1> DEFINE f == worker[w]
           Rows == \A q \in Runs : status[q] = "running" =>
                      \/ RowQuiet(q)
                      \/ f.run = q /\ f.token = runLease[q].token /\ f.pc # "turn"
           Turn == f.pc = "turn" => \/ worker'[w].run = NoRun
                                    \/ worker'[w].pc = "turn" /\ worker'[w].lease = f.lease
           Goal == UNCHANGED <<sessionLease, cover>> /\ Turn /\ Rows
<1>1. f \in Frame /\ worker \in [Workers -> Frame]
  BY DEF TypeOK
<1>2. StoreTypeOK /\ (f.pc \notin {"idle", "down"} => f.run \in Runs)
  BY DEF SafetyInv, FramesNameRuns
<1>3. UNCHANGED storeVars => Rows
  BY <1>2, RowsQuiet
<1>4. IdleFrame.run = NoRun /\ DownFrame.run = NoRun
  BY DEF IdleFrame, DownFrame
<1>5. \A g : worker' = [worker EXCEPT ![w] = g] => worker'[w] = g
  BY <1>1
<1>6. CASE \E r \in Runs : WorkerClaims(w, r)
  BY <1>2, <1>6, RowsQuiet DEF WorkerClaims, sessionVars
<1>7. CASE HeartbeatAlive(w) \/ HeartbeatLost(w) \/ HeartbeatError(w)
  <2>1. PICK n : worker' = [worker EXCEPT ![w] = [f EXCEPT !.lost = n]]
    BY <1>7 DEF HeartbeatAlive, HeartbeatLost, HeartbeatError
  <2>2. Turn
    BY <1>1, <2>1 DEF Frame
  <2>3. Rows /\ UNCHANGED <<sessionLease, cover>>
    BY <1>2, <1>3, <1>7, RowsQuiet DEF HeartbeatAlive, HeartbeatLost, HeartbeatError, Beats,
       sessionVars
  <2>4. QED
    BY <2>2, <2>3
<1>8. CASE TurnAppends(w)
  <2>1. PICK n : worker' = [worker EXCEPT ![w] = [f EXCEPT !.appended = n]]
    BY <1>8 DEF TurnAppends
  <2>2. Turn
    BY <1>1, <2>1 DEF Frame
  <2>3. QED
    BY <1>3, <1>8, <2>2 DEF TurnAppends, append
<1>9. CASE TurnNotes(w)
  BY <1>2, <1>9, RowsQuiet DEF TurnNotes, queueVars, sessionVars
<1>10. CASE Completes(w) \/ CompletionErrs(w)
  BY <1>2, <1>3, <1>10, RowsQuiet DEF Completes, CompletionErrs, sessionVars
<1>11. CASE CompletionRefused(w) \/ WorkerSettles(w) \/ FailReads(w) \/ FailMisses(w)
            \/ FailErrs(w)
  BY <1>3, <1>11 DEF CompletionRefused, WorkerSettles, FailReads, FailMisses, FailErrs,
     sessionVars
<1>12. CASE FailRetires(w)
  BY <1>2, <1>12, RowsQuiet DEF FailRetires, sessionVars
<1>13. CASE Shutdown(w)
  <2>1. Turn
    <3>1. f.pc = "turn" => worker' = [worker EXCEPT ![w] = [f EXCEPT !.shutdown = TRUE]]
      BY <1>13 DEF Shutdown
    <3>2. QED
      BY <1>1, <3>1 DEF Frame
  <2>2. QED
    BY <1>3, <1>13, <2>1 DEF Shutdown, sessionVars
<1>14. CASE HandsBack(w)
  BY <1>2, <1>3, <1>14, RowsQuiet DEF HandsBack, sessionVars
<1>15. CASE Crash(w) \/ Restart(w)
  BY <1>3, <1>4, <1>5, <1>15 DEF Crash, Restart, sessionVars
<1>16. QED
  BY <1>6, <1>7, <1>8, <1>9, <1>10, <1>11, <1>12, <1>13, <1>14, <1>15
     DEF WorkerStep, SessionAct

\* CoverInv survives a worker's step.
LEMMA WorkerCoverStep ==
    ASSUME SafetyInv, TypeOK, TapeInv, FrameInv, CoverInv, NEW w \in Workers, WorkerStep(w)
    PROVE  CoverInv'
<1> SUFFICES ASSUME NEW s \in Sessions, Covered(s)' PROVE CoverGood(s)'
  BY DEF CoverInv
<1> DEFINE f == worker[w]
           g == worker'[w]
<1>1. /\ UNCHANGED reaper /\ \A v \in Workers \ {w} : worker'[v] = worker[v]
      /\ \/ g.run = NoRun
         \/ \E r \in Runs : Claimed(r, g)
         \/ SameRow(f, g)
  BY WorkerShape DEF SafetyInv
<1>2. FramesNameRuns /\ StoreTypeOK
  BY DEF SafetyInv
<1>3. \A x \in Sessions : Covered(x) => cover[x] \in Runs
  BY DEF Covered, TypeOK
<1>4. \A p \in Reapers : ReaperQuiet(s, p)
  BY <1>1 DEF ReaperQuiet
<1>5. \A v \in Workers \ {w} : WorkerQuiet(s, v)
  BY <1>1 DEF WorkerQuiet
<1>6. worker \in [Workers -> Frame] /\ f \in Frame
  BY DEF TypeOK
<1>7. CASE ~SessionAct(w)
  <2>1. /\ UNCHANGED <<sessionLease, cover>>
        /\ f.pc = "turn" => g.run = NoRun \/ (g.pc = "turn" /\ g.lease = f.lease)
        /\ \A q \in Runs : status[q] = "running" =>
              RowQuiet(q) \/ (f.run = q /\ f.token = runLease[q].token /\ f.pc # "turn")
    BY <1>7, OtherWorkerActs
  <2>2. SessionQuiet(s) /\ Covered(s) /\ CoverGood(s)
    BY <2>1 DEF SessionQuiet, Covered, CoverInv
  <2>3. cover[s] \in Runs /\ cover[s] # NoRun /\ status[cover[s]] = "running"
    BY <1>3, <2>2, QueueAssumption DEF CoverGood
  <2>4. RowQuiet(cover[s])
    BY <2>1, <2>2, <2>3 DEF CoverGood
  <2>5. WorkerQuiet(s, w)
    <3>1. CASE g.run = NoRun
      BY <2>3, <3>1 DEF WorkerQuiet
    <3>2. CASE \E r \in Runs : Claimed(r, g)
      <4>1. g.run # cover[s]
        BY <2>3, <3>2 DEF Claimed, claim, Claimable
      <4>2. QED
        BY <4>1 DEF WorkerQuiet
    <3>3. CASE SameRow(f, g)
      BY <2>1, <2>3, <3>3 DEF WorkerQuiet, SameRow
    <3>4. QED
      BY <1>1, <3>1, <3>2, <3>3
  <2>6. QED
    BY <1>4, <1>5, <2>2, <2>4, <2>5, CoverKept
<1>8. CASE TurnAcquires(w)
  <2> DEFINE z == SessionOf[f.run]
  <2>1. f.run \in Runs /\ z \in Sessions /\ f.run # NoRun /\ f.pc = "turn"
    BY <1>2, <1>8, StoreAssumption, QueueAssumption DEF TurnAcquires, FramesNameRuns
  <2>2. /\ UNCHANGED storeVars
        /\ acquireLease(z, "turn")
        /\ worker' = [worker EXCEPT ![w] = [f EXCEPT !.lease = leaseMint'[z]]]
        /\ cover' = [cover EXCEPT ![z] = IF HoldsLease(f.run, f.token) THEN f.run ELSE NoRun]
    BY <1>8 DEF TurnAcquires, SessionOfWorker
  <2>3. g.pc = "turn" /\ g.run = f.run /\ g.token = f.token /\ g.lease = leaseMint'[z]
    BY <1>6, <2>1, <2>2 DEF Frame
  <2>4. /\ sessionLease'[z].token = leaseMint'[z]
        /\ \A x \in Sessions \ {z} : sessionLease'[x] = sessionLease[x] /\ cover'[x] = cover[x]
        /\ cover'[z] = IF HoldsLease(f.run, f.token) THEN f.run ELSE NoRun
    BY <2>1, <2>2 DEF acquireLease, TypeOK, SessionTypeOK
  <2>5. CASE s = z
    <3>1. HoldsLease(f.run, f.token) /\ cover'[s] = f.run
      BY <2>4, <2>5 DEF Covered
    <3>2. /\ \A v \in Workers \ {w} : worker[v].run = f.run => worker[v].token # f.token
          /\ \A p \in Reapers : reaper[p].run = f.run => reaper[p].fence # f.token
      BY <2>1 DEF FrameInv
    <3>3. status'[f.run] = "running" /\ runLease'[f.run].token = f.token
      BY <2>2, <3>1 DEF HoldsLease, storeVars
    <3>4. QED
      BY <1>1, <2>3, <2>4, <2>5, <3>1, <3>2, <3>3 DEF CoverGood
  <2>6. CASE s # z
    <3>1. SessionQuiet(s) /\ Covered(s) /\ CoverGood(s)
      BY <2>4, <2>6 DEF SessionQuiet, Covered, CoverInv
    <3>2. f.run # cover[s] /\ cover[s] \in Runs /\ status[cover[s]] = "running"
      BY <1>3, <2>6, <3>1 DEF CoverGood
    <3>3. RowQuiet(cover[s]) /\ WorkerQuiet(s, w)
      BY <1>2, <2>2, <2>3, <3>2, RowsQuiet DEF WorkerQuiet
    <3>4. QED
      BY <1>4, <1>5, <3>1, <3>3, CoverKept
  <2>7. QED
    BY <2>5, <2>6
<1>9. CASE TurnRefused(w)
  <2>1. UNCHANGED <<storeVars, sessionLease, cover>> /\ f.lease = 0
    BY <1>9 DEF TurnRefused, sessionVars
  <2>2. SessionQuiet(s) /\ Covered(s) /\ CoverGood(s)
    BY <2>1 DEF SessionQuiet, Covered, CoverInv
  <2>3. cover[s] \in Runs /\ cover[s] # NoRun /\ status[cover[s]] = "running"
    BY <1>3, <2>2, QueueAssumption DEF CoverGood
  <2>4. sessionLease[s].token # 0
    BY <2>2 DEF TapeInv, Covered
  <2>5. SameRow(f, g)
    BY <1>6, <1>9 DEF TurnRefused, Frame, SameRow
  <2>6. RowQuiet(cover[s]) /\ WorkerQuiet(s, w)
    BY <1>2, <2>1, <2>3, <2>4, <2>5, RowsQuiet DEF WorkerQuiet, SameRow
  <2>7. QED
    BY <1>4, <1>5, <2>2, <2>6, CoverKept
<1>10. CASE TurnReturns(w) \/ \E retry \in BOOLEAN : TurnThrows(w, retry)
  <2> DEFINE z == SessionOf[f.run]
  <2>1. f.run \in Runs /\ z \in Sessions
    BY <1>2, <1>10, StoreAssumption DEF TurnReturns, TurnThrows, FramesNameRuns
  <2>2. UNCHANGED <<storeVars, cover>> /\ releaseSession(z, f.lease)
    BY <1>10 DEF TurnReturns, TurnThrows, TurnLetsGo, SessionOfWorker
  <2>3. /\ \A x \in Sessions \ {z} : sessionLease'[x] = sessionLease[x]
        /\ sessionLease'[z] = IF f.lease # 0 /\ sessionLease[z].token = f.lease
                              THEN NoLease ELSE sessionLease[z]
    BY <2>1, <2>2 DEF releaseSession, TypeOK, SessionTypeOK
  <2>4. /\ sessionLease'[s] = sessionLease[s]
        /\ s = z => ~(f.lease # 0 /\ sessionLease[z].token = f.lease)
    BY <2>3 DEF Covered, NoLease
  <2>5. SessionQuiet(s) /\ Covered(s) /\ CoverGood(s)
    BY <2>2, <2>4 DEF SessionQuiet, Covered, CoverInv
  <2>6. cover[s] \in Runs /\ cover[s] # NoRun /\ status[cover[s]] = "running"
    BY <1>3, <2>5, QueueAssumption DEF CoverGood
  <2>7. sessionLease[s].token # 0
    BY <2>5 DEF TapeInv, Covered
  <2>8. SameRow(f, g)
    <3>1. CASE TurnReturns(w)
      BY <1>6, <3>1 DEF TurnReturns, Frame, SameRow
    <3>2. CASE \E retry \in BOOLEAN : TurnThrows(w, retry)
      BY <1>6, <3>2 DEF TurnThrows, Frame, SameRow
    <3>3. QED
      BY <1>10, <3>1, <3>2
  <2>9. f.run = cover[s] => f.lease # sessionLease[s].token
    BY <2>4, <2>5, <2>7 DEF CoverGood
  <2>10. RowQuiet(cover[s]) /\ WorkerQuiet(s, w)
    BY <1>2, <2>2, <2>6, <2>8, <2>9, RowsQuiet DEF WorkerQuiet, SameRow
  <2>11. QED
    BY <1>4, <1>5, <2>5, <2>10, CoverKept
<1>11. CASE TurnCleanupFails(w)
  <2> DEFINE z == SessionOf[f.run]
  <2>1. f.run \in Runs /\ z \in Sessions
    BY <1>2, <1>11, StoreAssumption DEF TurnCleanupFails, FramesNameRuns
  <2>2. /\ UNCHANGED <<storeVars, sessionLease>>
        /\ cover' = [cover EXCEPT ![z] = IF sessionLease[z].token = f.lease THEN NoRun ELSE @]
    BY <1>11 DEF TurnCleanupFails, SessionOfWorker, sessionVars
  <2>3. /\ \A x \in Sessions \ {z} : cover'[x] = cover[x]
        /\ cover'[z] = IF sessionLease[z].token = f.lease THEN NoRun ELSE cover[z]
    BY <2>1, <2>2 DEF TypeOK
  <2>4. /\ cover'[s] = cover[s]
        /\ s = z => sessionLease[z].token # f.lease
    BY <2>3 DEF Covered
  <2>5. SessionQuiet(s) /\ Covered(s) /\ CoverGood(s)
    BY <2>2, <2>4 DEF SessionQuiet, Covered, CoverInv
  <2>6. cover[s] \in Runs /\ cover[s] # NoRun /\ status[cover[s]] = "running"
    BY <1>3, <2>5, QueueAssumption DEF CoverGood
  <2>7. SameRow(f, g)
    BY <1>6, <1>11 DEF TurnCleanupFails, Frame, SameRow
  <2>8. f.run = cover[s] => f.lease # sessionLease[s].token
    BY <2>4, <2>5 DEF CoverGood
  <2>9. RowQuiet(cover[s]) /\ WorkerQuiet(s, w)
    BY <1>2, <2>2, <2>6, <2>7, <2>8, RowsQuiet DEF WorkerQuiet, SameRow
  <2>10. QED
    BY <1>4, <1>5, <2>5, <2>9, CoverKept
<1>12. QED
  BY <1>7, <1>8, <1>9, <1>10, <1>11 DEF SessionAct

\* CoverInv survives a reaper's step: it fences the run, releases the session
\* and only then retires the run.
LEMMA ReaperCoverStep ==
    ASSUME SafetyInv, TypeOK, FrameInv, CoverInv, NEW p \in Reapers, ReaperStep(p)
    PROVE  CoverInv'
<1> SUFFICES ASSUME NEW s \in Sessions, Covered(s)' PROVE CoverGood(s)'
  BY DEF CoverInv
<1> DEFINE f == reaper[p]
           g == reaper'[p]
<1>1. /\ UNCHANGED worker /\ \A q \in Reapers \ {p} : reaper'[q] = reaper[q]
      /\ g.run = NoRun \/ (\E r \in Runs : Fenced(r, g)) \/ (g.run = f.run /\ g.fence = f.fence)
  BY ReaperShape DEF SafetyInv
<1>2. /\ FramesNameRuns /\ StoreTypeOK
      /\ f.pc \in {"release", "retire", "settle"} => f.run \in Runs
  BY DEF SafetyInv, FramesNameRuns
<1>3. UNCHANGED cover
  BY DEF ReaperStep, ReaperReleases, ReaperSelects, ReaperFences, ReaperSkips,
     ReaperRetires, ReaperMisses, ReaperSettles, ReaperEnds, ReaperFails
<1>4. cover[s] \in Runs /\ cover[s] # NoRun
  BY <1>3, QueueAssumption DEF Covered, TypeOK
<1>5. \A w \in Workers : WorkerQuiet(s, w)
  BY <1>1 DEF WorkerQuiet
<1>6. \A q \in Reapers \ {p} : ReaperQuiet(s, q)
  BY <1>1 DEF ReaperQuiet
<1>7. f \in Sweep /\ reaper \in [Reapers -> Sweep]
  BY DEF TypeOK
<1>8. CASE ReaperFences(p)
  <2>1. PICK x \in f.todo :
          /\ fence(x.run, x.token) /\ UNCHANGED sessionLease
          /\ reaper' = [reaper EXCEPT ![p] =
                [pc |-> "release", todo |-> f.todo \ {x}, run |-> x.run,
                 fence |-> runLease'[x.run].token, seen |-> x.seen, tooOld |-> x.tooOld]]
    BY <1>8 DEF ReaperFences, sessionVars
  <2>2. x.run \in Runs /\ g.run = x.run /\ g.pc = "release" /\ g.fence = runLease'[x.run].token
    BY <1>2, <1>7, <2>1 DEF FramesNameRuns
  <2>3. SessionQuiet(s) /\ Covered(s) /\ CoverGood(s)
    BY <1>3, <2>1 DEF SessionQuiet, Covered, CoverInv
  <2>4. status[cover[s]] = "running"
    BY <2>3 DEF CoverGood
  <2>5. CASE x.run = cover[s]
    <3>1. status'[x.run] = "running" /\ runLease'[x.run].token = minted[x.run] + 1
      BY <1>2, <2>1, <2>2, <2>4, <2>5 DEF fence, Mints, Leased, StoreTypeOK
    <3>2. minted[x.run] \in Nat
      BY <1>2, <2>2 DEF StoreTypeOK
    <3>3. /\ \A w \in Workers : worker[w].run = x.run => worker[w].token # minted[x.run] + 1
          /\ \A q \in Reapers : reaper[q].run = x.run => reaper[q].fence # minted[x.run] + 1
      BY <1>4, <2>5, <3>2 DEF FrameInv, RowOf
    <3>4. QED
      BY <1>1, <1>3, <2>1, <2>2, <2>3, <2>5, <3>1, <3>3 DEF CoverGood
  <2>6. CASE x.run # cover[s]
    <3>1. RowQuiet(cover[s]) /\ ReaperQuiet(s, p)
      BY <1>2, <1>4, <2>1, <2>2, <2>4, <2>6, RowsQuiet DEF ReaperQuiet
    <3>2. QED
      BY <1>5, <1>6, <2>3, <3>1, CoverKept
  <2>7. QED
    BY <2>5, <2>6
<1>9. CASE ReaperReleases(p)
  <2>1. /\ UNCHANGED storeVars /\ forceReleaseLease(SessionOf[f.run]) /\ f.run \in Runs
        /\ SessionOf[f.run] \in Sessions
    BY <1>2, <1>9, StoreAssumption DEF ReaperReleases
  <2>2. s # SessionOf[f.run] /\ sessionLease'[s] = sessionLease[s]
    BY <2>1 DEF forceReleaseLease, NoLease, Covered, TypeOK, SessionTypeOK
  <2>3. SessionQuiet(s) /\ Covered(s) /\ CoverGood(s)
    BY <1>3, <2>2 DEF SessionQuiet, Covered, CoverInv
  <2>4. status[cover[s]] = "running" /\ f.run # cover[s]
    BY <2>2, <2>3 DEF CoverGood
  <2>5. g.run = f.run
    BY <1>7, <1>9 DEF ReaperReleases, Sweep
  <2>6. RowQuiet(cover[s]) /\ ReaperQuiet(s, p)
    BY <1>2, <1>4, <2>1, <2>4, <2>5, RowsQuiet DEF ReaperQuiet
  <2>7. QED
    BY <1>5, <1>6, <2>3, <2>6, CoverKept
<1>10. ASSUME UNCHANGED sessionLease, f.pc # "release" \/ g.run = NoRun,
              g.run = NoRun \/ (g.run = f.run /\ g.fence = f.fence),
              \/ UNCHANGED storeVars
              \/ \E seen, retry : retire(f.run, f.fence, seen, retry, FALSE, FALSE)
                    /\ f.pc = "retire"
       PROVE  CoverGood(s)'
  <2>1. SessionQuiet(s) /\ Covered(s) /\ CoverGood(s)
    BY <1>3, <1>10 DEF SessionQuiet, Covered, CoverInv
  <2>2. status[cover[s]] = "running"
    BY <2>1 DEF CoverGood
  <2>3. RowQuiet(cover[s])
    <3>1. CASE UNCHANGED storeVars
      BY <1>2, <1>4, <2>2, <3>1, RowsQuiet
    <3>2. CASE \E seen, retry : retire(f.run, f.fence, seen, retry, FALSE, FALSE)
                    /\ f.pc = "retire"
      <4>1. f.run \in Runs
        BY <1>2, <3>2
      <4>2. RowQuiet(cover[s]) \/ (f.run = cover[s] /\ f.fence = runLease[cover[s]].token)
        BY <1>2, <1>4, <2>2, <3>2, <4>1, RowsQuiet
      <4>3. QED
        BY <2>1, <3>2, <4>2 DEF CoverGood
    <3>3. QED
      BY <1>10, <3>1, <3>2
  <2>4. ReaperQuiet(s, p)
    BY <1>4, <1>10 DEF ReaperQuiet
  <2>5. QED
    BY <1>5, <1>6, <2>1, <2>3, <2>4, CoverKept
<1>11. /\ IdleSweep.run = NoRun /\ NextOfSweep(f).run = NoRun
       /\ \A t : [IdleSweep EXCEPT !.pc = "fence", !.todo = t].run = NoRun
  BY DEF IdleSweep, NextOfSweep
<1>12. \A h : reaper' = [reaper EXCEPT ![p] = h] => g = h
  BY <1>7
<1>13. CASE ReaperSelects(p)
  <2>1. PICK old \in SUBSET Expired :
              reaper' = [reaper EXCEPT ![p] = [IdleSweep EXCEPT !.pc = "fence",
                !.todo = {[run |-> r, token |-> runLease[r].token,
                           seen |-> budgetOf(r), tooOld |-> r \in old] : r \in Expired}]]
    BY <1>13, Zenon DEF ReaperSelects
  <2>2. g.run = NoRun
    BY <1>11, <1>12, <2>1
  <2>3. QED
    BY <1>10, <1>13, <2>2 DEF ReaperSelects, sessionVars
<1>14. CASE ReaperSkips(p)
  <2>1. f.pc = "fence" /\ g.run = f.run /\ g.fence = f.fence
    BY <1>7, <1>14 DEF ReaperSkips, Sweep
  <2>2. QED
    BY <1>10, <1>14, <2>1 DEF ReaperSkips, sessionVars
<1>15. CASE ReaperRetires(p)
  <2>1. g.run = NoRun \/ (g.run = f.run /\ g.fence = f.fence)
    BY <1>7, <1>11, <1>12, <1>15 DEF ReaperRetires, Sweep
  <2>2. QED
    BY <1>10, <1>15, <2>1 DEF ReaperRetires, sessionVars
<1>16. CASE ReaperMisses(p) \/ ReaperSettles(p) \/ ReaperEnds(p) \/ ReaperFails(p)
  <2>1. g.run = NoRun /\ UNCHANGED storeVars /\ UNCHANGED sessionLease
    BY <1>11, <1>12, <1>16 DEF ReaperMisses, ReaperSettles, ReaperEnds, ReaperFails, sessionVars
  <2>2. QED
    BY <1>10, <2>1
<1>17. QED
  BY <1>8, <1>9, <1>13, <1>14, <1>15, <1>16 DEF ReaperStep

\* CoverInv survives every step.
LEMMA CoverStep ==
    ASSUME SafetyInv, TypeOK, TapeInv, FrameInv, CoverInv, [Next]_vars
    PROVE  CoverInv'
<1>1. StoreTypeOK
  BY DEF SafetyInv
<1>2. ASSUME UNCHANGED <<worker, reaper>>, NEW s \in Sessions, Covered(s)', SessionQuiet(s),
             \A q \in Runs : status[q] = "running" => RowQuiet(q)
      PROVE  CoverGood(s)'
  <2>1. Covered(s) /\ CoverGood(s)
    BY <1>2 DEF SessionQuiet, Covered, CoverInv
  <2>2. cover[s] \in Runs /\ status[cover[s]] = "running"
    BY <2>1 DEF CoverGood, Covered, TypeOK
  <2>3. /\ RowQuiet(cover[s])
        /\ \A w \in Workers : WorkerQuiet(s, w)
        /\ \A p \in Reapers : ReaperQuiet(s, p)
    BY <1>2, <2>2 DEF WorkerQuiet, ReaperQuiet
  <2>4. QED
    BY <1>2, <2>3, CoverKept
<1>3. CASE UserStep
  <2>1. UNCHANGED <<worker, reaper, sessionLease, cover>>
    BY <1>3 DEF UserStep, Enqueue, Withdraw, Edit, Steer, queueVars, sessionVars
  <2>2. \A q \in Runs : status[q] = "running" => RowQuiet(q)
    BY <1>1, <1>3, RowsQuiet DEF UserStep, Enqueue, Withdraw, Edit, Steer, steerQueued
  <2>3. QED
    BY <1>2, <2>1, <2>2 DEF CoverInv, SessionQuiet
<1>4. CASE TimeStep
  <2>1. UNCHANGED <<worker, reaper, cover>>
    BY <1>4 DEF TimeStep, LapseAbandoned, LapseStalled, CoolsDown, SessionLapses, queueVars
  <2>2. \A q \in Runs : status[q] = "running" => RowQuiet(q)
    BY <1>1, <1>4, RowsQuiet DEF TimeStep, LapseAbandoned, LapseStalled, CoolsDown, SessionLapses
  <2>3. \A s \in Sessions : SessionQuiet(s)
    <3>1. CASE UNCHANGED sessionLease
      BY <2>1, <3>1 DEF SessionQuiet
    <3>2. CASE \E x \in Sessions : SessionLeaseLapses(x)
      BY <2>1, <3>2 DEF SessionLeaseLapses, SessionQuiet, TypeOK, SessionTypeOK, SessionLeaseRow
    <3>3. QED
      BY <1>4, <3>1, <3>2 DEF TimeStep, LapseAbandoned, LapseStalled, CoolsDown, SessionLapses,
         sessionVars
  <2>4. QED
    BY <1>2, <2>1, <2>2, <2>3 DEF CoverInv
<1>5. CASE CompactionStep
  <2>1. UNCHANGED <<worker, reaper, storeVars>>
    BY <1>5 DEF CompactionStep, CompactionAcquires, CompactionEnds
  <2>2. \A q \in Runs : status[q] = "running" => RowQuiet(q)
    BY <1>1, <2>1, RowsQuiet
  <2>3. \A s \in Sessions : SessionQuiet(s) \/ cover'[s] = NoRun \/ sessionLease'[s] = NoLease
    BY <1>5 DEF CompactionStep, CompactionAcquires, CompactionEnds, acquireLease, SessionQuiet,
       TypeOK, SessionTypeOK
  <2>4. \A s \in Sessions : Covered(s)' => SessionQuiet(s)
    BY <2>3 DEF Covered, NoLease
  <2>5. QED
    BY <1>2, <2>1, <2>2, <2>4 DEF CoverInv
<1>6. CASE UNCHANGED vars
  BY <1>6 DEF vars, CoverInv, Covered, CoverGood
<1>7. QED
  BY <1>3, <1>4, <1>5, <1>6, WorkerCoverStep, ReaperCoverStep DEF Next

\* A session lease taken by a turn that held its run does not outlive the run's
\* lease: the turn itself or the reaper's onRetired has released it before the
\* run can be claimed again or is settled.
THEOREM SessionFreedBeforeRetryHolds == Spec => []SessionFreedBeforeRetry
<1>1. Init => CoverInv
  BY DEF Init, CoverInv, Covered
<1>2. CoverInv => SessionFreedBeforeRetry
  BY DEF CoverInv, Covered, CoverGood, SessionFreedBeforeRetry
<1>3. QED
  BY <1>1, <1>2, CoverStep, BaseInvariant, FrameInvariant, PTL DEF Spec, BaseInv
=============================================================================
