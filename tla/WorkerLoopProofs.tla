-------------------------- MODULE WorkerLoopProofs --------------------------
(***************************************************************************)
(* Proofs about WorkerLoop, for any number of runs, failures, changes of   *)
(* the drain controller's mind and calls of start and stop.                *)
(*                                                                         *)
(* None of the three properties is inductive.  What they need is how the   *)
(* loop's position, the outstanding claim and the promise of stopClaims    *)
(* hang together (Coupled), and that a claim which found the queue empty   *)
(* has heard, or is about to hear, of every run that came since            *)
(* (NewsOnItsWay).                                                         *)
(***************************************************************************)
EXTENDS WorkerLoop, TLAPS

LoopTypeOK ==
    /\ pc \in {"off", "sleeping", "claiming", "handback", "working", "waiting", "dead"}
    /\ reply \in {"none", "run", "empty", "error"}
    /\ stop \in {"none", "waiting", "done"}
    /\ releasing \in {"no", "stopping", "aborting", "done"}
    /\ failures \in Nat /\ epoch \in Nat /\ available \in Nat
    /\ flips \in Nat /\ faults \in Nat

FlagsTypeOK ==
    /\ claimDone \in BOOLEAN /\ heard \in BOOLEAN /\ stopped \in BOOLEAN
    /\ on \in BOOLEAN /\ allowed \in BOOLEAN /\ announced \in BOOLEAN

\* claimDone is set exactly while a claim is outstanding or its run is handed
\* back, and stopClaims resolves only when there is none.
Coupled ==
    /\ reply # "none" => pc = "claiming"
    /\ claimDone <=> pc \in {"claiming", "handback"}
    /\ stop # "none" => stopped
    /\ stop = "done" => pc \notin {"claiming", "handback"}
    /\ pc = "waiting" => ~stopped

\* releaseInFlight runs after the process stopped the worker for good.
ReleaseInOrder ==
    /\ releasing # "no" => ~on /\ stop # "none"
    /\ releasing = "aborting" => pc = "working" /\ stop = "done"
    /\ releasing = "done" => pc \notin {"handback", "working"} /\ stop = "done"

\* A claim that answered "empty" missed no run that is not announced still, or
\* was not announced while it was outstanding.
NewsOnItsWay ==
    /\ (pc = "waiting" /\ available > 0) => announced
    /\ (pc = "claiming" /\ reply = "empty" /\ available > 0)
          => (announced \/ heard \/ stopped)

LoopInv ==
    /\ LoopTypeOK /\ FlagsTypeOK
    /\ Coupled /\ ReleaseInOrder /\ NewsOnItsWay /\ StoppedStaysStopped

-----------------------------------------------------------------------------

\* The process starts with no loop, and no claim outstanding.
LEMMA LoopInit == Init => LoopInv
<1>1. Init => LoopTypeOK
  BY DEF Init, LoopTypeOK
<1>2. Init => FlagsTypeOK
  BY Zenon DEF Init, FlagsTypeOK
<1>3. Init => Coupled /\ ReleaseInOrder /\ NewsOnItsWay /\ StoppedStaysStopped
  BY DEF Init, Coupled, ReleaseInOrder, NewsOnItsWay, StoppedStaysStopped
<1>4. QED
  BY <1>1, <1>2, <1>3 DEF LoopInv

\* Every step leaves the flags Boolean.
LEMMA FlagsStep ==
    ASSUME LoopInv, [Next]_vars
    PROVE  FlagsTypeOK'
<1> USE DEF LoopInv, FlagsTypeOK, loopVars, controlVars, worldVars
<1>1. CASE UNCHANGED vars
  BY <1>1, Zenon DEF vars
<1>2. CASE SleepEnds
  BY <1>2, Zenon DEF SleepEnds, HeadOfLoop
<1>3. CASE ClaimStatement
  BY <1>3, Zenon DEF ClaimStatement
<1>4. CASE ClaimFoundNothing
  BY <1>4, Zenon DEF ClaimFoundNothing, HeadOfLoop, ClaimSettled
<1>5. CASE ClaimFailed
  BY <1>5, Zenon DEF ClaimFailed, ClaimSettled
<1>6. CASE ClaimedRun
  BY <1>6, Zenon DEF ClaimedRun, ClaimSettled
<1>7. CASE HandedBack
  BY <1>7, Zenon DEF HandedBack, ClaimSettled
<1>8. CASE TurnEnds
  BY <1>8, Zenon DEF TurnEnds, HeadOfLoop
<1>9. CASE WaitTimesOut
  BY <1>9, Zenon DEF WaitTimesOut
<1>10. CASE Announcement
  BY <1>10, Zenon DEF Announcement, Notify
<1>11. CASE startBackground
  BY <1>11, Zenon DEF startBackground, startLoop, HeadOfLoop
<1>12. CASE stopBackground
  BY <1>12, Zenon DEF stopBackground, stopClaims, Notify
<1>13. CASE Drained
  BY <1>13, Zenon DEF Drained, startLoop, HeadOfLoop
<1>14. CASE releaseInFlight
  BY <1>14, Zenon DEF releaseInFlight, stopClaims, Notify
<1>15. CASE AbortInFlight
  BY <1>15, Zenon DEF AbortInFlight
<1>16. CASE RunArrives
  BY <1>16, Zenon DEF RunArrives
<1>17. CASE RunTaken
  BY <1>17, Zenon DEF RunTaken
<1>18. CASE DrainBeat
  BY <1>18, Zenon DEF DrainBeat
<1>19. QED
  BY <1>1, <1>2, <1>3, <1>4, <1>5, <1>6, <1>7, <1>8, <1>9, <1>10, <1>11, <1>12, <1>13,
     <1>14, <1>15, <1>16, <1>17, <1>18 DEF Next, LoopStep, ProcessStep

\* Every step of the loop, of the process and of the world keeps them.
LEMMA LoopInvStep ==
    ASSUME LoopInv, [Next]_vars
    PROVE  LoopInv'
<1> DEFINE Rest == /\ LoopTypeOK /\ Coupled /\ ReleaseInOrder /\ NewsOnItsWay
                    /\ StoppedStaysStopped
<1> USE DEF LoopInv, LoopTypeOK, FlagsTypeOK, Coupled, ReleaseInOrder, NewsOnItsWay,
            StoppedStaysStopped, loopVars, controlVars, worldVars
<1>1. CASE UNCHANGED vars
  BY <1>1 DEF vars
<1>2. ASSUME SleepEnds PROVE Rest'
  BY <1>2 DEF SleepEnds, HeadOfLoop
<1>3. ASSUME ClaimStatement PROVE Rest'
  BY <1>3 DEF ClaimStatement
<1>4. ASSUME ClaimFoundNothing PROVE Rest'
  BY <1>4 DEF ClaimFoundNothing, HeadOfLoop, ClaimSettled
<1>5. ASSUME ClaimFailed PROVE Rest'
  BY <1>5 DEF ClaimFailed, ClaimSettled
<1>6. ASSUME ClaimedRun PROVE Rest'
  BY <1>6 DEF ClaimedRun, ClaimSettled
<1>7. ASSUME HandedBack PROVE Rest'
  BY <1>7 DEF HandedBack, ClaimSettled
<1>8. ASSUME TurnEnds PROVE Rest'
  BY <1>8 DEF TurnEnds, HeadOfLoop
<1>9. ASSUME WaitTimesOut PROVE Rest'
  BY <1>9 DEF WaitTimesOut
<1>10. ASSUME Announcement PROVE Rest'
  BY <1>10 DEF Announcement, Notify
<1>11. ASSUME startBackground PROVE Rest'
  BY <1>11 DEF startBackground, startLoop, HeadOfLoop
<1>12. ASSUME stopBackground PROVE Rest'
  BY <1>12 DEF stopBackground, stopClaims, Notify
<1>13. ASSUME Drained PROVE Rest'
  BY <1>13 DEF Drained, startLoop, HeadOfLoop
<1>14. ASSUME releaseInFlight PROVE Rest'
  BY <1>14 DEF releaseInFlight, stopClaims, Notify
<1>15. ASSUME AbortInFlight PROVE Rest'
  BY <1>15 DEF AbortInFlight
<1>16. ASSUME RunArrives PROVE Rest'
  BY <1>16 DEF RunArrives
<1>17. ASSUME RunTaken PROVE Rest'
  BY <1>17 DEF RunTaken
<1>18. ASSUME DrainBeat PROVE Rest'
  BY <1>18 DEF DrainBeat
<1>19. QED
  BY FlagsStep, <1>1, <1>2, <1>3, <1>4, <1>5, <1>6, <1>7, <1>8, <1>9, <1>10, <1>11,
     <1>12, <1>13, <1>14, <1>15, <1>16, <1>17, <1>18 DEF Next, LoopStep, ProcessStep

\* LoopInv holds throughout.
THEOREM LoopInvariant == Spec => []LoopInv
  BY LoopInit, LoopInvStep, PTL DEF Spec

\* When releaseInFlight() has returned the worker holds no lease, however the
\* claim that was outstanding when shutdown began ended.
THEOREM ReleaseLeavesNothing == Spec => []NothingHeldAfterRelease
<1>1. LoopInv => NothingHeldAfterRelease
  BY DEF LoopInv, Coupled, ReleaseInOrder, NothingHeldAfterRelease, Holds
<1>2. QED
  BY <1>1, LoopInvariant, PTL

\* waitForWork goes to sleep only on runs whose notification is still to come.
THEOREM AnnouncementsAreHeard == Spec => []NoMissedAnnouncement
<1>1. LoopInv => NoMissedAnnouncement
  BY DEF LoopInv, NewsOnItsWay, NoMissedAnnouncement
<1>2. QED
  BY <1>1, LoopInvariant, PTL

\* A start repeated by drained().then revives no worker stopped meanwhile.
THEOREM StopHolds == Spec => []StoppedStaysStopped
<1>1. LoopInv => StoppedStaysStopped
  BY DEF LoopInv
<1>2. QED
  BY <1>1, LoopInvariant, PTL
=============================================================================
