----------------------------- MODULE RunSignals -----------------------------
(***************************************************************************)
(* Signals to one run: messages that steer it, stops, and results of       *)
(* client-side tools (src/runs/run-signal-store.ts and its Postgres twin). *)
(* The poller of the attempt in progress drains the table, the harness     *)
(* takes a steering message in when the model reads it, waitForClientResult*)
(* awaits one result, and whatever is left when the run has ended is       *)
(* replayed as runs of its own (src/api/app-helpers.ts).                   *)
(*                                                                         *)
(* A step goes from one await to the next.  Attempts follow each other:    *)
(* RunQueue and SessionLease are about the ones that overlap.              *)
(***************************************************************************)
EXTENDS Naturals, FiniteSetsExt

CONSTANTS
    SignalBound,    \* bound: rows of run_signals
    CrashBound,     \* bound: crashes of an attempt
    FaultBound      \* bound: failing statements, failing preparation, lost replays

ASSUME SignalAssumption == {SignalBound, CrashBound, FaultBound} \subseteq Nat

VARIABLES
    subagent,       \* isSubagentThreadRef(run.sessionId)
    drainOnStop,    \* the harness asks for a drain when it stops the poller
    status,         \* of the run; "gone" when its row was withdrawn
    kind, pending,  \* the table: kinds of the rows, and those not consumed
    bell,           \* a notification of run_signals is on its way
    sender,         \* where the sender of a signal is, and the status it read
    phase, interrupted, known, inbox, intake,   \* the attempt
    accepting, at, todo, redrain, aborted, declined,    \* startSignalPoll
    wait, recheck, outcome,                     \* waitForClientResult
    taken, confirming,                          \* replayOrphanedRunSignals
    taped, replayed, unseen, missed,            \* history
    dropped, refused, left,                     \* history: what replays did not make a run of
    crashes, faults                             \* bounds

tableVars == <<status, kind, pending, bell>>
turnVars == <<phase, interrupted, known, inbox, intake>>
pollVars == <<accepting, at, todo, redrain, aborted, declined>>
waitVars == <<wait, recheck, outcome>>
replayVars == <<taken, confirming, replayed, dropped, refused, left>>
fixed == <<subagent, drainOnStop>>
vars == <<subagent, drainOnStop, status, kind, pending, bell, sender, phase,
          interrupted, known, inbox, intake, accepting, at, todo, redrain, aborted,
          declined, wait, recheck, outcome, taken, confirming, taped, replayed,
          unseen, missed, dropped, refused, left, crashes, faults>>

Ids == 1..SignalBound
Sent == {n \in Ids : kind[n] # "none"}
Steers == {n \in Ids : kind[n] \in {"steer", "files"}}      \* "files": without text
Over == status \in {"terminal", "gone"}
Keyed == subagent /\ status = "terminal"    \* the run is read, and is a subagent's
First == Min(todo)

Init ==
    /\ subagent \in BOOLEAN /\ drainOnStop \in BOOLEAN
    /\ status = "pending" /\ kind = [n \in Ids |-> "none"] /\ pending = {}
    /\ bell = FALSE /\ sender = "idle"
    /\ phase = "off" /\ interrupted = FALSE /\ known = {} /\ inbox = {} /\ intake = {}
    /\ accepting = FALSE /\ at = "idle" /\ todo = {} /\ redrain = FALSE
    /\ aborted = FALSE /\ declined = {}
    /\ wait = "none" /\ recheck = FALSE /\ outcome = "none"
    /\ taken = {} /\ confirming = {}
    /\ taped = [n \in Ids |-> 0] /\ replayed = [n \in Ids |-> 0]
    /\ unseen = {} /\ missed = {} /\ dropped = {} /\ refused = {} /\ left = {}
    /\ crashes = 0 /\ faults = 0

Fault == faults < FaultBound /\ faults' = faults + 1

-----------------------------------------------------------------------------
(* Sending                                                                 *)

\* signalRun reads the run before it sends, and refuses an ended one.
SenderReads ==
    /\ sender = "idle" /\ ~Over
    /\ Sent # Ids
    /\ sender' = status
    /\ UNCHANGED <<fixed, tableVars, turnVars, pollVars, waitVars, replayVars, taped,
                   unseen, missed, crashes, faults>>

\* send(): insert and notify.  A second result of the call has the dedupe key of
\* the first and is not stored.
Sends(k) ==
    /\ sender \in {"pending", "running"}
    /\ k = "client_result" => \A n \in Ids : kind[n] # k
    /\ LET n == Min(Ids \ Sent) IN
       /\ kind' = [kind EXCEPT ![n] = k]
       /\ pending' = pending \cup {n}
       /\ unseen' = IF accepting THEN unseen \cup {n} ELSE unseen
    /\ bell' = TRUE
    /\ sender' = IF k = "abort" /\ sender = "pending" THEN "withdraw" ELSE "idle"
    /\ UNCHANGED <<fixed, status, turnVars, pollVars, waitVars, replayVars, taped,
                   missed, crashes, faults>>

\* A stop that found the run queued withdraws it after the signal, if it still is.
Withdraws ==
    /\ sender = "withdraw"
    /\ sender' = "idle"
    /\ status' = IF status = "pending" THEN "gone" ELSE status
    /\ UNCHANGED <<fixed, kind, pending, bell, turnVars, pollVars, waitVars, replayVars,
                   taped, unseen, missed, crashes, faults>>

-----------------------------------------------------------------------------
(* The poller                                                              *)

\* drain(): one at a time; a call during another is remembered.
drain(forced) ==
    IF ~accepting /\ ~forced THEN UNCHANGED <<at, redrain>>
    ELSE IF at # "idle" THEN redrain' = TRUE /\ UNCHANGED at
    ELSE at' = "read" /\ UNCHANGED redrain

\* check() of the waiter: one at a time as well.
check ==
    CASE wait = "waiting" -> wait' = "reading" /\ UNCHANGED recheck
      [] wait \in {"reading", "found", "empty"} -> recheck' = TRUE /\ UNCHANGED wait
      [] OTHER -> UNCHANGED <<wait, recheck>>

\* The notification reaches everyone who listens for this run.
Rings ==
    /\ bell
    /\ bell' = FALSE
    /\ drain(FALSE)
    /\ check
    /\ UNCHANGED <<fixed, status, kind, pending, sender, turnVars, accepting, todo,
                   aborted, declined, outcome, replayVars, taped, unseen, missed,
                   crashes, faults>>

\* The poller's timer.
Ticks ==
    /\ accepting /\ at = "idle"
    /\ drain(FALSE)
    /\ UNCHANGED <<fixed, tableVars, sender, turnVars, accepting, todo, aborted,
                   declined, waitVars, replayVars, taped, unseen, missed, crashes, faults>>

\* pending() answers, or fails, which ends this drain.
DrainReads ==
    /\ at = "read"
    /\ at' = "each"
    /\ \/ todo' = pending /\ UNCHANGED faults
       \/ todo' = {} /\ Fault
    /\ aborted' = FALSE
    /\ unseen' = {}
    /\ UNCHANGED <<fixed, tableVars, sender, turnVars, accepting, redrain, declined,
                   waitVars, replayVars, taped, missed, crashes>>

\* Signals that the drain passes over: results, and declined messages.
DrainSkips ==
    /\ at = "each" /\ todo # {}
    /\ \/ kind[First] = "client_result"
       \/ kind[First] = "abort" /\ aborted
       \/ First \in Steers /\ First \in declined
    /\ todo' = todo \ {First}
    /\ UNCHANGED <<fixed, tableVars, sender, turnVars, accepting, at, redrain, aborted,
                   declined, waitVars, replayVars, taped, unseen, missed, crashes, faults>>

\* Broken variant: a stop is consumed by the attempt that hears it.
DrainAbortsAndConsumes ==
    /\ at = "each" /\ todo # {} /\ kind[First] = "abort" /\ ~aborted
    /\ interrupted' = (phase # "off")
    /\ aborted' = TRUE
    /\ pending' = pending \ {First}
    /\ todo' = todo \ {First}
    /\ UNCHANGED <<fixed, status, kind, bell, sender, phase, known, inbox, intake,
                   accepting, at, redrain, declined, waitVars, replayVars, taped,
                   unseen, missed, crashes, faults>>

\* onAbort(); the row stays, for the attempt that may follow.
DrainAborts ==
    /\ at = "each" /\ todo # {} /\ kind[First] = "abort" /\ ~aborted
    /\ interrupted' = (phase # "off")
    /\ aborted' = TRUE
    /\ todo' = todo \ {First}
    /\ UNCHANGED <<fixed, tableVars, sender, phase, known, inbox, intake, accepting, at,
                   redrain, declined, waitVars, replayVars, taped, unseen, missed,
                   crashes, faults>>

Offered == at = "each" /\ todo # {} /\ First \in Steers /\ First \notin declined

\* Broken variant: the harness does not compare the message with its history.
DrainOffersAgain ==
    /\ Offered
    /\ declined' = declined \cup {First}
    /\ inbox' = IF interrupted THEN inbox ELSE inbox \cup {First}
    /\ todo' = todo \ {First}
    /\ UNCHANGED <<fixed, tableVars, sender, phase, interrupted, known, intake, accepting,
                   at, redrain, aborted, waitVars, replayVars, taped, unseen, missed,
                   crashes, faults>>

\* Broken variant: a message is acknowledged when it is queued for the model.
DrainOffersAtOnce ==
    /\ Offered
    /\ at' = "ack"
    /\ inbox' = IF interrupted \/ First \in known THEN inbox ELSE inbox \cup {First}
    /\ UNCHANGED <<fixed, tableVars, sender, phase, interrupted, known, intake, accepting,
                   todo, redrain, aborted, declined, waitVars, replayVars, taped, unseen,
                   missed, crashes, faults>>

\* onSteer of the harnesses: a message already in the history is acknowledged; any
\* other is queued for the model, unless the turn is over, and declined here (the
\* harness acknowledges it later); or its preparation fails.
DrainOffers ==
    /\ Offered
    /\ \/ /\ First \in known
          /\ at' = "ack"
          /\ UNCHANGED <<todo, declined, inbox, faults>>
       \/ /\ First \notin known
          /\ declined' = declined \cup {First}
          /\ inbox' = IF interrupted THEN inbox ELSE inbox \cup {First}
          /\ todo' = todo \ {First}
          /\ UNCHANGED <<at, faults>>
       \/ /\ Fault
          /\ todo' = todo \ {First}
          /\ UNCHANGED <<at, declined, inbox>>
    /\ UNCHANGED <<fixed, tableVars, sender, phase, interrupted, known, intake, accepting,
                   redrain, aborted, waitVars, replayVars, taped, unseen, missed, crashes>>

\* acknowledge(), or its failure.
DrainAcknowledges ==
    /\ at = "ack"
    /\ at' = "each"
    /\ todo' = todo \ {First}
    /\ \/ pending' = pending \ {First} /\ UNCHANGED faults
       \/ Fault /\ UNCHANGED pending
    /\ UNCHANGED <<fixed, status, kind, bell, sender, turnVars, accepting, redrain, aborted,
                   declined, waitVars, replayVars, taped, unseen, missed, crashes>>

\* Broken variant: the remembered call is forgotten.
DrainEndsForgetting ==
    /\ at = "each" /\ todo = {}
    /\ redrain' = FALSE
    /\ at' = "idle"
    /\ UNCHANGED <<fixed, tableVars, sender, turnVars, accepting, todo, aborted, declined,
                   waitVars, replayVars, taped, unseen, missed, crashes, faults>>

\* The end of a drain, and the remembered call: not forced, so a stopped poller
\* forgets it, the final drain of drainOnStop included.
DrainEnds ==
    /\ at = "each" /\ todo = {}
    /\ redrain' = FALSE
    /\ at' = IF redrain /\ accepting THEN "read" ELSE "idle"
    /\ UNCHANGED <<fixed, tableVars, sender, turnVars, accepting, todo, aborted, declined,
                   waitVars, replayVars, taped, unseen, missed, crashes, faults>>

-----------------------------------------------------------------------------
(* The attempt                                                             *)

\* The run is claimed and its turn starts, with the history the tape holds.
TurnStarts ==
    /\ phase = "off" /\ status = "pending"
    /\ status' = "running"
    /\ phase' = "turn" /\ interrupted' = FALSE /\ inbox' = {} /\ intake' = {}
    /\ known' = {n \in Ids : taped[n] > 0}
    /\ accepting' = TRUE /\ at' = "idle" /\ todo' = {} /\ redrain' = FALSE
    /\ aborted' = FALSE /\ declined' = {} /\ unseen' = {}
    /\ UNCHANGED <<fixed, kind, pending, bell, sender, waitVars, replayVars, taped, missed,
                   crashes, faults>>

\* recordSteerIntake: the model reads the message; its entry goes to the tape ...
TakesIn ==
    /\ phase \in {"turn", "stopping", "closing"} /\ ~interrupted /\ intake = {}
    /\ \E n \in inbox :
         /\ inbox' = inbox \ {n}
         /\ intake' = {n}
         /\ taped' = [taped EXCEPT ![n] = @ + 1]
         /\ missed' = missed \cup {n}
    /\ UNCHANGED <<fixed, tableVars, sender, phase, interrupted, known, pollVars, waitVars,
                   replayVars, unseen, crashes, faults>>

\* ... and the signal is acknowledged, where a failure is swallowed.
Acknowledges ==
    /\ intake # {}
    /\ intake' = {}
    /\ \/ pending' = pending \ intake /\ missed' = missed \ intake /\ UNCHANGED faults
       \/ Fault /\ UNCHANGED <<pending, missed>>
    /\ UNCHANGED <<fixed, status, kind, bell, sender, phase, interrupted, known, inbox,
                   pollVars, waitVars, replayVars, taped, unseen, crashes>>

\* The model is done, or the turn was stopped: stop the poller.
StopsPoller ==
    /\ phase = "turn" /\ intake = {}
    /\ wait \in {"none", "done"}
    /\ inbox = {} \/ interrupted
    /\ phase' = "stopping"
    /\ accepting' = FALSE
    /\ IF drainOnStop
       THEN (IF at = "idle" THEN at' = "read" /\ UNCHANGED redrain
             ELSE redrain' = TRUE /\ UNCHANGED at)
       ELSE UNCHANGED <<at, redrain>>
    /\ UNCHANGED <<fixed, tableVars, sender, interrupted, known, inbox, intake, todo,
                   aborted, declined, waitVars, replayVars, taped, unseen, missed,
                   crashes, faults>>

\* The drain in flight has settled.
PollerStopped ==
    /\ phase = "stopping" /\ at = "idle"
    /\ phase' = "closing"
    /\ UNCHANGED <<fixed, tableVars, sender, interrupted, known, inbox, intake, pollVars,
                   waitVars, replayVars, taped, unseen, missed, crashes, faults>>

\* What was queued meanwhile is still read, unless the turn was stopped; then the
\* worker completes the run.
TurnEnds ==
    /\ phase = "closing" /\ intake = {}
    /\ inbox = {} \/ interrupted
    /\ phase' = "off"
    /\ status' = "terminal"
    /\ UNCHANGED <<fixed, kind, pending, bell, sender, interrupted, known, inbox, intake,
                   pollVars, waitVars, replayVars, taped, unseen, missed, crashes, faults>>

\* The process dies, and a reaper makes the run claimable again.
Crashes ==
    /\ phase # "off" /\ crashes < CrashBound
    /\ crashes' = crashes + 1
    /\ phase' = "off" /\ status' = "pending"
    /\ inbox' = {} /\ intake' = {} /\ accepting' = FALSE /\ at' = "idle" /\ todo' = {}
    /\ redrain' = FALSE /\ unseen' = {}
    /\ wait' = IF wait = "done" THEN wait ELSE "none"
    /\ recheck' = FALSE
    /\ UNCHANGED <<fixed, kind, pending, bell, sender, interrupted, known, aborted, declined,
                   outcome, replayVars, taped, missed, faults>>

-----------------------------------------------------------------------------
(* waitForClientResult                                                     *)

others == <<fixed, status, kind, bell, sender, turnVars, pollVars, replayVars, taped,
            unseen, missed, crashes>>

Answer == {n \in pending : kind[n] = "client_result"}

\* The model calls a client-side tool: subscribe, and look at once.
WaitStarts ==
    /\ phase = "turn" /\ wait = "none" /\ ~interrupted
    /\ wait' = "reading" /\ recheck' = FALSE
    /\ UNCHANGED <<others, pending, outcome, faults>>

\* pending() is answered, or fails, which rejects the wait.
WaitReads ==
    /\ wait = "reading"
    /\ \/ /\ wait' = IF Answer # {} THEN "found" ELSE "empty"
          /\ UNCHANGED <<outcome, faults>>
       \/ /\ Fault
          /\ wait' = "done" /\ outcome' = "error"
    /\ UNCHANGED <<others, pending, recheck>>

\* Broken variant: a call during the read is forgotten.
WaitSeesOnce ==
    /\ wait \in {"found", "empty"}
    /\ wait' = IF wait = "found" THEN "acking" ELSE "waiting"
    /\ outcome' = IF wait = "found" THEN "result" ELSE outcome
    /\ recheck' = FALSE
    /\ UNCHANGED <<others, pending, faults>>

\* The answer arrives.  Who has the result settles the wait, then acknowledges;
\* without one the read is repeated if a notification came meanwhile.
WaitSees ==
    /\ \/ /\ wait = "found"
          /\ wait' = "acking" /\ outcome' = "result"
       \/ /\ wait = "empty"
          /\ wait' = IF recheck THEN "reading" ELSE "waiting"
          /\ UNCHANGED outcome
    /\ recheck' = FALSE
    /\ UNCHANGED <<others, pending, faults>>

WaitAcknowledges ==
    /\ wait = "acking"
    /\ wait' = "done"
    /\ \/ pending' = pending \ Answer /\ UNCHANGED faults
       \/ Fault /\ UNCHANGED pending
    /\ UNCHANGED <<others, recheck, outcome>>

\* The timeout, or the cancellation of the turn: only if nobody settled the wait.
WaitGivesUp ==
    /\ wait \in {"waiting", "reading", "found", "empty"}
    /\ wait' = "done"
    /\ outcome' = IF interrupted THEN "cancelled" ELSE "timeout"
    /\ UNCHANGED <<others, pending, recheck, faults>>

-----------------------------------------------------------------------------
(* replayOrphanedRunSignals, called at the end of the run, by the sender   *)
(* that finds it ended, and by the sweeper                                 *)

unreplayed == <<fixed, status, kind, bell, sender, turnVars, pollVars, waitVars, taped,
                unseen, missed, crashes>>

\* A conversation, or a run that was withdrawn: takePending() consumes the rows first ...
ReplayTakes ==
    /\ Over /\ ~Keyed /\ pending # {}
    /\ taken' = taken \cup (pending \cap Steers)
    /\ pending' = {}
    /\ UNCHANGED <<unreplayed, confirming, replayed, dropped, refused, left, faults>>

\* ... and each message becomes a run, with the request of the ended run where its own
\* is turned away.  A failure or a crash drops it; so does a withdrawn run, whose request
\* nobody has, and a message without text cannot borrow one either.
ReplayEnqueues ==
    \E n \in taken :
      /\ taken' = taken \ {n}
      /\ \/ replayed' = [replayed EXCEPT ![n] = @ + 1] /\ UNCHANGED <<dropped, faults>>
         \/ /\ IF status = "gone" \/ kind[n] = "files" THEN UNCHANGED faults ELSE Fault
            /\ dropped' = dropped \cup {n} /\ UNCHANGED replayed
      /\ UNCHANGED <<unreplayed, pending, confirming, refused, left>>

\* Broken variant: only messages are consumed, stops and results stay.
ReplayKeyedMessages ==
    /\ Keyed
    /\ \E n \in pending \cap Steers :
         /\ replayed' = [replayed EXCEPT ![n] = 1]
         /\ confirming' = confirming \cup {n}
    /\ UNCHANGED <<unreplayed, pending, taken, dropped, refused, left, faults>>

\* A subagent: stops, results and messages without text are acknowledged.  A message
\* with text is enqueued under a key of its own, so that a second replay finds the run
\* of the first; or the turn is refused, which is its answer; or the turn answers with
\* neither (the conversation awaits an approval, or the run of the first replay has
\* ended and its result is returned), and the row stays ...
ReplayKeyed ==
    /\ Keyed
    /\ \E n \in pending :
         \/ /\ kind[n] # "steer"
            /\ pending' = pending \ {n}
            /\ dropped' = dropped \cup ({n} \cap Steers)
            /\ UNCHANGED <<replayed, confirming, refused, left>>
         \/ /\ kind[n] = "steer"
            /\ \/ replayed' = [replayed EXCEPT ![n] = 1] /\ UNCHANGED refused
               \/ refused' = refused \cup {n} /\ UNCHANGED replayed
            /\ confirming' = confirming \cup {n}
            /\ left' = left \ {n}
            /\ UNCHANGED <<pending, dropped>>
         \/ /\ kind[n] = "steer"
            /\ left' = left \cup {n}
            /\ UNCHANGED <<pending, dropped, replayed, confirming, refused>>
    /\ UNCHANGED <<unreplayed, taken, faults>>

\* ... and acknowledged afterwards, unless that fails or the process dies.
ReplayConfirms ==
    \E n \in confirming :
      /\ confirming' = confirming \ {n}
      /\ \/ pending' = pending \ {n} /\ UNCHANGED faults
         \/ Fault /\ UNCHANGED pending
      /\ UNCHANGED <<unreplayed, taken, replayed, dropped, refused, left>>

-----------------------------------------------------------------------------

PollStep ==
    \/ DrainReads \/ DrainSkips \/ DrainAborts \/ DrainOffers \/ DrainAcknowledges
    \/ DrainEnds
TurnStep == TakesIn \/ Acknowledges \/ PollerStopped \/ TurnEnds
WaitStep == WaitReads \/ WaitSees \/ WaitAcknowledges \/ WaitGivesUp
ReplayStep == ReplayTakes \/ ReplayEnqueues \/ ReplayKeyed \/ ReplayConfirms

Next ==
    \/ SenderReads \/ Withdraws \/ \E k \in {"steer", "files", "abort", "client_result"} : Sends(k)
    \/ Rings \/ Ticks \/ PollStep
    \/ TurnStarts \/ TurnStep \/ StopsPoller \/ Crashes
    \/ WaitStarts \/ WaitStep \/ ReplayStep

Spec == Init /\ [][Next]_vars

\* Statements answer, timers fire, a queued run is claimed, a stopped turn winds
\* down and the sweeper comes round.  Nothing makes a turn that nobody stops end.
FairSpec ==
    /\ Spec
    /\ WF_vars(PollStep) /\ WF_vars(Ticks) /\ WF_vars(TurnStep) /\ WF_vars(WaitStep)
    /\ WF_vars(TurnStarts) /\ WF_vars(StopsPoller /\ interrupted)
    /\ WF_vars(ReplayTakes \/ ReplayEnqueues) /\ WF_vars(ReplayKeyed) /\ WF_vars(ReplayConfirms)

-----------------------------------------------------------------------------
(* What is checked                                                         *)

Heard(n) == taped[n] > 0 \/ replayed[n] > 0

\* A steering message leaves the table only when the model has read it, a run was
\* made of it, its turn was refused, or the process that is to make a run of it holds
\* it or lost it; and what a subagent's run left behind no crash or failure drops
\* (acknowledge after intake and after enqueue, against takePending before enqueue):
\* there only a message without text is passed over.
ConsumedMeansHeard ==
    /\ \A n \in Steers \ pending : Heard(n) \/ n \in taken \cup dropped \cup refused
    /\ Keyed => \A n \in taken \cup dropped : kind[n] = "files"

\* Within the run a message is read once, however often the run is attempted, and it
\* is read and replayed only when the acknowledgement of the reading never
\* landed; replays alone never repeat it.
HeardOnce ==
    \A n \in Ids :
        /\ taped[n] <= 1
        /\ replayed[n] <= 1
        /\ (taped[n] > 0 /\ replayed[n] > 0) => n \in missed

\* A signal sent while a poller listens is read by its next drain at the latest: the
\* call that a running drain absorbs is not forgotten.  (A drain whose read fails leaves
\* it to the timer.)
NoSignalStranded ==
    (accepting /\ unseen # {}) => (bell \/ redrain \/ at = "read")

\* A result is consumed during the run only by the wait that returns it, and a wait
\* does not sleep on a result that nobody will announce.
ResultReachesTheWait ==
    /\ \A n \in Sent \ pending :
         (kind[n] = "client_result" /\ ~Over) => outcome = "result"
    /\ (wait = "waiting" /\ Answer # {}) => bell

\* A stop ends the run, also when the attempt that heard it dies and another follows.
StopEndsTheRun == (\E n \in Ids : kind[n] = "abort") ~> Over

\* No signal waits for ever in the table of an ended run, also one whose sender read
\* the run as active just before it ended (the sweeper of orphaned signals), but for a
\* subagent's message whose last replay was answered with neither a run nor a refusal:
\* it waits for an approval, or for ever if its run had ended before it was acknowledged.
NothingLeftBehind == []<>(Over => pending \subseteq left)
=============================================================================
