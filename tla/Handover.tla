------------------------------ MODULE Handover ------------------------------
(***************************************************************************)
(* Handing background work from one deployment to another: a controller in *)
(* every process (src/runs/background-controller.ts, given its start,      *)
(* fence, relinquish and drained by src/index.ts) reconciles with the      *)
(* durable record of OwnershipStore, while an operator moves the ownership *)
(* and retires processes that are known to be dead.                        *)
(*                                                                         *)
(* `pc` is the await a reconcile() is at.  A store call commits in the     *)
(* step that leaves its pc; what it decides on (`seen`) was read before.   *)
(***************************************************************************)
EXTENDS OwnershipStore, FiniteSets

CONSTANTS
    LegacyEnabled,  \* processes whose boot flag enables background work
    ChainedRequests,\* the operator may give expectedLastRequestId
    WorkBound,      \* bound: runs, callbacks and turns a process has in flight
    RequestBound,   \* bound: requests of the operator
    FaultBound      \* bound: watchdogs, failed starts, failed statements, crashes,
                    \* lost answers of admit and lost "drained" reports

ASSUME HandoverAssumption ==
    /\ LegacyEnabled \subseteq Instances
    /\ ChainedRequests \in BOOLEAN
    /\ NoDeployment \notin Deployments
    /\ {WorkBound, RequestBound, FaultBound} \subseteq Nat

VARIABLES
    alive,      \* the process exists
    running,    \* the controller was started and not stopped
    registered,
    pc,         \* the await reconcile (or stop) is at; idle: pending = null
    then,       \* where a release goes on: admit, idle, or caught
    seen,       \* the record that get() returned
    admission,  \* the generation this process believes to be admitted in
    epoch,      \* admissionEpoch
    fenced,     \* no activation, an aborted one, or validUntil has passed
    on,         \* the runtime claims background work
    work,       \* admitted work in flight
    drains,     \* promises of drained() that are pending
    acks,       \* "drained" acknowledgments on their way to the store
    sent,       \* requests of the operator
    applied,    \* history: transitions applied, per request
    faults,
    losses      \* history: the processes whose "drained" report was lost

controllerVars == <<running, registered, pc, then, seen, admission, epoch, fenced, on>>
drainVars == <<drains, acks>>
operatorVars == <<sent, applied>>
boundVars == <<faults, losses>>
vars == <<enabled, generation, desired, lastRequestId, enrolled, memberGen,
          memberState, retired, ready, alive, running, registered, pc, then,
          seen, admission, epoch, fenced, on, work, drains, acks, sent,
          applied, faults, losses>>

NotAdmitted == -1

\* What get() returned; nothing yet.
NothingSeen == [enabled |-> FALSE, generation |-> 0, desired |-> NoDeployment,
                retired |-> FALSE]

Init ==
    /\ OwnershipInit
    /\ alive = [i \in Instances |-> TRUE]
    /\ running = [i \in Instances |-> TRUE]
    /\ registered = [i \in Instances |-> FALSE]
    /\ pc = [i \in Instances |-> "idle"]
    /\ then = [i \in Instances |-> "idle"]
    /\ seen = [i \in Instances |-> NothingSeen]
    /\ admission = [i \in Instances |-> NotAdmitted]
    /\ epoch = [i \in Instances |-> 0]
    /\ fenced = [i \in Instances |-> TRUE]
    /\ on = [i \in Instances |-> FALSE]
    /\ work = [i \in Instances |-> 0]
    /\ drains = [i \in Instances |-> {}]
    /\ acks = [i \in Instances |-> {}]
    /\ sent = {}
    /\ applied = [n \in 1..RequestBound |-> 0]
    /\ faults = 0 /\ losses = {}

\* The process may start background work.
canClaim(i) ==
    alive[i] /\ running[i] /\ admission[i] # NotAdmitted /\ ~fenced[i]

Fault == faults < FaultBound /\ faults' = faults + 1 /\ UNCHANGED losses

\* Broken variant: the activation is not aborted.
fenceNothing(i) == on' = [on EXCEPT ![i] = FALSE] /\ UNCHANGED fenced

fence(i) ==
    /\ fenced' = [fenced EXCEPT ![i] = TRUE]
    /\ on' = [on EXCEPT ![i] = FALSE]

\* What get() returned is a local of reconcile: it is gone once that is over.
Forgets(i) ==
    seen' = [seen EXCEPT ![i] = IF pc'[i] = "idle" THEN NothingSeen ELSE @]

\* release(): fence, relinquish and acknowledge, then go on.
Release(i, next) ==
    /\ fence(i)
    /\ pc' = [pc EXCEPT ![i] = IF admission[i] = NotAdmitted THEN "idle" ELSE "relinquish"]
    /\ then' = [then EXCEPT ![i] = next]

-----------------------------------------------------------------------------
(* reconcile()                                                             *)

Registers(i) ==
    /\ alive[i] /\ running[i] /\ pc[i] = "idle" /\ ~registered[i]
    /\ register(i)
    /\ registered' = [registered EXCEPT ![i] = TRUE]
    /\ pc' = [pc EXCEPT ![i] = "get"]
    /\ UNCHANGED <<alive, running, then, seen, admission, epoch, fenced, on, work,
                   drainVars, operatorVars, boundVars>>

Gets(i) ==
    /\ alive[i]
    /\ pc[i] = "get" \/ (pc[i] = "idle" /\ running[i] /\ registered[i])
    /\ seen' = [seen EXCEPT ![i] =
          [enabled |-> enabled, generation |-> generation, desired |-> desired,
           retired |-> retired[i]]]
    /\ pc' = [pc EXCEPT ![i] = "decide"]
    /\ UNCHANGED <<recordVars, memberVars, alive, running, registered, then, admission,
                   epoch, fenced, on, work, drainVars, operatorVars, boundVars>>

\* `desired` in the code.
Wanted(i) ==
    /\ running[i]
    /\ ~seen[i].retired
    /\ IF seen[i].enabled THEN seen[i].desired = DeploymentOf[i]
                          ELSE i \in LegacyEnabled

\* Broken variant: an admission of an earlier generation is kept.
OutdatedWhenUnwanted(i) ==
    /\ admission[i] # NotAdmitted
    /\ ~Wanted(i) \/ fenced[i]

\* The admission held must be let go.
Outdated(i) ==
    /\ admission[i] # NotAdmitted
    /\ ~Wanted(i) \/ seen[i].generation # admission[i] \/ fenced[i]

\* get() returned: let go first, then admit if wanted; renewing a valid
\* admission changes nothing here.
Decides(i) ==
    /\ alive[i] /\ pc[i] = "decide"
    /\ IF Outdated(i)
       THEN Release(i, IF Wanted(i) THEN "admit" ELSE "idle")
       ELSE /\ pc' = [pc EXCEPT ![i] =
                         IF Wanted(i) /\ admission[i] = NotAdmitted THEN "admit" ELSE "idle"]
            /\ UNCHANGED <<then, fenced, on>>
    /\ Forgets(i)
    /\ UNCHANGED <<recordVars, memberVars, alive, running, registered, admission,
                   epoch, work, drainVars, operatorVars, boundVars>>

\* deps.relinquish(): claims have stopped, ingress is closed.
Relinquishes(i) ==
    /\ alive[i] /\ pc[i] = "relinquish"
    /\ pc' = [pc EXCEPT ![i] = "acknowledge"]
    /\ UNCHANGED <<recordVars, memberVars, alive, running, registered, then, seen,
                   admission, epoch, fenced, on, work, drainVars, operatorVars,
                   boundVars>>

\* acknowledge(..., "relinquished") answers: the admission is given up, and
\* drained() is awaited on the side.
Acknowledges(i) ==
    /\ alive[i] /\ pc[i] = "acknowledge"
    /\ acknowledge(i, admission[i], "relinquished")
    /\ admission' = [admission EXCEPT ![i] = NotAdmitted]
    /\ drains' = [drains EXCEPT ![i] = @ \cup {[generation |-> admission[i], epoch |-> epoch[i]]}]
    /\ pc' = [pc EXCEPT ![i] = IF then[i] = "admit" THEN "admit" ELSE "idle"]
    /\ Forgets(i)
    /\ UNCHANGED <<alive, running, registered, then, epoch, fenced, on, work,
                   acks, operatorVars, boundVars>>

\* It throws: the handler of reconcile tries to release once more, an error of
\* that ends it.  stop() does not.  It is never refused by a conflict: the
\* member's generation is that of the admission, and only the dead are retired.
ReleaseFails(i) ==
    /\ pc' = [pc EXCEPT ![i] = IF then[i] \in {"caught", "stop"} THEN "idle" ELSE "relinquish"]
    /\ then' = [then EXCEPT ![i] = IF @ = "stop" THEN "stop" ELSE "caught"]
    /\ Forgets(i)
    /\ UNCHANGED <<alive, running, registered, admission, epoch, fenced, on,
                   work, drainVars, operatorVars>>

\* deps.relinquish() rejects, or the statement fails, committed or not.
ReleaseErrs(i) ==
    /\ alive[i] /\ pc[i] \in {"relinquish", "acknowledge"}
    /\ Fault
    /\ \/ pc[i] = "acknowledge" /\ acknowledge(i, admission[i], "relinquished")
       \/ UNCHANGED <<recordVars, memberVars>>
    /\ ReleaseFails(i)

\* admit() answers: a new activation begins, unless the controller was stopped.
Admits(i) ==
    /\ alive[i] /\ pc[i] = "admit"
    /\ admit(i, seen[i].generation, i \in LegacyEnabled)
    /\ admission' = [admission EXCEPT ![i] = seen[i].generation]
    /\ epoch' = [epoch EXCEPT ![i] = @ + 1]
    /\ fenced' = [fenced EXCEPT ![i] = ~running[i]]
    /\ pc' = [pc EXCEPT ![i] = IF running[i] THEN "start" ELSE "relinquish"]
    /\ then' = [then EXCEPT ![i] = "idle"]
    /\ UNCHANGED <<alive, running, registered, seen, on, work, drainVars,
                   operatorVars, boundVars>>

AdmitRefused(i) ==
    /\ alive[i] /\ pc[i] = "admit"
    /\ ~Admissible(i, seen[i].generation, i \in LegacyEnabled)
    /\ Release(i, "caught")
    /\ Forgets(i)
    /\ UNCHANGED <<recordVars, memberVars, alive, running, registered, admission,
                   epoch, work, drainVars, operatorVars, boundVars>>

\* admit() commits and its answer is lost: the record counts the process as
\* admitted, the process does not.
AdmitLost(i) ==
    /\ alive[i] /\ pc[i] = "admit"
    /\ Fault
    /\ admit(i, seen[i].generation, i \in LegacyEnabled)
    /\ Release(i, "caught")
    /\ Forgets(i)
    /\ UNCHANGED <<alive, running, registered, admission, epoch, work, drainVars,
                   operatorVars>>

\* deps.start(): background work begins unless the activation was aborted.
Starts(i) ==
    /\ alive[i] /\ pc[i] = "start"
    /\ on' = [on EXCEPT ![i] = ~fenced[i]]
    /\ pc' = [pc EXCEPT ![i] = "starting"]
    /\ UNCHANGED <<recordVars, memberVars, alive, running, registered, then, seen,
                   admission, epoch, fenced, work, drainVars, operatorVars, boundVars>>

Started(i) ==
    /\ alive[i] /\ pc[i] = "starting"
    /\ IF fenced[i] \/ ~running[i]
       THEN Release(i, "idle")
       ELSE pc' = [pc EXCEPT ![i] = "markReady"] /\ UNCHANGED <<then, fenced, on>>
    /\ Forgets(i)
    /\ UNCHANGED <<recordVars, memberVars, alive, running, registered, admission,
                   epoch, work, drainVars, operatorVars, boundVars>>

\* get(), admit(), deps.start() or markReady() fails without an effect.
ReconcileErrs(i) ==
    /\ alive[i] /\ pc[i] \in {"decide", "admit", "starting", "markReady"}
    /\ Fault
    /\ Release(i, "caught")
    /\ Forgets(i)
    /\ UNCHANGED <<recordVars, memberVars, alive, running, registered, admission,
                   epoch, work, drainVars, operatorVars>>

MarksReady(i) ==
    /\ alive[i] /\ pc[i] = "markReady"
    /\ markReady(i, seen[i].generation)
    /\ pc' = [pc EXCEPT ![i] = "idle"]
    /\ Forgets(i)
    /\ UNCHANGED <<alive, running, registered, then, admission, epoch, fenced,
                   on, work, drainVars, operatorVars, boundVars>>

MarkReadyRefused(i) ==
    /\ alive[i] /\ pc[i] = "markReady"
    /\ ~MayBeReady(i, seen[i].generation)
    /\ Release(i, "caught")
    /\ Forgets(i)
    /\ UNCHANGED <<recordVars, memberVars, alive, running, registered, admission,
                   epoch, work, drainVars, operatorVars, boundVars>>

-----------------------------------------------------------------------------
(* What happens beside reconcile()                                         *)

\* refreshStartup() during a long start: the admission is no longer the one
\* the record holds.
StartupOutdated(i) ==
    /\ alive[i] /\ running[i] /\ pc[i] = "starting" /\ ~fenced[i]
    /\ ~(MayBeReady(i, admission[i]) /\ (enabled \/ i \in LegacyEnabled))
    /\ fence(i)
    /\ UNCHANGED <<recordVars, memberVars, alive, running, registered, pc, then, seen,
                   admission, epoch, work, drainVars, operatorVars, boundVars>>

\* No reconcile renewed the admission in time (or a start took too long).
Watchdog(i) ==
    /\ alive[i] /\ ~fenced[i]
    /\ Fault
    /\ fence(i)
    /\ UNCHANGED <<recordVars, memberVars, alive, running, registered, pc, then, seen,
                   admission, epoch, work, drainVars, operatorVars>>

\* stop(): no more reconciles; release once the pending one is over.
StopsController(i) ==
    /\ alive[i] /\ running[i]
    /\ Fault
    /\ running' = [running EXCEPT ![i] = FALSE]
    /\ fence(i)
    /\ UNCHANGED <<recordVars, memberVars, alive, registered, pc, then, seen, admission,
                   epoch, work, drainVars, operatorVars>>

StopReleases(i) ==
    /\ alive[i] /\ ~running[i] /\ admission[i] # NotAdmitted
    /\ pc[i] = "idle" /\ then[i] # "stop"
    /\ Release(i, "stop")
    /\ Forgets(i)
    /\ UNCHANGED <<recordVars, memberVars, alive, running, registered, admission,
                   epoch, work, drainVars, operatorVars, boundVars>>

Crashes(i) ==
    /\ alive[i]
    /\ Fault
    /\ alive' = [alive EXCEPT ![i] = FALSE]
    /\ work' = [work EXCEPT ![i] = 0]
    /\ drains' = [drains EXCEPT ![i] = {}]
    /\ UNCHANGED <<recordVars, memberVars, controllerVars, acks, operatorVars>>

\* A worker's claim, a cron callback, a synchronous turn.
WorkStarts(i) ==
    /\ canClaim(i) /\ on[i]
    /\ work[i] < WorkBound
    /\ work' = [work EXCEPT ![i] = @ + 1]
    /\ UNCHANGED <<recordVars, memberVars, alive, controllerVars, drainVars,
                   operatorVars, boundVars>>

WorkEnds(i) ==
    /\ work[i] > 0
    /\ work' = [work EXCEPT ![i] = @ - 1]
    /\ UNCHANGED <<recordVars, memberVars, alive, controllerVars, drainVars,
                   operatorVars, boundVars>>

\* Broken variant: the report compares the epoch with the next one.
DrainResolvesSilently(i) ==
    \E d \in drains[i] :
        /\ work[i] = 0
        /\ drains' = [drains EXCEPT ![i] = @ \ {d}]
        /\ acks' = [acks EXCEPT ![i] =
              IF admission[i] = NotAdmitted /\ d.epoch > epoch[i]
              THEN @ \cup {d.generation} ELSE @]
        /\ UNCHANGED <<recordVars, memberVars, alive, controllerVars, work,
                       operatorVars, boundVars>>

\* drained() resolves; the acknowledgment is sent unless the process was
\* admitted again.  Nothing awaits its commit.
DrainResolves(i) ==
    \E d \in drains[i] :
        /\ work[i] = 0
        /\ drains' = [drains EXCEPT ![i] = @ \ {d}]
        /\ acks' = [acks EXCEPT ![i] =
              IF admission[i] = NotAdmitted /\ d.epoch = epoch[i]
              THEN @ \cup {d.generation} ELSE @]
        /\ UNCHANGED <<recordVars, memberVars, alive, controllerVars, work,
                       operatorVars, boundVars>>

DrainAcknowledged(i) ==
    \E g \in acks[i] :
        /\ acknowledge(i, g, "drained")
           \/ (~Acknowledgeable(i, g, "drained") /\ UNCHANGED <<recordVars, memberVars>>)
        /\ acks' = [acks EXCEPT ![i] = @ \ {g}]
        /\ UNCHANGED <<alive, controllerVars, work, drains, operatorVars, boundVars>>

\* The statement fails: the error is reported, and nothing tries again.
DrainUnacknowledged(i) ==
    \E g \in acks[i] :
        /\ faults < FaultBound
        /\ faults' = faults + 1
        /\ losses' = losses \cup {i}
        /\ acks' = [acks EXCEPT ![i] = @ \ {g}]
        /\ UNCHANGED <<recordVars, memberVars, alive, controllerVars, work, drains,
                       operatorVars>>

-----------------------------------------------------------------------------
(* The operator                                                            *)

NextId == Cardinality(sent) + 1

\* The operator sends what the status it just read calls for.
SendsTransition ==
    /\ NextId <= RequestBound
    /\ \E d \in Deployments \cup {NoDeployment} :
       \E after \in {AnyRequest} \cup (IF ChainedRequests THEN {lastRequestId} ELSE {}) :
         sent' = sent \cup
            {[id |-> NextId, kind |-> "transition", expected |-> generation,
              desired |-> d, after |-> after, members |-> {},
              cohort |-> IF enabled THEN {} ELSE {TaskOf[i] : i \in Current}]}
    /\ UNCHANGED <<recordVars, memberVars, alive, controllerVars, work, drainVars,
                   applied, boundVars>>

\* Only processes known to be dead are retired.
SendsRetirement ==
    /\ NextId <= RequestBound
    /\ \E dead \in (SUBSET {i \in enrolled : ~alive[i]}) \ {{}} :
         sent' = sent \cup
            {[id |-> NextId, kind |-> "retirement", expected |-> generation,
              desired |-> NoDeployment, after |-> AnyRequest, cohort |-> {},
              members |-> {[instance |-> i, generation |-> memberGen[i]] : i \in dead}]}
    /\ UNCHANGED <<recordVars, memberVars, alive, controllerVars, work, drainVars,
                   applied, boundVars>>

\* A request arrives, for the first time or again.
TransitionArrives(req) ==
    /\ req.kind = "transition"
    /\ transition(req)
    /\ applied' = [applied EXCEPT ![req.id] = @ + 1]
    /\ UNCHANGED <<alive, controllerVars, work, drainVars, sent, boundVars>>

RetirementArrives(req) ==
    /\ req.kind = "retirement"
    /\ retire(req)
    /\ UNCHANGED <<alive, controllerVars, work, drainVars, operatorVars, boundVars>>

-----------------------------------------------------------------------------

Reconciles(i) ==
    \/ Registers(i) \/ Gets(i) \/ Decides(i)
    \/ Relinquishes(i) \/ Acknowledges(i)
    \/ Admits(i) \/ AdmitRefused(i)
    \/ Starts(i) \/ Started(i) \/ MarksReady(i) \/ MarkReadyRefused(i)
    \/ StopReleases(i)

Beside(i) ==
    \/ ReleaseErrs(i) \/ AdmitLost(i) \/ ReconcileErrs(i)
    \/ StartupOutdated(i) \/ Watchdog(i) \/ StopsController(i) \/ Crashes(i)
    \/ WorkStarts(i) \/ WorkEnds(i) \/ DrainResolves(i) \/ DrainAcknowledged(i)
    \/ DrainUnacknowledged(i)

Operates ==
    \/ SendsTransition \/ SendsRetirement
    \/ \E req \in sent : TransitionArrives(req) \/ RetirementArrives(req)

Next == Operates \/ \E i \in Instances : Reconciles(i) \/ Beside(i)

Spec == Init /\ [][Next]_vars

\* The poller reconciles every second, and work in flight ends.  The operator
\* is not fair.
FairSpec ==
    /\ Spec
    /\ \A i \in Instances :
          /\ WF_vars(Reconciles(i))
          /\ WF_vars(WorkEnds(i))
          /\ WF_vars(DrainResolves(i) \/ DrainAcknowledged(i))

-----------------------------------------------------------------------------
(* What is checked                                                         *)

\* Once the protocol admitted a process, no process of another deployment can
\* claim work: not one of an earlier generation that has not noticed, nor one
\* admitted by its boot flag before bootstrap (admit() in
\* background-ownership.ts, release() in background-controller.ts).
SingleOwner ==
    \A i, j \in Instances :
        (canClaim(i) /\ admission[i] > 0 /\ canClaim(j)) =>
            DeploymentOf[i] = DeploymentOf[j]

\* A process whose member record says relinquished or drained claims nothing.
RelinquishedClaimsNothing ==
    \A i \in Instances : canClaim(i) => memberState[i] = "admitted"

\* A transition that is delivered late, twice or after another request, be it a
\* retirement, took the place of its id in the record is applied at most once.
TransitionAppliedOnce == \A n \in 1..RequestBound : applied[n] <= 1

\* "drained means the process's admitted background work has finished"
\* (docs/background-ownership.md).
DrainedMeansFinished ==
    \A i \in enrolled : memberState[i] = "drained" => work[i] = 0

\* The record counts the process as admitted, and nobody will let go for it: it is
\* dead, or was stopped and has not let go, or the answer of its admit() was lost
\* and the generation moved on before it was admitted again.  In that last case it
\* lives and knows of no admission that it could let go.
Stranded(i) ==
    /\ memberState[i] = "admitted"
    /\ alive[i] /\ running[i] => admission[i] = NotAdmitted /\ memberGen[i] # generation

\* A process of the desired deployment becomes ready in the current generation,
\* once the operator leaves the ownership alone and no member is stranded.  That
\* exception is the code's own: a stranded member blocks every admission, its own
\* too, until it is dead and retired.
HandoverCompletes ==
    \A i \in Instances :
        <>[](/\ enabled /\ desired = DeploymentOf[i]
             /\ alive[i] /\ running[i] /\ i \in Current
             /\ \A j \in enrolled : ~Stranded(j))
        => <>[](ready[i] /\ memberGen[i] = generation)

\* A process that lost the ownership for good reports that it has drained, which
\* is what makes its deployment safe to replace, unless it is stranded or a
\* report of it was lost: nothing sends one again.
EventuallyDrained ==
    \A i \in Instances :
        <>[](/\ enabled /\ desired # DeploymentOf[i]
             /\ alive[i] /\ running[i] /\ i \in Current
             /\ ~Stranded(i) /\ i \notin losses)
        => <>[](memberState[i] = "drained")
=============================================================================
