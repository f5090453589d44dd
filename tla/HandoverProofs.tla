--------------------------- MODULE HandoverProofs ---------------------------
(***************************************************************************)
(* Proofs about Handover, for any processes, deployments, tasks, requests, *)
(* faults and lost answers.                                                *)
(*                                                                         *)
(* SingleOwner follows from two facts that are kept by different parties.  *)
(* The record never holds two admitted members of different generations    *)
(* (OneAdmittedGeneration), which admit() keeps; and a process that may    *)
(* claim is admitted in the record in the generation it believes in        *)
(* (ClaimsAreRecorded), which release() keeps by fencing before it tells   *)
(* the record.                                                             *)
(***************************************************************************)
EXTENDS Handover, TLAPS, FiniteSetTheorems

MemberStates == {"admitted", "relinquished", "drained"}

HandoverTypeOK ==
    /\ generation \in Nat
    /\ enrolled \subseteq Instances
    /\ memberGen \in [Instances -> Nat]
    /\ memberState \in [Instances -> MemberStates]
    /\ admission \in [Instances -> Nat \cup {NotAdmitted}]
    /\ pc \in [Instances -> {"idle", "get", "decide", "relinquish", "acknowledge",
                             "admit", "start", "starting", "markReady"}]
    /\ seen \in [Instances -> [enabled : BOOLEAN, generation : Nat,
                               desired : Deployments \cup {NoDeployment},
                               retired : BOOLEAN]]

HandoverFlagsOK ==
    /\ enabled \in BOOLEAN
    /\ desired \in Deployments \cup {NoDeployment}
    /\ alive \in [Instances -> BOOLEAN]
    /\ running \in [Instances -> BOOLEAN]
    /\ fenced \in [Instances -> BOOLEAN]
    /\ retired \in [Instances -> BOOLEAN]

\* Members the record counts as admitted are enrolled, all in one generation;
\* beyond generation 0 they belong to one deployment, and in the current
\* generation to the desired one.
OneAdmittedGeneration ==
    /\ enabled <=> generation > 0
    /\ \A i \in Instances : memberGen[i] <= generation
    /\ \A i \in Instances : memberState[i] = "admitted" =>
          /\ i \in enrolled
          /\ memberGen[i] > 0 /\ memberGen[i] = generation => desired = DeploymentOf[i]
    /\ \A i, j \in Instances :
          memberState[i] = "admitted" /\ memberState[j] = "admitted" =>
             /\ memberGen[i] = memberGen[j]
             /\ memberGen[i] > 0 => DeploymentOf[i] = DeploymentOf[j]

\* A process that lives and is not fenced is admitted in the record as it
\* believes; it is fenced before it tells the record that it let go.
ClaimsAreRecorded ==
    \A i \in Instances :
        /\ pc[i] \in {"relinquish", "acknowledge"} => fenced[i]
        /\ alive[i] /\ admission[i] # NotAdmitted /\ ~fenced[i] =>
              memberState[i] = "admitted" /\ memberGen[i] = admission[i]

\* A retirement names processes that are dead, and they stay dead.
RetirementsNameTheDead ==
    \A req \in sent : req.kind = "retirement" =>
        \A m \in req.members : ~alive[m.instance]

\* The operator's requests name a deployment, or none.
RequestsNameDeployments ==
    \A req \in sent : req.desired \in Deployments \cup {NoDeployment}

OwnerInv ==
    /\ HandoverTypeOK
    /\ HandoverFlagsOK
    /\ OneAdmittedGeneration
    /\ ClaimsAreRecorded
    /\ RequestsNameDeployments
    /\ RetirementsNameTheDead

\* Each request has an id of its own; one that was applied as a transition
\* expects a generation that is over.
RequestsAreSpent ==
    /\ generation \in Nat
    /\ IsFiniteSet(sent)
    /\ applied \in [1..RequestBound -> Nat]
    /\ \A r \in sent : r.id \in 1..Cardinality(sent) /\ r.expected \in 0..generation
    /\ \A r, s \in sent : r.id = s.id => r = s
    /\ Cardinality(sent) <= RequestBound
    /\ \A r \in sent : applied[r.id] <= 1 /\ (applied[r.id] = 1 => generation > r.expected)
    /\ \A n \in 1..RequestBound : n > Cardinality(sent) => applied[n] = 0
    /\ \A n \in 1..RequestBound : applied[n] <= 1

-----------------------------------------------------------------------------
(* Types                                                                   *)

\* What Release changes keeps its type.
LEMMA ReleaseType ==
    ASSUME HandoverTypeOK, NEW i \in Instances, NEW next, Release(i, next)
    PROVE  /\ pc' \in [Instances -> {"idle", "get", "decide", "relinquish", "acknowledge",
                                     "admit", "start", "starting", "markReady"}]
           /\ fenced' = [fenced EXCEPT ![i] = TRUE]
BY DEF HandoverTypeOK, Release, fence

\* What get() returned, or nothing, is kept.
LEMMA ForgetsType ==
    ASSUME HandoverTypeOK, NEW i \in Instances, Forgets(i)
    PROVE  seen' \in [Instances -> [enabled : BOOLEAN, generation : Nat,
                                    desired : Deployments \cup {NoDeployment},
                                    retired : BOOLEAN]]
<1>1. NothingSeen \in [enabled : BOOLEAN, generation : Nat,
                       desired : Deployments \cup {NoDeployment}, retired : BOOLEAN]
  BY DEF NothingSeen
<1> QED BY <1>1 DEF HandoverTypeOK, Forgets

\* An acknowledgment that relinquishes, or one that says drained.
LEMMA AcknowledgeType ==
    ASSUME HandoverTypeOK, NEW i \in Instances, NEW g,
           NEW next \in {"relinquished", "drained"}, acknowledge(i, g, next)
    PROVE  memberState' \in [Instances -> MemberStates]
BY DEF HandoverTypeOK, acknowledge, MemberStates

\* Every step keeps the types of the record and of the controllers.
LEMMA HandoverTypeStep ==
    ASSUME HandoverTypeOK, HandoverFlagsOK, Next
    PROVE  HandoverTypeOK'
<1>1. ASSUME NEW i \in Instances, Reconciles(i) PROVE HandoverTypeOK'
  <2>1. CASE Registers(i)
    BY <2>1 DEF HandoverTypeOK, Registers, register, recordVars
  <2>2. CASE Gets(i)
    <3> DEFINE s == [enabled |-> enabled, generation |-> generation,
                     desired |-> desired, retired |-> retired[i]]
    <3>1. s \in [enabled : BOOLEAN, generation : Nat,
                 desired : Deployments \cup {NoDeployment}, retired : BOOLEAN]
      BY DEF HandoverTypeOK, HandoverFlagsOK
    <3>2. seen' = [seen EXCEPT ![i] = s]
      BY <2>2 DEF Gets
    <3> HIDE DEF s
    <3> QED BY <2>2, <3>1, <3>2 DEF HandoverTypeOK, Gets, recordVars, memberVars
  <2>3. CASE Decides(i)
    <3>1. pc' \in [Instances -> {"idle", "get", "decide", "relinquish", "acknowledge",
                                 "admit", "start", "starting", "markReady"}]
      BY <2>3, ReleaseType DEF HandoverTypeOK, Decides
    <3> QED BY <2>3, <3>1, ForgetsType
            DEF HandoverTypeOK, Decides, recordVars, memberVars
  <2>4. CASE Relinquishes(i)
    BY <2>4 DEF HandoverTypeOK, Relinquishes, recordVars, memberVars
  <2>5. CASE Acknowledges(i)
    <3>1. memberState' \in [Instances -> MemberStates]
      BY <2>5, AcknowledgeType DEF Acknowledges
    <3> QED BY <2>5, <3>1, ForgetsType
            DEF HandoverTypeOK, Acknowledges, acknowledge, recordVars
  <2>6. CASE Admits(i)
    BY <2>6 DEF HandoverTypeOK, Admits, admit, MemberStates, recordVars
  <2>7. CASE AdmitRefused(i) \/ MarkReadyRefused(i) \/ StopReleases(i)
    BY <2>7, ReleaseType, ForgetsType
    DEF HandoverTypeOK, AdmitRefused, MarkReadyRefused, StopReleases, recordVars, memberVars
  <2>8. CASE Starts(i)
    BY <2>8 DEF HandoverTypeOK, Starts, recordVars, memberVars
  <2>9. CASE Started(i)
    <3>1. pc' \in [Instances -> {"idle", "get", "decide", "relinquish", "acknowledge",
                                 "admit", "start", "starting", "markReady"}]
      BY <2>9, ReleaseType DEF HandoverTypeOK, Started
    <3> QED BY <2>9, <3>1, ForgetsType
            DEF HandoverTypeOK, Started, recordVars, memberVars
  <2>10. CASE MarksReady(i)
    BY <2>10, ForgetsType DEF HandoverTypeOK, MarksReady, markReady, recordVars
  <2> QED BY <1>1, <2>1, <2>2, <2>3, <2>4, <2>5, <2>6, <2>7, <2>8, <2>9, <2>10
          DEF Reconciles
<1>2. ASSUME NEW i \in Instances, Beside(i) PROVE HandoverTypeOK'
  <2>1. CASE ReleaseErrs(i)
    <3>1. /\ memberState' \in [Instances -> MemberStates]
          /\ UNCHANGED <<recordVars, enrolled, memberGen>>
      BY <2>1, AcknowledgeType
      DEF HandoverTypeOK, ReleaseErrs, acknowledge, recordVars, memberVars
    <3> QED BY <2>1, <3>1, ForgetsType
            DEF HandoverTypeOK, ReleaseErrs, ReleaseFails, recordVars
  <2>2. CASE AdmitLost(i)
    BY <2>2, ReleaseType, ForgetsType
    DEF HandoverTypeOK, AdmitLost, admit, MemberStates, recordVars
  <2>3. CASE ReconcileErrs(i)
    BY <2>3, ReleaseType, ForgetsType
    DEF HandoverTypeOK, ReconcileErrs, recordVars, memberVars
  <2>4. CASE \/ StartupOutdated(i) \/ Watchdog(i) \/ StopsController(i)
             \/ Crashes(i) \/ WorkStarts(i) \/ WorkEnds(i)
    BY <2>4 DEF HandoverTypeOK, StartupOutdated, Watchdog, StopsController, Crashes,
                WorkStarts, WorkEnds, recordVars, memberVars, controllerVars
  <2>5. CASE DrainResolves(i) \/ DrainUnacknowledged(i)
    BY <2>5 DEF HandoverTypeOK, DrainResolves, DrainUnacknowledged, recordVars,
                memberVars, controllerVars
  <2>6. CASE DrainAcknowledged(i)
    <3>1. /\ memberState' \in [Instances -> MemberStates]
          /\ UNCHANGED <<recordVars, enrolled, memberGen>>
      BY <2>6, AcknowledgeType
      DEF HandoverTypeOK, DrainAcknowledged, acknowledge, recordVars, memberVars
    <3> QED BY <2>6, <3>1 DEF HandoverTypeOK, DrainAcknowledged, recordVars, controllerVars
  <2> QED BY <1>2, <2>1, <2>2, <2>3, <2>4, <2>5, <2>6 DEF Beside
<1>3. CASE SendsTransition \/ SendsRetirement
  BY <1>3 DEF HandoverTypeOK, SendsTransition, SendsRetirement, recordVars,
              memberVars, controllerVars
<1>4. ASSUME NEW req \in sent, TransitionArrives(req) PROVE HandoverTypeOK'
  BY <1>4 DEF HandoverTypeOK, TransitionArrives, transition, memberVars, controllerVars
<1>5. ASSUME NEW req \in sent, RetirementArrives(req) PROVE HandoverTypeOK'
  BY <1>5 DEF HandoverTypeOK, RetirementArrives, retire, MemberStates, controllerVars
<1> QED BY <1>1, <1>2, <1>3, <1>4, <1>5 DEF Next, Operates
\* Every step leaves the flags Boolean.
LEMMA HandoverFlagsStep ==
    ASSUME HandoverTypeOK, HandoverFlagsOK, RequestsNameDeployments, Next
    PROVE  HandoverFlagsOK'
<1>1. ASSUME NEW i \in Instances, Reconciles(i) PROVE HandoverFlagsOK'
  <2>1. CASE Registers(i) \/ Gets(i) \/ Relinquishes(i) \/ Starts(i)
    BY <2>1 DEF HandoverFlagsOK, Registers, register, Gets, Relinquishes, Starts,
                recordVars, memberVars
  <2>2. CASE Decides(i)
    BY <2>2 DEF HandoverFlagsOK, Decides, Release, fence, recordVars, memberVars
  <2>3. CASE Acknowledges(i)
    BY <2>3 DEF HandoverFlagsOK, Acknowledges, acknowledge, recordVars
  <2>4. CASE Admits(i)
    BY <2>4 DEF HandoverFlagsOK, Admits, admit, recordVars
  <2>5. CASE AdmitRefused(i) \/ MarkReadyRefused(i) \/ StopReleases(i)
    BY <2>5 DEF HandoverFlagsOK, AdmitRefused, MarkReadyRefused, StopReleases, Release,
                fence, recordVars, memberVars
  <2>6. CASE Started(i)
    BY <2>6 DEF HandoverFlagsOK, Started, Release, fence, recordVars, memberVars
  <2>7. CASE MarksReady(i)
    BY <2>7 DEF HandoverFlagsOK, MarksReady, markReady, recordVars
  <2> QED BY <1>1, <2>1, <2>2, <2>3, <2>4, <2>5, <2>6, <2>7 DEF Reconciles
<1>2. ASSUME NEW i \in Instances, Beside(i) PROVE HandoverFlagsOK'
  <2>1. CASE ReleaseErrs(i)
    BY <2>1 DEF HandoverFlagsOK, ReleaseErrs, ReleaseFails, acknowledge, recordVars, memberVars
  <2>2. CASE AdmitLost(i)
    BY <2>2 DEF HandoverFlagsOK, AdmitLost, admit, Release, fence, recordVars
  <2>3. CASE ReconcileErrs(i)
    BY <2>3 DEF HandoverFlagsOK, ReconcileErrs, Release, fence, recordVars, memberVars
  <2>4. CASE StartupOutdated(i) \/ Watchdog(i) \/ StopsController(i) \/ Crashes(i)
    BY <2>4 DEF HandoverFlagsOK, StartupOutdated, Watchdog, StopsController, Crashes,
                fence, recordVars, memberVars, controllerVars
  <2>5. CASE WorkStarts(i) \/ WorkEnds(i) \/ DrainResolves(i) \/ DrainUnacknowledged(i)
    BY <2>5 DEF HandoverFlagsOK, WorkStarts, WorkEnds, DrainResolves, DrainUnacknowledged,
                recordVars, memberVars, controllerVars
  <2>6. CASE DrainAcknowledged(i)
    BY <2>6 DEF HandoverFlagsOK, DrainAcknowledged, acknowledge, recordVars, memberVars,
                controllerVars
  <2> QED BY <1>2, <2>1, <2>2, <2>3, <2>4, <2>5, <2>6 DEF Beside
<1>3. CASE SendsTransition \/ SendsRetirement
  BY <1>3 DEF HandoverFlagsOK, SendsTransition, SendsRetirement, recordVars,
              memberVars, controllerVars
<1>4. ASSUME NEW req \in sent, TransitionArrives(req) PROVE HandoverFlagsOK'
  BY <1>4 DEF HandoverFlagsOK, RequestsNameDeployments, TransitionArrives, transition,
              memberVars, controllerVars
<1>5. ASSUME NEW req \in sent, RetirementArrives(req) PROVE HandoverFlagsOK'
  <2>1. retired' \in [Instances -> BOOLEAN]
    BY <1>5 DEF RetirementArrives, retire
  <2> QED BY <1>5, <2>1 DEF HandoverFlagsOK, RetirementArrives, retire, controllerVars
<1> QED BY <1>1, <1>2, <1>3, <1>4, <1>5 DEF Next, Operates

\* The requests of the operator name deployments of the system and, in a
\* retirement, the dead.
LEMMA RequestsStep ==
    ASSUME HandoverFlagsOK, RequestsNameDeployments, RetirementsNameTheDead, Next
    PROVE  RequestsNameDeployments' /\ RetirementsNameTheDead'
<1>1. CASE SendsTransition
  <2>1. PICK d \in Deployments \cup {NoDeployment},
             after \in {AnyRequest} \cup (IF ChainedRequests THEN {lastRequestId} ELSE {}) :
          sent' = sent \cup
            {[id |-> NextId, kind |-> "transition", expected |-> generation,
              desired |-> d, after |-> after, members |-> {},
              cohort |-> IF enabled THEN {} ELSE {TaskOf[i] : i \in Current}]}
    BY <1>1 DEF SendsTransition
  <2> DEFINE r == [id |-> NextId, kind |-> "transition", expected |-> generation,
                   desired |-> d, after |-> after, members |-> {},
                   cohort |-> IF enabled THEN {} ELSE {TaskOf[i] : i \in Current}]
  <2>2. sent' = sent \cup {r} /\ r.kind = "transition" /\ r.desired = d
    BY <2>1
  <2> HIDE DEF r
  <2>3. alive' = alive
    BY <1>1 DEF SendsTransition
  <2> QED BY <2>2, <2>3 DEF RequestsNameDeployments, RetirementsNameTheDead
<1>2. CASE SendsRetirement
  <2>1. PICK dead \in (SUBSET {i \in enrolled : ~alive[i]}) \ {{}} :
          sent' = sent \cup
            {[id |-> NextId, kind |-> "retirement", expected |-> generation,
              desired |-> NoDeployment, after |-> AnyRequest, cohort |-> {},
              members |-> {[instance |-> i, generation |-> memberGen[i]] : i \in dead}]}
    BY <1>2 DEF SendsRetirement
  <2> DEFINE named == {[instance |-> i, generation |-> memberGen[i]] : i \in dead}
             r == [id |-> NextId, kind |-> "retirement", expected |-> generation,
                   desired |-> NoDeployment, after |-> AnyRequest, cohort |-> {},
                   members |-> named]
  <2>2. \A m \in named : ~alive[m.instance]
    OBVIOUS
  <2>3. sent' = sent \cup {r} /\ r.desired = NoDeployment /\ r.members = named
    BY <2>1
  <2> HIDE DEF named, r
  <2> QED BY <1>2, <2>2, <2>3
          DEF SendsRetirement, RequestsNameDeployments, RetirementsNameTheDead
<1>3. ASSUME sent' = sent, \A i \in Instances : alive'[i] => alive[i],
             \A m : ~alive[m] => ~alive'[m]
      PROVE  RequestsNameDeployments' /\ RetirementsNameTheDead'
  BY <1>3 DEF RequestsNameDeployments, RetirementsNameTheDead
<1>4. CASE \E req \in sent : TransitionArrives(req) \/ RetirementArrives(req)
  BY <1>4, <1>3 DEF TransitionArrives, RetirementArrives, operatorVars
<1>5. ASSUME NEW i \in Instances, Reconciles(i)
      PROVE  RequestsNameDeployments' /\ RetirementsNameTheDead'
  <2>1. sent' = sent /\ alive' = alive
    BY <1>5 DEF Reconciles, Registers, Gets, Decides, Relinquishes, Acknowledges, Admits,
                AdmitRefused, Starts, Started, MarksReady, MarkReadyRefused,
                StopReleases, operatorVars
  <2> QED BY <1>3, <2>1
<1>6. ASSUME NEW i \in Instances, Beside(i)
      PROVE  RequestsNameDeployments' /\ RetirementsNameTheDead'
  <2>1. CASE Crashes(i)
    BY <1>3, <2>1 DEF Crashes, operatorVars, HandoverFlagsOK
  <2>2. CASE ~Crashes(i)
    <3>1. sent' = sent /\ alive' = alive
      BY <1>6, <2>2 DEF Beside, ReleaseErrs, ReleaseFails, AdmitLost, ReconcileErrs,
                  StartupOutdated, Watchdog, StopsController, WorkStarts, WorkEnds,
                  DrainResolves, DrainAcknowledged, DrainUnacknowledged, operatorVars
    <3> QED BY <1>3, <3>1
  <2> QED BY <2>1, <2>2
<1> QED BY <1>1, <1>2, <1>4, <1>5, <1>6 DEF Next, Operates
-----------------------------------------------------------------------------
(* The record                                                              *)

\* A step that leaves the record alone, or takes members out of "admitted".
LEMMA FewerAdmitted ==
    ASSUME HandoverTypeOK, OneAdmittedGeneration, UNCHANGED recordVars,
           UNCHANGED memberGen, enrolled \subseteq enrolled',
           \A i \in Instances : memberState'[i] = "admitted" => memberState[i] = "admitted"
    PROVE  OneAdmittedGeneration'
BY DEF HandoverTypeOK, OneAdmittedGeneration, recordVars

\* admit() waits until every admitted member is of the current generation.
LEMMA AdmitKeepsOneGeneration ==
    ASSUME HandoverTypeOK, OneAdmittedGeneration, NEW i \in Instances,
           NEW expected, NEW legacy, admit(i, expected, legacy)
    PROVE  OneAdmittedGeneration'
<1>1. /\ generation' = generation /\ enabled' = enabled /\ desired' = desired
      /\ enrolled' = enrolled /\ i \in enrolled
  BY DEF admit, Admissible, Current, recordVars
<1>2. \A j \in Instances : memberState[j] = "admitted" => memberGen[j] = generation
  <2>1. CASE enabled
    BY <2>1 DEF admit, Admissible, OneAdmittedGeneration
  <2>2. CASE ~enabled
    BY <2>2 DEF HandoverTypeOK, OneAdmittedGeneration
  <2> QED BY <2>1, <2>2
<1>3. generation > 0 => desired = DeploymentOf[i]
  BY DEF admit, Admissible, OneAdmittedGeneration
<1>4. \A j \in Instances : memberState'[j] = "admitted" =>
         /\ j \in enrolled /\ memberGen'[j] = generation
         /\ generation > 0 => desired = DeploymentOf[j]
  BY <1>1, <1>2, <1>3 DEF admit, HandoverTypeOK, OneAdmittedGeneration
<1>5. \A j \in Instances : memberGen'[j] <= generation
  BY DEF admit, HandoverTypeOK, OneAdmittedGeneration
<1> QED BY <1>1, <1>4, <1>5 DEF OneAdmittedGeneration

\* acknowledge() never admits.
LEMMA AcknowledgeKeepsOneGeneration ==
    ASSUME HandoverTypeOK, OneAdmittedGeneration, NEW i \in Instances, NEW g,
           NEW next \in {"relinquished", "drained"}, acknowledge(i, g, next)
    PROVE  OneAdmittedGeneration'
<1>1. \A j \in Instances : memberState'[j] = "admitted" => memberState[j] = "admitted"
  BY DEF acknowledge, HandoverTypeOK
<1> QED BY <1>1, FewerAdmitted DEF acknowledge

\* Every step leaves one generation admitted, admit() in particular.
LEMMA OneGenerationStep ==
    ASSUME HandoverTypeOK, OneAdmittedGeneration, Next
    PROVE  OneAdmittedGeneration'
<1>1. ASSUME UNCHANGED <<recordVars, memberVars>> PROVE OneAdmittedGeneration'
  BY <1>1 DEF OneAdmittedGeneration, recordVars, memberVars
<1>2. ASSUME NEW i \in Instances, Reconciles(i) PROVE OneAdmittedGeneration'
  <2>1. CASE Registers(i)
    BY <2>1 DEF HandoverTypeOK, OneAdmittedGeneration, Registers, register, recordVars
  <2>2. CASE Acknowledges(i)
    BY <2>2, AcknowledgeKeepsOneGeneration DEF Acknowledges
  <2>3. CASE Admits(i)
    BY <2>3, AdmitKeepsOneGeneration DEF Admits
  <2>4. CASE MarksReady(i)
    BY <2>4 DEF OneAdmittedGeneration, MarksReady, markReady, recordVars
  <2>5. CASE \/ Gets(i) \/ Decides(i) \/ Relinquishes(i) \/ AdmitRefused(i) \/ Starts(i)
             \/ Started(i) \/ MarkReadyRefused(i) \/ StopReleases(i)
    BY <1>1, <2>5 DEF Gets, Decides, Relinquishes, AdmitRefused, Starts, Started,
                      MarkReadyRefused, StopReleases
  <2> QED BY <1>2, <2>1, <2>2, <2>3, <2>4, <2>5 DEF Reconciles
<1>3. ASSUME NEW i \in Instances, Beside(i) PROVE OneAdmittedGeneration'
  <2>1. CASE ReleaseErrs(i)
    BY <1>1, <2>1, AcknowledgeKeepsOneGeneration DEF ReleaseErrs
  <2>2. CASE AdmitLost(i)
    BY <2>2, AdmitKeepsOneGeneration DEF AdmitLost
  <2>3. CASE DrainAcknowledged(i)
    BY <1>1, <2>3, AcknowledgeKeepsOneGeneration DEF DrainAcknowledged
  <2>4. CASE \/ ReconcileErrs(i) \/ StartupOutdated(i) \/ Watchdog(i)
             \/ StopsController(i) \/ Crashes(i) \/ WorkStarts(i) \/ WorkEnds(i)
             \/ DrainResolves(i) \/ DrainUnacknowledged(i)
    BY <1>1, <2>4 DEF ReconcileErrs, StartupOutdated, Watchdog, StopsController, Crashes,
                      WorkStarts, WorkEnds, DrainResolves, DrainUnacknowledged
  <2> QED BY <1>3, <2>1, <2>2, <2>3, <2>4 DEF Beside
<1>4. CASE SendsTransition \/ SendsRetirement
  BY <1>1, <1>4 DEF SendsTransition, SendsRetirement
<1>5. ASSUME NEW req \in sent, TransitionArrives(req) PROVE OneAdmittedGeneration'
  BY <1>5 DEF HandoverTypeOK, OneAdmittedGeneration, TransitionArrives, transition, memberVars
<1>6. ASSUME NEW req \in sent, RetirementArrives(req) PROVE OneAdmittedGeneration'
  <2>1. \A j \in Instances : memberState'[j] = "admitted" => memberState[j] = "admitted"
    BY <1>6 DEF RetirementArrives, retire
  <2>2. /\ enabled' = enabled /\ generation' = generation /\ desired' = desired
        /\ memberGen' = memberGen /\ enrolled' = enrolled
    BY <1>6 DEF RetirementArrives, retire
  <2> QED BY <2>1, <2>2 DEF OneAdmittedGeneration, HandoverTypeOK
<1> QED BY <1>2, <1>3, <1>4, <1>5, <1>6 DEF Next, Operates

-----------------------------------------------------------------------------
(* The processes                                                           *)

\* A step of process i leaves what the others rely on.
LEMMA OthersUndisturbed ==
    ASSUME HandoverTypeOK, HandoverFlagsOK, ClaimsAreRecorded, NEW i \in Instances,
           \A j \in Instances \ {i} :
              /\ pc'[j] = pc[j] /\ fenced'[j] = fenced[j] /\ alive'[j] = alive[j]
              /\ admission'[j] = admission[j] /\ memberState'[j] = memberState[j]
              /\ memberGen'[j] = memberGen[j],
           pc'[i] \in {"relinquish", "acknowledge"} => fenced'[i],
           alive'[i] /\ admission'[i] # NotAdmitted /\ ~fenced'[i] =>
              memberState'[i] = "admitted" /\ memberGen'[i] = admission'[i]
    PROVE  ClaimsAreRecorded'
BY DEF ClaimsAreRecorded

\* release() fences first.
LEMMA ReleaseFences ==
    ASSUME HandoverTypeOK, HandoverFlagsOK, ClaimsAreRecorded, NEW i \in Instances,
           NEW next, Release(i, next), UNCHANGED <<alive, admission>>,
           \A j \in Instances \ {i} : /\ memberState'[j] = memberState[j]
                                      /\ memberGen'[j] = memberGen[j]
    PROVE  ClaimsAreRecorded'
BY OthersUndisturbed DEF HandoverTypeOK, HandoverFlagsOK, Release, fence

\* Every step leaves what may claim in the record.
LEMMA ClaimsStep ==
    ASSUME HandoverTypeOK, HandoverFlagsOK, OneAdmittedGeneration, ClaimsAreRecorded,
           RetirementsNameTheDead, Next
    PROVE  ClaimsAreRecorded'
<1>1. ASSUME NEW i \in Instances, Reconciles(i) PROVE ClaimsAreRecorded'
  <2>1. CASE Registers(i)
    <3>1. memberState[i] = "admitted" => memberGen'[i] = memberGen[i]
      BY <2>1 DEF HandoverTypeOK, OneAdmittedGeneration, Registers, register
    <3> QED BY <2>1, <3>1, OthersUndisturbed
            DEF HandoverTypeOK, Registers, register, ClaimsAreRecorded
  <2>2. CASE Gets(i) \/ Starts(i)
    BY <2>2, OthersUndisturbed
    DEF HandoverTypeOK, Gets, Starts, ClaimsAreRecorded, memberVars
  <2>3. CASE Decides(i)
    <3>1. CASE Outdated(i)
      BY <2>3, <3>1, ReleaseFences DEF Decides, memberVars
    <3>2. CASE ~Outdated(i)
      BY <2>3, <3>2, OthersUndisturbed
      DEF HandoverTypeOK, Decides, ClaimsAreRecorded, memberVars
    <3> QED BY <3>1, <3>2
  <2>4. CASE Relinquishes(i)
    BY <2>4, OthersUndisturbed
    DEF HandoverTypeOK, Relinquishes, ClaimsAreRecorded, memberVars
  <2>5. CASE Acknowledges(i)
    BY <2>5, OthersUndisturbed
    DEF HandoverTypeOK, Acknowledges, acknowledge, ClaimsAreRecorded
  <2>6. CASE Admits(i)
    <3>1. memberState'[i] = "admitted" /\ memberGen'[i] = admission'[i]
      BY <2>6 DEF HandoverTypeOK, Admits, admit, Admissible
    <3>2. pc'[i] \in {"relinquish", "acknowledge"} => fenced'[i]
      BY <2>6 DEF HandoverTypeOK, HandoverFlagsOK, Admits
    <3> QED BY <2>6, <3>1, <3>2, OthersUndisturbed
            DEF HandoverTypeOK, HandoverFlagsOK, Admits, admit
  <2>7. CASE AdmitRefused(i) \/ MarkReadyRefused(i) \/ StopReleases(i)
    BY <2>7, ReleaseFences DEF AdmitRefused, MarkReadyRefused, StopReleases, memberVars
  <2>8. CASE Started(i)
    <3>1. CASE fenced[i] \/ ~running[i]
      BY <2>8, <3>1, ReleaseFences DEF Started, memberVars
    <3>2. CASE ~(fenced[i] \/ ~running[i])
      BY <2>8, <3>2, OthersUndisturbed
      DEF HandoverTypeOK, Started, ClaimsAreRecorded, memberVars
    <3> QED BY <3>1, <3>2
  <2>9. CASE MarksReady(i)
    BY <2>9, OthersUndisturbed
    DEF HandoverTypeOK, MarksReady, markReady, ClaimsAreRecorded
  <2> QED BY <1>1, <2>1, <2>2, <2>3, <2>4, <2>5, <2>6, <2>7, <2>8, <2>9 DEF Reconciles
<1>2. ASSUME NEW i \in Instances, Beside(i) PROVE ClaimsAreRecorded'
  <2>1. CASE ReleaseErrs(i)
    <3>1. fenced[i] /\ fenced' = fenced
      BY <2>1 DEF ReleaseErrs, ReleaseFails, ClaimsAreRecorded
    <3>2. \A j \in Instances \ {i} :
             memberState'[j] = memberState[j] /\ memberGen'[j] = memberGen[j]
      BY <2>1 DEF HandoverTypeOK, ReleaseErrs, acknowledge, memberVars
    <3> QED BY <2>1, <3>1, <3>2, OthersUndisturbed
            DEF HandoverTypeOK, ReleaseErrs, ReleaseFails
  <2>2. CASE AdmitLost(i)
    BY <2>2, ReleaseFences DEF HandoverTypeOK, AdmitLost, admit
  <2>3. CASE ReconcileErrs(i)
    BY <2>3, ReleaseFences DEF ReconcileErrs, memberVars
  <2>4. CASE StartupOutdated(i) \/ Watchdog(i) \/ StopsController(i)
    BY <2>4, OthersUndisturbed
    DEF HandoverTypeOK, HandoverFlagsOK, StartupOutdated, Watchdog, StopsController,
        fence, memberVars
  <2>5. CASE Crashes(i)
    BY <2>5, OthersUndisturbed
    DEF HandoverTypeOK, HandoverFlagsOK, Crashes, ClaimsAreRecorded, memberVars, controllerVars
  <2>6. CASE WorkStarts(i) \/ WorkEnds(i) \/ DrainResolves(i) \/ DrainUnacknowledged(i)
    BY <2>6 DEF WorkStarts, WorkEnds, DrainResolves, DrainUnacknowledged,
                ClaimsAreRecorded, memberVars, controllerVars
  <2>7. CASE DrainAcknowledged(i)
    <3>1. \A j \in Instances : memberState[j] = "admitted" => memberState'[j] = "admitted"
      BY <2>7 DEF HandoverTypeOK, DrainAcknowledged, acknowledge, Acknowledgeable, memberVars
    <3>2. memberGen' = memberGen
      BY <2>7 DEF DrainAcknowledged, acknowledge, memberVars
    <3> QED BY <2>7, <3>1, <3>2 DEF DrainAcknowledged, ClaimsAreRecorded, controllerVars
  <2> QED BY <1>2, <2>1, <2>2, <2>3, <2>4, <2>5, <2>6, <2>7 DEF Beside
<1>3. CASE SendsTransition \/ SendsRetirement
  BY <1>3 DEF ClaimsAreRecorded, SendsTransition, SendsRetirement, memberVars, controllerVars
<1>4. ASSUME NEW req \in sent, TransitionArrives(req) PROVE ClaimsAreRecorded'
  BY <1>4 DEF ClaimsAreRecorded, TransitionArrives, transition, memberVars, controllerVars
<1>5. ASSUME NEW req \in sent, RetirementArrives(req) PROVE ClaimsAreRecorded'
  <2>1. \A j \in Instances : alive[j] => memberState'[j] = memberState[j]
    BY <1>5 DEF RetirementArrives, retire, Proven, RetirementsNameTheDead
  <2> QED BY <1>5, <2>1 DEF RetirementArrives, retire, ClaimsAreRecorded, controllerVars
<1> QED BY <1>1, <1>2, <1>3, <1>4, <1>5 DEF Next, Operates
-----------------------------------------------------------------------------
(* Theorems                                                                *)

\* The record and the processes agree about who is admitted, in every
\* reachable state, with faults, lost answers and requests delivered late.
THEOREM OwnerInvariant == Spec => []OwnerInv
<1>1. Init => OwnerInv
  <2> SUFFICES ASSUME Init PROVE OwnerInv
    OBVIOUS
  <2>1. NothingSeen \in [enabled : BOOLEAN, generation : Nat,
                         desired : Deployments \cup {NoDeployment}, retired : BOOLEAN]
    BY DEF NothingSeen
  <2>2. HandoverTypeOK
    BY <2>1 DEF Init, OwnershipInit, HandoverTypeOK, MemberStates
  <2>3. HandoverFlagsOK
    BY DEF Init, OwnershipInit, HandoverFlagsOK
  <2>4. OneAdmittedGeneration
    BY DEF Init, OwnershipInit, OneAdmittedGeneration
  <2>5. ClaimsAreRecorded /\ RequestsNameDeployments /\ RetirementsNameTheDead
    BY DEF Init, ClaimsAreRecorded, RequestsNameDeployments, RetirementsNameTheDead
  <2> QED BY <2>2, <2>3, <2>4, <2>5 DEF OwnerInv
<1>2. OwnerInv /\ [Next]_vars => OwnerInv'
  <2> SUFFICES ASSUME OwnerInv, [Next]_vars PROVE OwnerInv'
    OBVIOUS
  <2>1. CASE Next
    BY <2>1, HandoverTypeStep, HandoverFlagsStep, RequestsStep, OneGenerationStep,
       ClaimsStep DEF OwnerInv
  <2>2. CASE UNCHANGED vars
    BY <2>2 DEF vars, OwnerInv, HandoverTypeOK, HandoverFlagsOK, OneAdmittedGeneration,
                ClaimsAreRecorded, RequestsNameDeployments, RetirementsNameTheDead
  <2> QED BY <2>1, <2>2
<1> QED BY <1>1, <1>2, PTL DEF Spec

\* A process whose member record says relinquished or drained claims nothing:
\* release() in background-controller.ts fences before it acknowledges.
THEOREM RelinquishedClaimsNothingHolds == Spec => []RelinquishedClaimsNothing
<1>1. OwnerInv => RelinquishedClaimsNothing
  BY DEF OwnerInv, ClaimsAreRecorded, RelinquishedClaimsNothing, canClaim
<1> QED BY <1>1, OwnerInvariant, PTL

\* Once the protocol admitted a process, no process of another deployment can
\* claim work (admit() in background-ownership.ts).
THEOREM SingleOwnerHolds == Spec => []SingleOwner
<1>1. OwnerInv => SingleOwner
  <2> SUFFICES ASSUME OwnerInv, NEW i \in Instances, NEW j \in Instances,
                      canClaim(i), admission[i] > 0, canClaim(j)
               PROVE  DeploymentOf[i] = DeploymentOf[j]
    BY DEF SingleOwner
  <2>1. memberState[i] = "admitted" /\ memberGen[i] > 0 /\ memberState[j] = "admitted"
    BY DEF OwnerInv, ClaimsAreRecorded, canClaim
  <2> QED BY <2>1 DEF OwnerInv, OneAdmittedGeneration
<1> QED BY <1>1, OwnerInvariant, PTL

-----------------------------------------------------------------------------
(* Requests of the operator                                                *)

\* A request that joins `sent` has the next id and expects the generation it read.
LEMMA SendKeepsSpent ==
    ASSUME RequestsAreSpent, NEW r, r.id = NextId, r.expected = generation,
           NextId <= RequestBound, sent' = sent \cup {r}, UNCHANGED <<applied, generation>>
    PROVE  RequestsAreSpent'
<1>1. /\ IsFiniteSet(sent) /\ Cardinality(sent) \in Nat
      /\ \A q \in sent : q.id <= Cardinality(sent) /\ q.id \in Nat
  BY FS_CardinalityType DEF RequestsAreSpent
<1>2. r \notin sent
  BY <1>1 DEF NextId
<1>3. IsFiniteSet(sent') /\ Cardinality(sent') = Cardinality(sent) + 1
  BY <1>1, <1>2, FS_AddElement
<1>4. \A q, s \in sent' : q.id = s.id => q = s
  BY <1>1 DEF RequestsAreSpent, NextId
<1>5. \A q \in sent' : q.id \in 1..Cardinality(sent') /\ q.expected \in 0..generation
  BY <1>1, <1>3 DEF RequestsAreSpent, NextId
<1>6. applied[r.id] = 0
  BY <1>1, HandoverAssumption DEF RequestsAreSpent, NextId
<1>7. \A q \in sent' : applied'[q.id] <= 1
                       /\ (applied'[q.id] = 1 => generation' > q.expected)
  BY <1>6 DEF RequestsAreSpent
<1>8. \A n \in 1..RequestBound : n > Cardinality(sent') => applied'[n] = 0
  BY <1>1, <1>3 DEF RequestsAreSpent
<1> QED BY <1>1, <1>3, <1>4, <1>5, <1>7, <1>8 DEF RequestsAreSpent, NextId

\* Every step leaves an applied request spent.
LEMMA SpentStep ==
    ASSUME RequestsAreSpent, [Next]_vars
    PROVE  RequestsAreSpent'
<1>1. ASSUME UNCHANGED <<generation, sent, applied>> PROVE RequestsAreSpent'
  BY <1>1 DEF RequestsAreSpent
<1>2. CASE SendsTransition
  <2>1. PICK d, after : sent' = sent \cup
            {[id |-> NextId, kind |-> "transition", expected |-> generation,
              desired |-> d, after |-> after, members |-> {},
              cohort |-> IF enabled THEN {} ELSE {TaskOf[i] : i \in Current}]}
    BY <1>2 DEF SendsTransition
  <2> QED BY <1>2, <2>1, SendKeepsSpent DEF SendsTransition, recordVars
<1>3. CASE SendsRetirement
  <2>1. PICK dead : sent' = sent \cup
            {[id |-> NextId, kind |-> "retirement", expected |-> generation,
              desired |-> NoDeployment, after |-> AnyRequest, cohort |-> {},
              members |-> {[instance |-> i, generation |-> memberGen[i]] : i \in dead}]}
    BY <1>3 DEF SendsRetirement
  <2> DEFINE r == [id |-> NextId, kind |-> "retirement", expected |-> generation,
              desired |-> NoDeployment, after |-> AnyRequest, cohort |-> {},
              members |-> {[instance |-> i, generation |-> memberGen[i]] : i \in dead}]
  <2>2. r.id = NextId /\ r.expected = generation /\ sent' = sent \cup {r}
    BY <2>1
  <2> HIDE DEF r
  <2> QED BY <1>3, <2>2, SendKeepsSpent DEF SendsRetirement, recordVars
<1>4. ASSUME NEW req \in sent, TransitionArrives(req) PROVE RequestsAreSpent'
  <2>1. /\ generation = req.expected /\ generation' = generation + 1 /\ sent' = sent
        /\ applied' = [applied EXCEPT ![req.id] = @ + 1]
    BY <1>4 DEF TransitionArrives, transition, TransitionAccepted
  <2>2. Cardinality(sent) \in Nat /\ req.id \in 1..RequestBound
    BY FS_CardinalityType, HandoverAssumption DEF RequestsAreSpent
  <2>3. applied[req.id] = 0
    BY <2>1, <2>2 DEF RequestsAreSpent
  <2>4. \A q \in sent : q # req => q.id # req.id
    BY DEF RequestsAreSpent
  <2>5. applied' \in [1..RequestBound -> Nat] /\ applied'[req.id] = 1
    BY <2>1, <2>2, <2>3 DEF RequestsAreSpent
  <2>6. \A n \in 1..RequestBound : n # req.id => applied'[n] = applied[n]
    BY <2>1 DEF RequestsAreSpent
  <2>7. \A n \in 1..RequestBound : applied'[n] <= 1
    BY <2>5, <2>6 DEF RequestsAreSpent
  <2>8. \A n \in 1..RequestBound : n > Cardinality(sent) => applied'[n] = 0
    BY <2>2, <2>6 DEF RequestsAreSpent
  <2>9. \A q \in sent : /\ q.id \in 1..RequestBound /\ q.expected <= generation
    <3>1. \A q \in sent : q.id \in 1..RequestBound
      BY <2>2, HandoverAssumption DEF RequestsAreSpent
    <3> QED BY <3>1 DEF RequestsAreSpent
  <2>10. \A q \in sent : applied'[q.id] = 1 => generation' > q.expected
    BY <2>1, <2>9 DEF RequestsAreSpent
  <2> QED BY <2>1, <2>2, <2>5, <2>7, <2>8, <2>9, <2>10 DEF RequestsAreSpent
<1>5. ASSUME NEW req \in sent, RetirementArrives(req) PROVE RequestsAreSpent'
  BY <1>1, <1>5 DEF RetirementArrives, retire, operatorVars
<1>6. ASSUME NEW i \in Instances, Reconciles(i) PROVE RequestsAreSpent'
  <2>1. UNCHANGED <<generation, sent, applied>>
    BY <1>6 DEF Reconciles, Registers, register, Gets, Decides, Relinquishes, Acknowledges,
                acknowledge, Admits, admit, AdmitRefused, Starts, Started, MarksReady,
                markReady, MarkReadyRefused, StopReleases, operatorVars, recordVars
  <2> QED BY <1>1, <2>1
<1>7. ASSUME NEW i \in Instances, Beside(i) PROVE RequestsAreSpent'
  <2>1. UNCHANGED <<generation, sent, applied>>
    BY <1>7 DEF Beside, ReleaseErrs, ReleaseFails, acknowledge, AdmitLost, admit, ReconcileErrs,
                StartupOutdated, Watchdog, StopsController, Crashes, WorkStarts, WorkEnds,
                DrainResolves, DrainAcknowledged, DrainUnacknowledged, operatorVars, recordVars
  <2> QED BY <1>1, <2>1
<1>8. CASE UNCHANGED vars
  BY <1>1, <1>8 DEF vars
<1> QED BY <1>2, <1>3, <1>4, <1>5, <1>6, <1>7, <1>8 DEF Next, Operates

\* A transition is applied at most once, however late, often and out of order
\* it is delivered (the generation compared in transition()).
THEOREM TransitionAppliedOnceHolds == Spec => []TransitionAppliedOnce
<1>1. Init => RequestsAreSpent
  BY FS_EmptySet, HandoverAssumption DEF Init, OwnershipInit, RequestsAreSpent
<1>2. RequestsAreSpent => TransitionAppliedOnce
  BY DEF RequestsAreSpent, TransitionAppliedOnce
<1> QED BY <1>1, <1>2, SpentStep, PTL DEF Spec
=============================================================================
