--------------------------- MODULE OwnershipStore ---------------------------
(***************************************************************************)
(* The durable record of background ownership                              *)
(* (src/runs/background-ownership.ts): which deployment should do the      *)
(* background work, in which generation, and how far each enrolled process *)
(* has got with taking it up or letting it go.  Every operation is one     *)
(* atomic update of the record; an operation whose guard does not hold     *)
(* throws BackgroundOwnershipConflict and changes nothing.                 *)
(***************************************************************************)
EXTENDS Integers

CONSTANTS
    Instances,      \* processes; a restarted process is another instance
    DeploymentOf,   \* the deployment revision each process runs
    TaskOf,         \* the infrastructure task each process runs in
    NoDeployment    \* desiredDeploymentId = null

VARIABLES
    enabled,        \* the protocol was bootstrapped
    generation,
    desired,        \* desiredDeploymentId
    lastRequestId,
    enrolled,       \* the processes in `members`
    memberGen, memberState, retired, ready      \* fields of a member

recordVars == <<enabled, generation, desired, lastRequestId>>
memberVars == <<enrolled, memberGen, memberState, retired, ready>>

Deployments == {DeploymentOf[i] : i \in Instances}

OwnershipInit ==
    /\ enabled = FALSE
    /\ generation = 0
    /\ desired = NoDeployment
    /\ lastRequestId = 0
    /\ enrolled = {}
    /\ memberGen = [i \in Instances |-> 0]
    /\ memberState = [i \in Instances |-> "drained"]
    /\ retired = [i \in Instances |-> FALSE]
    /\ ready = [i \in Instances |-> FALSE]

\* Members that were not retired.
Current == {i \in enrolled : ~retired[i]}

-----------------------------------------------------------------------------
(* Operations of a process                                                 *)

\* A process of a retired task cannot enrol; enrolling twice changes nothing.
Registrable(i) ==
    /\ ~ \E j \in enrolled : retired[j] /\ TaskOf[j] = TaskOf[i]
    /\ i \in enrolled => ~retired[i]

register(i) ==
    /\ Registrable(i)
    /\ enrolled' = enrolled \cup {i}
    /\ memberGen' = [memberGen EXCEPT ![i] = IF i \in enrolled THEN @ ELSE generation]
    /\ UNCHANGED <<recordVars, memberState, retired, ready>>

\* Broken variant: members of earlier generations are not waited for.
AdmissibleAtOnce(i, expected, legacy) ==
    /\ generation = expected
    /\ i \in Current
    /\ IF enabled THEN desired = DeploymentOf[i] ELSE legacy

Admissible(i, expected, legacy) ==
    /\ generation = expected
    /\ i \in Current
    /\ IF enabled
       THEN /\ desired = DeploymentOf[i]
            /\ \A j \in enrolled : memberState[j] = "admitted" => memberGen[j] = generation
       ELSE legacy

admit(i, expected, legacy) ==
    /\ Admissible(i, expected, legacy)
    /\ memberGen' = [memberGen EXCEPT ![i] = generation]
    /\ memberState' = [memberState EXCEPT ![i] = "admitted"]
    /\ ready' = [ready EXCEPT ![i] = FALSE]
    /\ UNCHANGED <<recordVars, enrolled, retired>>

MayBeReady(i, gen) ==
    /\ generation = gen
    /\ i \in Current
    /\ memberGen[i] = gen
    /\ memberState[i] = "admitted"
    /\ enabled => desired = DeploymentOf[i]

markReady(i, gen) ==
    /\ MayBeReady(i, gen)
    /\ ready' = [ready EXCEPT ![i] = TRUE]
    /\ UNCHANGED <<recordVars, enrolled, memberGen, memberState, retired>>

Acknowledgeable(i, gen, next) ==
    /\ i \in Current
    /\ memberGen[i] = gen
    /\ next = "drained" => memberState[i] \in {"relinquished", "drained"}

\* A repeated or outdated acknowledgment changes nothing.
acknowledge(i, gen, next) ==
    /\ Acknowledgeable(i, gen, next)
    /\ IF memberState[i] \in {"drained", next}
       THEN UNCHANGED <<memberState, ready>>
       ELSE /\ memberState' = [memberState EXCEPT ![i] = next]
            /\ ready' = [ready EXCEPT ![i] = FALSE]
    /\ UNCHANGED <<recordVars, enrolled, memberGen, retired>>

-----------------------------------------------------------------------------
(* Operations of the operator.  A request is a record [id, kind, expected, *)
(* desired, cohort, after, members] that may be delivered late and twice.  *)
(* A request with the id of the last one is its replay: it is answered     *)
(* with the record as it is.                                               *)

AnyRequest == -1    \* expectedLastRequestId is not given

\* Bootstrap names the tasks of exactly the enrolled processes; a later
\* transition names none.
CohortMatches(req) ==
    IF enabled THEN req.cohort = {}
    ELSE req.cohort # {} /\ req.cohort = {TaskOf[i] : i \in Current}

\* Broken variant: only a request from the future is refused, and a repeated one is
\* not recognised.
TransitionAcceptedLate(req) ==
    /\ generation >= req.expected
    /\ req.after \in {AnyRequest, lastRequestId}
    /\ CohortMatches(req)
    /\ req.desired # NoDeployment => \E i \in Current : DeploymentOf[i] = req.desired

TransitionAccepted(req) ==
    /\ lastRequestId # req.id
    /\ generation = req.expected
    /\ req.after \in {AnyRequest, lastRequestId}
    /\ CohortMatches(req)
    /\ req.desired # NoDeployment => \E i \in Current : DeploymentOf[i] = req.desired

transition(req) ==
    /\ TransitionAccepted(req)
    /\ enabled' = TRUE
    /\ generation' = generation + 1
    /\ desired' = req.desired
    /\ lastRequestId' = req.id
    /\ UNCHANGED memberVars

\* The evidence names members with the generation they were last admitted in.
RetirementAccepted(req) ==
    /\ lastRequestId # req.id
    /\ generation = req.expected
    /\ req.members # {}
    /\ \A m \in req.members : m.instance \in enrolled /\ memberGen[m.instance] = m.generation

Proven(req) == {m.instance : m \in req.members}

retire(req) ==
    /\ RetirementAccepted(req)
    /\ memberState' = [i \in Instances |-> IF i \in Proven(req) THEN "drained" ELSE memberState[i]]
    /\ retired' = [i \in Instances |-> retired[i] \/ i \in Proven(req)]
    /\ ready' = [i \in Instances |-> ready[i] /\ i \notin Proven(req)]
    /\ lastRequestId' = req.id
    /\ UNCHANGED <<enabled, generation, desired, enrolled, memberGen>>

=============================================================================
