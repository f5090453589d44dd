------------------------------ MODULE RunStore ------------------------------
(***************************************************************************)
(* The durable table of runs (src/runs/postgres-run-store.ts, and its      *)
(* in-process twin src/runs/memory-run-store.ts): one row per submitted    *)
(* turn, claimed under a lease, heartbeaten, and settled once.             *)
(*                                                                         *)
(* A variable is a column (or a few that change together), a function of   *)
(* the run.  Each operation is one SQL statement of the store, hence one   *)
(* atomic step; what a caller does between two statements is RunQueue's    *)
(* business.  Time is abstracted to what the statements compare with it:   *)
(* `lapsed` says that lease_expires_at is in the past, `cooling` that      *)
(* retry_after is in the future.                                           *)
(***************************************************************************)
EXTENDS Naturals

CONSTANTS
    Runs,           \* identities of runs (a random UUID each)
    Sessions,       \* conversations; runs of one session are serialised
    Keys,           \* idempotency keys of submissions
    SessionOf,      \* the session each run is submitted to
    KeyOf,          \* the idempotency key each run is submitted with
    MaxAttempts,    \* max_attempts: errors a run may spend before it parks
    MaxClaims       \* maxClaims: claims after which a reaped run parks

ASSUME StoreAssumption ==
    /\ SessionOf \in [Runs -> Sessions]
    /\ KeyOf \in [Runs -> Keys]
    /\ MaxAttempts \in Nat \ {0}
    /\ MaxClaims \in Nat \ {0}

VARIABLES
    status,     \* pending, running, done, failed; absent or withdrawn: no row
    seq,        \* position in the insertion order
    nextSeq,    \* the next value of seq
    keyed,      \* the row still carries its idempotency key
    noted,      \* turn_user_seq is set
    text,       \* the version of the text to run
    runLease,   \* lease_token and whether lease_expires_at has passed
    minted,     \* how many lease tokens the row was ever given
    attempts,   \* claims so far
    errors,     \* error_attempts
    cooling,    \* retry_after is in the future
    outcome     \* the result, and the lease token it was written under

intake == <<seq, nextSeq, keyed, noted, text>>
leasing == <<runLease, minted>>
budget == <<attempts, errors, cooling>>
storeVars == <<status, seq, nextSeq, keyed, noted, text, runLease, minted,
               attempts, errors, cooling, outcome>>

-----------------------------------------------------------------------------
(* Lease tokens are random UUIDs; here the n-th token minted for a row is  *)
(* n, so that a token is fresh for its row, and 0 is SQL's NULL.           *)

NoToken == 0

Statuses == {"absent", "pending", "running", "done", "failed", "withdrawn"}

Results == {"none", "answer", "busy", "error"}

Leased(t) == [token |-> t, lapsed |-> FALSE]

NoResult == [result |-> "none", by |-> NoToken]

isTerminal(r) == status[r] \in {"done", "failed"}

InFlight(r) == status[r] \in {"pending", "running"}

Siblings(r) == {q \in Runs \ {r} : SessionOf[q] = SessionOf[r]}

\* lease_token = $t AND status = 'running': the guard of heartbeat,
\* releaseLease and retire.
HoldsLease(r, t) == status[r] = "running" /\ runLease[r].token = t

StoreInit ==
    /\ status = [r \in Runs |-> "absent"]
    /\ seq = [r \in Runs |-> 0]
    /\ nextSeq = 1
    /\ keyed = [r \in Runs |-> FALSE]
    /\ noted = [r \in Runs |-> FALSE]
    /\ text = [r \in Runs |-> 0]
    /\ runLease = [r \in Runs |-> Leased(NoToken)]
    /\ minted = [r \in Runs |-> 0]
    /\ attempts = [r \in Runs |-> 0]
    /\ errors = [r \in Runs |-> 0]
    /\ cooling = [r \in Runs |-> FALSE]
    /\ outcome = [r \in Runs |-> NoResult]

-----------------------------------------------------------------------------
(* Submission                                                              *)

\* A row that still carries the key of r (the unique index on
\* idempotency_key).
KeyTaken(r) ==
    \E q \in Runs : /\ status[q] \notin {"absent", "withdrawn"}
                    /\ keyed[q]
                    /\ KeyOf[q] = KeyOf[r]

\* INSERT ... ON CONFLICT (idempotency_key) DO NOTHING: on a conflict the
\* caller is answered with the existing row and the table does not change.
enqueue(r) ==
    /\ status[r] = "absent"
    /\ ~KeyTaken(r)
    /\ status' = [status EXCEPT ![r] = "pending"]
    /\ seq' = [seq EXCEPT ![r] = nextSeq]
    /\ nextSeq' = nextSeq + 1
    /\ keyed' = [keyed EXCEPT ![r] = TRUE]
    /\ UNCHANGED <<noted, text, leasing, budget, outcome>>

\* Broken variant: an edit is accepted after a first claim.
UnstartedIgnoringClaims(r) == status[r] = "pending" /\ ~noted[r]

\* A queued run that no worker ever took.
Unstarted(r) == status[r] = "pending" /\ attempts[r] = 0 /\ ~noted[r]

\* The text is replaced only if it is still the text the editor saw.
editPendingText(r, expected) ==
    /\ Unstarted(r)
    /\ text[r] = expected
    /\ text' = [text EXCEPT ![r] = @ + 1]
    /\ UNCHANGED <<status, seq, nextSeq, keyed, noted, leasing, budget, outcome>>

withdraw(r, unstartedOnly) ==
    /\ status[r] = "pending"
    /\ unstartedOnly => Unstarted(r)
    /\ status' = [status EXCEPT ![r] = "withdrawn"]
    /\ UNCHANGED <<intake, leasing, budget, outcome>>

\* The queued run q is deleted and its text becomes a signal to the run t,
\* in one statement that first finds t in flight.
steerQueued(q, t) ==
    /\ q # t
    /\ InFlight(t)
    /\ withdraw(q, FALSE)

-----------------------------------------------------------------------------
(* Leases                                                                  *)

\* Broken variant: only older pending siblings hold a run back.
ClaimableBesideRunning(r) ==
    /\ status[r] = "pending"
    /\ ~cooling[r]
    /\ \A q \in Siblings(r) :
          status[q] = "pending" => ~cooling[q] /\ seq[q] > seq[r]

\* Broken variant: a young run may overtake an older one of its conversation.
ClaimableOutOfOrder(r) ==
    /\ status[r] = "pending"
    /\ ~cooling[r]
    /\ \A q \in Siblings(r) : status[q] # "running"

\* The candidate of claim's sub-select: pending, its back-off over, no
\* sibling running, and every pending sibling younger and not backing off.
\* The code orders by created_at and then by seq, and created_at is read off
\* each process' own clock before the INSERT: that those clocks agree with the
\* order of the INSERTs is assumed here, where younger is inserted later.
Claimable(r) ==
    /\ status[r] = "pending"
    /\ ~cooling[r]
    /\ \A q \in Siblings(r) :
          /\ status[q] # "running"
          /\ status[q] = "pending" => ~cooling[q] /\ seq[q] > seq[r]

\* A fresh token for the row of r.
Mints(r) ==
    /\ minted' = [minted EXCEPT ![r] = @ + 1]
    /\ runLease' = [runLease EXCEPT ![r] = Leased(minted[r] + 1)]

\* The unique index on running runs of a session makes two concurrent
\* claims of one session a unique violation, which claim answers with null:
\* the statement is atomic.
claim(r) ==
    /\ Claimable(r)
    /\ status' = [status EXCEPT ![r] = "running"]
    /\ Mints(r)
    /\ attempts' = [attempts EXCEPT ![r] = @ + 1]
    /\ UNCHANGED <<intake, errors, cooling, outcome>>

\* heartbeat and releaseLease answer false, and change nothing, when the
\* guard does not match; the callers handle that case.
heartbeat(r, t) ==
    /\ HoldsLease(r, t)
    /\ runLease' = [runLease EXCEPT ![r] = Leased(t)]
    /\ UNCHANGED <<status, intake, minted, budget, outcome>>

\* Broken variant: the token survives the handback.
releaseLeaseKeepingToken(r, t) ==
    /\ HoldsLease(r, t)
    /\ status' = [status EXCEPT ![r] = "pending"]
    /\ UNCHANGED <<intake, leasing, budget, outcome>>

releaseLease(r, t) ==
    /\ HoldsLease(r, t)
    /\ status' = [status EXCEPT ![r] = "pending"]
    /\ runLease' = [runLease EXCEPT ![r] = Leased(NoToken)]
    /\ UNCHANGED <<intake, minted, budget, outcome>>

\* Broken variant: any running row accepts a result.
CompletionAcceptedWhileRunning(r, t) == status[r] = "running" /\ t # NoToken

\* complete compares the lease token only, not the status.
CompletionAccepted(r, t) == t # NoToken /\ runLease[r].token = t

\* Broken variant: every settled run gives its key up.
completeFreeingKey(r, t, result) ==
    /\ CompletionAccepted(r, t)
    /\ status' = [status EXCEPT ![r] = "done"]
    /\ outcome' = [outcome EXCEPT ![r] = [result |-> result, by |-> t]]
    /\ runLease' = [runLease EXCEPT ![r] = Leased(NoToken)]
    /\ keyed' = [keyed EXCEPT ![r] = FALSE]
    /\ UNCHANGED <<seq, nextSeq, noted, text, minted, budget>>

\* A result refused because the session was busy frees the key
\* (releasesDedupKey).
complete(r, t, result) ==
    /\ CompletionAccepted(r, t)
    /\ status' = [status EXCEPT ![r] = "done"]
    /\ outcome' = [outcome EXCEPT ![r] = [result |-> result, by |-> t]]
    /\ runLease' = [runLease EXCEPT ![r] = Leased(NoToken)]
    /\ keyed' = [keyed EXCEPT ![r] = @ /\ result # "busy"]
    /\ UNCHANGED <<seq, nextSeq, noted, text, minted, budget>>

\* noteTurnUserSeq: set once, with no regard for the lease; a withdrawn row
\* is gone from the table.
noteTurnUserSeq(r) ==
    /\ noted' = [noted EXCEPT ![r] = @ \/ status[r] # "withdrawn"]
    /\ UNCHANGED <<status, seq, nextSeq, keyed, text, leasing, budget, outcome>>

-----------------------------------------------------------------------------
(* Retiring a lease: fail and reapExpired decide on a row they read before *)
(* (`seen`), and write under the guard that its lease is still the same.   *)

\* Broken variant: a reap refunds an error.
ChargeRefunding(countsAsError) == IF countsAsError THEN 1 ELSE 0 - 1

Charge(countsAsError) == IF countsAsError THEN 1 ELSE 0

\* Will retire put the run back in the queue?
Requeues(seen, retry, countsAsError) ==
    /\ retry
    /\ seen.errors + Charge(countsAsError) < MaxAttempts
    /\ seen.attempts < MaxClaims

\* Broken variant: the claim cap is forgotten.
errorParksOnErrorsOnly(seen) == seen.errors + 1 >= MaxAttempts

\* errorParks, the same decision foretold when the run is claimed.
errorParks(seen) ==
    seen.errors + 1 >= MaxAttempts \/ seen.attempts >= MaxClaims

\* Broken variant: the update is not guarded by the lease.
retireUnguarded(r, t, seen, retry, countsAsError, backoff) ==
    /\ runLease' = [runLease EXCEPT ![r] = Leased(NoToken)]
    /\ errors' = [errors EXCEPT ![r] = @ + Charge(countsAsError)]
    /\ status' = [status EXCEPT ![r] =
            IF Requeues(seen, retry, countsAsError) THEN "pending" ELSE "failed"]
    /\ UNCHANGED <<intake, minted, attempts, cooling, outcome>>

\* `backoff`: a retry delay is asked for (fail does, the reaper does not).
retire(r, t, seen, retry, countsAsError, backoff) ==
    /\ HoldsLease(r, t)
    /\ runLease' = [runLease EXCEPT ![r] = Leased(NoToken)]
    /\ errors' = [errors EXCEPT ![r] = @ + Charge(countsAsError)]
    /\ \/ /\ Requeues(seen, retry, countsAsError)
          /\ status' = [status EXCEPT ![r] = "pending"]
          /\ cooling' = [cooling EXCEPT ![r] = backoff]
          /\ UNCHANGED outcome
       \/ /\ ~Requeues(seen, retry, countsAsError)
          /\ status' = [status EXCEPT ![r] = "failed"]
          /\ outcome' = [outcome EXCEPT ![r] = [result |-> "error", by |-> t]]
          /\ UNCHANGED cooling
    /\ UNCHANGED <<intake, minted, attempts>>

\* reapExpired's first statement on a run: swap in a fence token, unless the
\* lease was renewed, retired or settled since the sweep's SELECT.
fence(r, t) ==
    /\ HoldsLease(r, t)
    /\ runLease[r].lapsed
    /\ Mints(r)
    /\ UNCHANGED <<status, intake, budget, outcome>>

-----------------------------------------------------------------------------
(* The passage of time                                                     *)

\* lease_expires_at passes: nobody renewed the lease (or fence) in time.
LeaseLapses(r) ==
    /\ status[r] = "running"
    /\ ~runLease[r].lapsed
    /\ runLease' = [runLease EXCEPT ![r] =
                        [token |-> runLease[r].token, lapsed |-> TRUE]]
    /\ UNCHANGED <<status, intake, minted, budget, outcome>>

\* retry_after passes.
BackoffElapses(r) ==
    /\ cooling[r]
    /\ cooling' = [cooling EXCEPT ![r] = FALSE]
    /\ UNCHANGED <<status, intake, leasing, attempts, errors, outcome>>

StoreTypeOK ==
    /\ status \in [Runs -> Statuses]
    /\ seq \in [Runs -> Nat] /\ nextSeq \in Nat
    /\ keyed \in [Runs -> BOOLEAN] /\ noted \in [Runs -> BOOLEAN]
    /\ text \in [Runs -> Nat]
    /\ runLease \in [Runs -> [token : Nat, lapsed : BOOLEAN]]
    /\ minted \in [Runs -> Nat]
    /\ attempts \in [Runs -> Nat] /\ errors \in [Runs -> Nat]
    /\ cooling \in [Runs -> BOOLEAN]
    /\ outcome \in [Runs -> [result : Results, by : Nat]]
=============================================================================
