---------------------------- MODULE SessionLease ----------------------------
(***************************************************************************)
(* The write lease of a session and the session's append-only log          *)
(* (src/sessions/postgres-session-store.ts, memory-session-store.ts).      *)
(* Every statement runs under the session's advisory transaction lock, so  *)
(* each operation is one atomic step.  Whoever holds a valid lease, a turn *)
(* or a background compaction, may append; nobody else may.                *)
(***************************************************************************)
EXTENDS Naturals, Sequences

CONSTANTS Sessions, Writers     \* a Writer labels the entries it appends

VARIABLES
    sessionLease,   \* the row of session_leases, per session
    leaseMint,      \* how many lease tokens the session has given out
    tape            \* the entries of the session, oldest first

NoLease == [token |-> 0, holder |-> "none", lapsed |-> FALSE]

Holders == {"none", "turn", "compaction"}

SessionLeaseRow == [token : Nat, holder : Holders, lapsed : BOOLEAN]

Entry == [lease : Nat, writer : Writers]

SessionInit ==
    /\ sessionLease = [s \in Sessions |-> NoLease]
    /\ leaseMint = [s \in Sessions |-> 0]
    /\ tape = [s \in Sessions |-> <<>>]

\* INSERT ... ON CONFLICT DO UPDATE ... WHERE expires_at <= now.
Grantable(s) == sessionLease[s].holder = "none" \/ sessionLease[s].lapsed

acquireLease(s, holder) ==
    /\ Grantable(s)
    /\ sessionLease' = [sessionLease EXCEPT ![s] =
            [token |-> leaseMint[s] + 1, holder |-> holder, lapsed |-> FALSE]]
    /\ leaseMint' = [leaseMint EXCEPT ![s] = @ + 1]
    /\ UNCHANGED tape

\* Broken variant: any unexpired lease of the session lets the caller write.
LeaseValidForAnyone(s, t) == sessionLease[s].token # 0 /\ ~sessionLease[s].lapsed

\* withLease: the caller's token is the row's and has not expired.
LeaseValid(s, t) == t # 0 /\ sessionLease[s].token = t /\ ~sessionLease[s].lapsed

append(s, t, writer) ==
    /\ LeaseValid(s, t)
    /\ tape' = [tape EXCEPT ![s] = Append(@, [lease |-> t, writer |-> writer])]
    /\ UNCHANGED <<sessionLease, leaseMint>>

\* DELETE ... WHERE token = $t, and without that condition.
releaseSession(s, t) ==
    /\ sessionLease' =
         [sessionLease EXCEPT ![s] = IF t # 0 /\ @.token = t THEN NoLease ELSE @]
    /\ UNCHANGED <<leaseMint, tape>>

forceReleaseLease(s) ==
    /\ sessionLease' = [sessionLease EXCEPT ![s] = NoLease]
    /\ UNCHANGED <<leaseMint, tape>>

\* expires_at passes.  renewLease extends a lease that has not lapsed and
\* refuses one that has, so it is a stutter of this model; an append renews
\* the lease in the same way.
SessionLeaseLapses(s) ==
    /\ sessionLease[s].holder # "none"
    /\ ~sessionLease[s].lapsed
    /\ sessionLease' = [sessionLease EXCEPT ![s].lapsed = TRUE]
    /\ UNCHANGED <<leaseMint, tape>>

SessionTypeOK ==
    /\ sessionLease \in [Sessions -> SessionLeaseRow]
    /\ leaseMint \in [Sessions -> Nat]
    /\ tape \in [Sessions -> Seq(Entry)]

\* The entries written under one lease are contiguous: once another lease
\* has written to the session, an earlier holder (a turn whose lease was
\* force-released by the reaper or had expired) never writes again.
TapeUnmixed ==
    \A s \in Sessions : \A i, j \in 1..Len(tape[s]) :
        i < j => tape[s][i].lease <= tape[s][j].lease
=============================================================================
