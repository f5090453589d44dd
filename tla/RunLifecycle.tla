---------------------------- MODULE RunLifecycle ----------------------------
(***************************************************************************)
(* What the run queue promises its users: a submitted run is executed in   *)
(* its conversation's turn, one at a time and first come first served,     *)
(* possibly in several goes, and settles once; or it is withdrawn before   *)
(* it is executing.  How leases, workers and reapers bring this about is   *)
(* RunQueue.                                                               *)
(***************************************************************************)
EXTENDS Naturals

CONSTANTS Runs, SessionOf

VARIABLES phase, position, next

lifecycleVars == <<phase, position, next>>

Init ==
    /\ phase = [r \in Runs |-> "absent"]
    /\ position = [r \in Runs |-> 0]
    /\ next = 1

Submit(r) ==
    /\ phase[r] = "absent"
    /\ phase' = [phase EXCEPT ![r] = "queued"]
    /\ position' = [position EXCEPT ![r] = next]
    /\ next' = next + 1

Withdraw(r) ==
    /\ phase[r] = "queued"
    /\ phase' = [phase EXCEPT ![r] = "withdrawn"]
    /\ UNCHANGED <<position, next>>

\* No other run of the conversation executes or waits before this one.
Turn(r) ==
    \A q \in Runs : (q # r /\ SessionOf[q] = SessionOf[r]) =>
        /\ phase[q] # "running"
        /\ phase[q] = "queued" => position[q] > position[r]

Start(r) ==
    /\ phase[r] = "queued"
    /\ Turn(r)
    /\ phase' = [phase EXCEPT ![r] = "running"]
    /\ UNCHANGED <<position, next>>

Yield(r) ==
    /\ phase[r] = "running"
    /\ phase' = [phase EXCEPT ![r] = "queued"]
    /\ UNCHANGED <<position, next>>

Settle(r) ==
    /\ phase[r] = "running"
    /\ phase' = [phase EXCEPT ![r] = "settled"]
    /\ UNCHANGED <<position, next>>

Next == \E r \in Runs : \/ Submit(r) \/ Withdraw(r) \/ Start(r)
                        \/ Yield(r) \/ Settle(r)

Spec == Init /\ [][Next]_lifecycleVars
=============================================================================
