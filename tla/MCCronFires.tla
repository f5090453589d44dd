----------------------------- MODULE MCCronFires -----------------------------
(***************************************************************************)
(* CronFires for TLC: the processes are interchangeable.                   *)
(***************************************************************************)
EXTENDS CronFires, TLC

Symmetry == Permutations(Procs)
=============================================================================
