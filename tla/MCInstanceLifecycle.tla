-------------------------- MODULE MCInstanceLifecycle --------------------------
(* Small instances of InstanceLifecycle for TLC. *)
EXTENDS InstanceLifecycle, TLC

CONSTANTS c1, c2   \* two requests in flight

ClientSymmetry == Permutations(Clients)
================================================================================
