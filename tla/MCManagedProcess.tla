-------------------------- MODULE MCManagedProcess --------------------------
(* ManagedProcess instantiated for TLC: a binary, a container, two processes. *)
EXTENDS ManagedProcess

CONSTANTS b1, d1, p1, p2

=============================================================================
