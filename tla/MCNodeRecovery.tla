---------------------------- MODULE MCNodeRecovery ----------------------------
(* One pod, whose task names alone can collide, and concurrent requests. *)
EXTENDS NodeRecovery, TLC

Symmetric == Permutations(Admin)
===============================================================================
