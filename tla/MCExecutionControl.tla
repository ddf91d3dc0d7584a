---- MODULE MCExecutionControl ----
(* A small instance of ExecutionControl for TLC.                           *)
EXTENDS ExecutionControl, TLC

Symmetric == Permutations(Callers) \cup Permutations(RequestIds)
====
