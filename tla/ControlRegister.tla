---- MODULE ControlRegister ----
(***************************************************************************)
(* What execution control promises its callers: one register holding the   *)
(* pause flag and its revision, and a table of the requests applied to it. *)
(* A request id is applied at most once, each application advances the     *)
(* revision by one, and one that names an expected revision is applied     *)
(* only to that revision.                                                  *)
(***************************************************************************)
EXTENDS Naturals

CONSTANTS RequestIds,  \* ids callers choose
          Expected,    \* values of expected_revision, None included
          None

VARIABLES paused, revision, applied

registerVars == <<paused, revision, applied>>

Init ==
    /\ paused = TRUE
    /\ revision = 0
    /\ applied = [r \in RequestIds |-> None]

Apply(r, target, expected) ==
    /\ applied[r] = None
    /\ expected \in {None, revision}
    /\ paused' = target
    /\ revision' = revision + 1
    /\ applied' = [applied EXCEPT ![r] =
           [target |-> target, expected |-> expected, revision |-> revision + 1]]

Next == \E r \in RequestIds, target \in BOOLEAN, e \in Expected : Apply(r, target, e)

Spec == Init /\ [][Next]_registerVars
====
