---- MODULE MCPaperLifecycle ----
(* Small instances of PaperLifecycle for TLC.                              *)
EXTENDS PaperLifecycle, TLC

CONSTANTS s1, s2

(* Two signals that cost 2 a share; a share pays One = 4.                  *)
MCTerms ==
    [s \in Signals |->
        [fill |-> 1, fee |-> 1, minimum |-> 1, from |-> 0, until |-> 1,
         expiry |-> IF s = s1 THEN 1 ELSE 2]]

(* As above, but the second market refuses orders below two shares.        *)
MCMinimumTerms == [MCTerms EXCEPT ![s2].minimum = 2]

MCSizes == {2}
MCTwoSizes == {1, 2}
MCMarks == {0}

Symmetric == Permutations(Procs) \cup Permutations(Requests)
====
