--------------------------- MODULE MCKeyRotation ---------------------------
(* KeyRotation on a small instance. *)
EXTENDS KeyRotation, TLC

\* Keys are interchangeable: nothing but equality is asked of them.
KeySymmetry == Permutations(Keys) \cup Permutations(Procs)

\* Every property is about executions in which no two processes were in the
\* directory at once: nothing is left to check behind an overlap.
NoOverlapYet == "overlap" \notin mishaps
=============================================================================
