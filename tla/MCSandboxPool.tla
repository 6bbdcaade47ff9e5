--------------------------- MODULE MCSandboxPool ---------------------------
(***************************************************************************)
(* Instances of SandboxPool for TLC: all goroutines in one process.        *)
(***************************************************************************)
EXTENDS SandboxPool, TLC

CONSTANT p1

OneProcess == [w \in Workers |-> p1]

SandboxSymmetry == Permutations(Sandboxes)
=============================================================================
