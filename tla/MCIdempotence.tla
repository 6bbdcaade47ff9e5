--------------------------- MODULE MCIdempotence ---------------------------
(***************************************************************************)
(* Instances of Idempotence for TLC.  Callers are model values: in         *)
(* OneProcess all run in one scheduler, in TwoProcesses c1 runs in the old *)
(* replica and the others in the new one.                                  *)
(***************************************************************************)
EXTENDS Idempotence, TLC

CONSTANTS c1, p1, p2

OneProcess == [c \in Callers |-> p1]
TwoProcesses == [c \in Callers |-> IF c = c1 THEN p1 ELSE p2]

KeySymmetry == Permutations(Keys) \cup Permutations(Sandboxes)
CallerSymmetry == Permutations(Callers \ {c1}) \cup KeySymmetry
=============================================================================
