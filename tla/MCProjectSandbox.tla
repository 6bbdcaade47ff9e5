-------------------------- MODULE MCProjectSandbox --------------------------
(***************************************************************************)
(* Instances of ProjectSandbox for TLC.                                    *)
(***************************************************************************)
EXTENDS ProjectSandbox, TLC

CONSTANTS a, prefixed

\* The ids are "a" and "project-a": the second loses its prefix when it is
\* read back from Redis.
PlainIds == [p \in Projects |-> p]
PrefixedIds == [p \in Projects |-> a]

Symmetry == Permutations(Sandboxes) \cup Permutations(Callers)
=============================================================================
