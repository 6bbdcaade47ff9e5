---------------------------- MODULE SandboxLife ----------------------------
(***************************************************************************)
(* What the scheduler promises about a sandbox, whatever it takes to keep  *)
(* it: a sandbox is created once, may wait in the pool, is assigned to at  *)
(* most one holder, and is never reused, neither for another holder nor,   *)
(* once it was lost to its own, for that one.                              *)
(***************************************************************************)
CONSTANTS Sandboxes, Holders

VARIABLES
    unused,    \* sandboxes that have not been created
    pooled,    \* sandboxes that wait for a holder
    held       \* pairs of a holder and its sandbox

vars == <<unused, pooled, held>>

Init ==
    /\ unused = Sandboxes
    /\ pooled = {}
    /\ held = {}

\* A sandbox is created for the pool.
Provision(s) ==
    /\ s \in unused
    /\ unused' = unused \ {s}
    /\ pooled' = pooled \cup {s}
    /\ UNCHANGED held

\* It is assigned, from the pool or as soon as it is created.
Assign(s, h) ==
    /\ s \in unused \cup pooled
    /\ unused' = unused \ {s}
    /\ pooled' = pooled \ {s}
    /\ held' = held \cup {<<h, s>>}

\* Sandboxes are lost, or their holders lose track of them.
Retire ==
    /\ unused' \subseteq unused
    /\ pooled' \subseteq pooled
    /\ held' \subseteq held

Next ==
    \/ Retire
    \/ \E s \in Sandboxes : Provision(s) \/ \E h \in Holders : Assign(s, h)

Spec == Init /\ [][Next]_vars

-----------------------------------------------------------------------------
\* No sandbox has two holders, and one that waits, or is yet to be created,
\* has none.
OneHolder ==
    /\ unused \cap pooled = {}
    /\ \A g, h \in Holders, s \in Sandboxes :
          <<g, s>> \in held => s \notin unused \cup pooled /\ (<<h, s>> \in held => g = h)

\* A sandbox that left the pool for a holder, or was lost, gets no holder and
\* does not come back.
NeverReused ==
    [][ \A s \in Sandboxes \ (unused \cup pooled) :
          /\ s \notin unused' \cup pooled'
          /\ \A h \in Holders : <<h, s>> \in held' => <<h, s>> \in held ]_vars
=============================================================================
