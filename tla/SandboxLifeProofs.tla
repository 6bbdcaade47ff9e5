------------------------- MODULE SandboxLifeProofs -------------------------
(***************************************************************************)
(* What every implementation of SandboxLife inherits.  The pool and the    *)
(* project service are shown to be such implementations in                 *)
(* SandboxPoolProofs and ProjectSandboxProofs.                             *)
(***************************************************************************)
EXTENDS SandboxLife, TLAPS

\* The sandboxes and holders there are.
LifeTypeOK ==
    /\ unused \subseteq Sandboxes /\ pooled \subseteq Sandboxes
    /\ held \subseteq Holders \X Sandboxes

\* A step keeps the holders apart.
LEMMA LifeStep ==
    ASSUME LifeTypeOK, OneHolder, [Next]_vars
    PROVE  LifeTypeOK' /\ OneHolder'
<1>1. CASE Retire
  BY <1>1 DEF Retire, LifeTypeOK, OneHolder
<1>2. ASSUME NEW s \in Sandboxes, Provision(s) PROVE LifeTypeOK' /\ OneHolder'
  BY <1>2 DEF Provision, LifeTypeOK, OneHolder
<1>3. ASSUME NEW s \in Sandboxes, NEW h \in Holders, Assign(s, h)
      PROVE  LifeTypeOK' /\ OneHolder'
  <2>1. /\ s \in unused \cup pooled /\ unused' = unused \ {s} /\ pooled' = pooled \ {s}
        /\ held' = held \cup {<<h, s>>}
    BY <1>3 DEF Assign
  <2>2. LifeTypeOK'
    BY <2>1 DEF LifeTypeOK
  <2>3. \A g \in Holders : <<g, s>> \notin held
    BY <2>1 DEF OneHolder
  <2>4. \A g \in Holders, t \in Sandboxes :
            <<g, t>> \in held' <=> <<g, t>> \in held \/ (g = h /\ t = s)
    BY <2>1
  <2>5. OneHolder'
    BY <2>1, <2>3, <2>4 DEF OneHolder
  <2> QED
    BY <2>2, <2>5
<1>4. CASE UNCHANGED vars
  BY <1>4 DEF vars, LifeTypeOK, OneHolder
<1> QED
  BY <1>1, <1>2, <1>3, <1>4 DEF Next

\* A sandbox has at most one holder, and none while it waits in the pool.
THEOREM OneHolderAlways == Spec => []OneHolder
<1>1. Init => LifeTypeOK /\ OneHolder
  BY DEF Init, LifeTypeOK, OneHolder
<1>2. LifeTypeOK /\ OneHolder /\ [Next]_vars => LifeTypeOK' /\ OneHolder'
  BY LifeStep
<1> QED
  BY <1>1, <1>2, PTL DEF Spec

\* No sandbox is assigned a second time or put back into the pool.
THEOREM NoReuse == Spec => NeverReused
<1> DEFINE Same == \A s \in Sandboxes \ (unused \cup pooled) :
                      /\ s \notin unused' \cup pooled'
                      /\ \A h \in Holders : <<h, s>> \in held' => <<h, s>> \in held
<1>1. [Next]_vars => [Same]_vars
  <2> SUFFICES ASSUME Next PROVE Same
    OBVIOUS
  <2>1. CASE Retire
    BY <2>1 DEF Retire
  <2>2. CASE \E s \in Sandboxes : Provision(s)
    BY <2>2 DEF Provision
  <2>3. ASSUME NEW s \in Sandboxes, NEW h \in Holders, Assign(s, h) PROVE Same
    BY <2>3 DEF Assign
  <2> QED
    BY <2>1, <2>2, <2>3 DEF Next
<1> QED
  BY <1>1, PTL DEF Spec, NeverReused
=============================================================================
