----------------------- MODULE ProjectSandboxProofs -----------------------
(***************************************************************************)
(* What ProjectSandbox promises for any number of calls, releases,         *)
(* projects and sandboxes, however project ids are read back, and for      *)
(* every set of faults.                                                    *)
(***************************************************************************)
EXTENDS ProjectSandbox, TLAPS

\* The stored mappings, the calls and the releases keep their types; a call
\* or a release that acts on a sandbox knows which one.
THEOREM TypeCorrect == Spec => []TypeOK
<1>1. Init => TypeOK
  BY ProjectsAssumption, SandboxAssumption DEF Init, TypeOK, Phases, Assigning
<1>2. TypeOK /\ [Next]_vars => TypeOK'
  <2> SUFFICES ASSUME TypeOK, [Next]_vars PROVE TypeOK'
    OBVIOUS
  <2> USE ProjectsAssumption, CleanAssumption, SandboxAssumption
          DEF TypeOK, Phases, Assigning, storeVars, clusterVars, callVars, releaseVars
  <2>a. ASSUME NEW c \in Callers, Return(c), ready' \subseteq Sandboxes,
               pod' \in [Sandboxes -> Phases],
               UNCHANGED <<storeVars, doubled, service, releaseVars, troubled>>
        PROVE  TypeOK'
    BY <2>a DEF Return
  <2>b. ASSUME NEW c \in Callers, pc[c] \in InService, AfterService(c),
               service' \in [Projects -> Sandboxes \cup {NoSandbox}],
               stale' \in [Callers -> BOOLEAN],
               troubled' \subseteq Projects,
               UNCHANGED <<storeVars, ready, doubled, pod, releaseVars>>
        PROVE  TypeOK'
    BY <2>b DEF AfterService, InService
  <2>c. ASSUME NEW c \in Callers, pc[c] \in InService, WriteService(c)
        PROVE  /\ service' \in [Projects -> Sandboxes \cup {NoSandbox}]
               /\ stale' \in [Callers -> BOOLEAN]
    BY <2>c DEF WriteService, InService
  <2>1. ASSUME NEW c \in Callers, NEW p \in Projects, Request(c, p) PROVE TypeOK'
    BY <2>1 DEF Request
  <2>2. ASSUME NEW c \in Callers, GetMapping(c) PROVE TypeOK'
    BY <2>2 DEF GetMapping, Goto, Step
  <2>3. ASSUME NEW c \in Callers, CheckReleased(c) PROVE TypeOK'
    BY <2>3 DEF CheckReleased, Goto, Step
  <2>4. ASSUME NEW c \in Callers, CheckGone(c) PROVE TypeOK'
    <3>1. CASE Step(c, "pool", NoSandbox)
      BY <2>4, <3>1 DEF CheckGone, Step
    <3>2. CASE Return(c)
      BY <2>4, <2>a, <3>2 DEF CheckGone
    <3> QED
      BY <2>4, <3>1, <3>2 DEF CheckGone
  <2>5. ASSUME NEW c \in Callers, GetSandbox(c) PROVE TypeOK'
    BY <2>5 DEF GetSandbox, Goto, Step
  <2>6. ASSUME NEW c \in Callers, GetSandboxError(c) \/ ScheduleError(c) PROVE TypeOK'
    BY <2>6, <2>a DEF GetSandboxError, ScheduleError
  <2>7. ASSUME NEW c \in Callers, ReuseRecorded(c) PROVE TypeOK'
    BY <2>7 DEF ReuseRecorded, Step
  <2>8. ASSUME NEW c \in Callers, NEW s \in Sandboxes, CreateSandbox(c, s) PROVE TypeOK'
    BY <2>8 DEF CreateSandbox, Step
  <2>9. ASSUME NEW c \in Callers, RecordSandbox(c) PROVE TypeOK'
    BY <2>9 DEF RecordSandbox, Goto, Step
  <2>10. ASSUME NEW c \in Callers, SetProjectSandbox(c) PROVE TypeOK'
    BY <2>10 DEF SetProjectSandbox, Goto, Step
  <2>11. ASSUME NEW c \in Callers, SetProjectSandboxError(c) PROVE TypeOK'
    BY <2>11 DEF SetProjectSandboxError, Goto, Step
  <2>12. ASSUME NEW c \in Callers, GetService(c) PROVE TypeOK'
    BY <2>12 DEF GetService, Goto, Step
  <2>13. ASSUME NEW c \in Callers, CreateService(c) PROVE TypeOK'
    <3>1. pc[c] \in InService
      BY <2>13 DEF CreateService, InService
    <3> QED
      BY <2>13, <2>b, <2>c, <3>1 DEF CreateService
  <2>14. ASSUME NEW c \in Callers, UpdateService(c) PROVE TypeOK'
    <3>1. pc[c] \in InService
      BY <2>14 DEF UpdateService, InService
    <3> QED
      BY <2>14, <2>b, <2>c, <3>1 DEF UpdateService
  <2>15. ASSUME NEW c \in Callers, ServiceError(c) PROVE TypeOK'
    <3>1. pc[c] \in InService
      BY <2>15 DEF ServiceError, InService
    <3>2. troubled' \subseteq Projects
      BY <2>15 DEF ServiceError
    <3> QED
      BY <2>15, <2>b, <2>c, <3>1, <3>2 DEF ServiceError
  <2>16. ASSUME NEW c \in Callers, WaitForSandboxReady(c) PROVE TypeOK'
    BY <2>16 DEF WaitForSandboxReady, Return
  <2>17. ASSUME NEW r \in Releasers, NEW s \in Sandboxes, Release(r, s) PROVE TypeOK'
    BY <2>17 DEF Release
  <2>18. ASSUME NEW r \in Releasers, FindProject(r) PROVE TypeOK'
    BY <2>18 DEF FindProject
  <2>19. ASSUME NEW r \in Releasers, RemoveSandboxMapping(r) \/ RemoveSandboxMappingError(r)
         PROVE  TypeOK'
    BY <2>19 DEF RemoveSandboxMapping, RemoveSandboxMappingError, RemovePrefix
  <2>20. ASSUME NEW r \in Releasers, DeletePod(r) \/ DeletePodError(r) PROVE TypeOK'
    BY <2>20 DEF DeletePod, DeletePodError, ReleaseDone
  <2>21. ASSUME NEW s \in Sandboxes,
                \/ PoolRefill(s) \/ PoolRelist(s) \/ PodGone(s)
                \/ ExpireOwner(s) \/ ExpireReleased(s)
         PROVE  TypeOK'
    BY <2>21 DEF PoolRefill, PoolRelist, PodGone, ExpireOwner, ExpireReleased
  <2>22. ASSUME NEW p \in Projects, ExpireMapping(p) \/ ExpireRecord(p) PROVE TypeOK'
    BY <2>22 DEF ExpireMapping, ExpireRecord
  <2>23. CASE Crash
    BY <2>23 DEF Crash
  <2>24. CASE UNCHANGED vars
    BY <2>24 DEF vars
  <2>25. QED
    <3> HIDE DEF TypeOK
    <3> QED
      BY <2>1, <2>2, <2>3, <2>4, <2>5, <2>6, <2>7, <2>8, <2>9, <2>10, <2>11, <2>12,
         <2>13, <2>14, <2>15, <2>16, <2>17, <2>18, <2>19, <2>20, <2>21, <2>22,
         <2>23, <2>24
         DEF Next, Call, Releasing, Environment
<1>3. QED
  BY <1>1, <1>2, PTL DEF Spec

-----------------------------------------------------------------------------
\* TenantIsolation, and a sandbox in the pool, or listed by several processes,
\* has been created.
IsolationInv ==
    /\ TenantIsolation
    /\ (ready \cup doubled) \cap Fresh = {}

\* A step keeps it and is a step of SandboxLife, or leaves that unchanged.
KeepsLife == IsolationInv' /\ [Life!Next]_(Life!vars)

\* The inductive step behind the two theorems below.
LEMMA StepsKeepLife == TypeOK /\ IsolationInv /\ [Next]_vars => KeepsLife
<1> SUFFICES ASSUME TypeOK, IsolationInv, [Next]_vars PROVE KeepsLife
  OBVIOUS
<1> USE ProjectsAssumption, SandboxAssumption, CleanAssumption
\* Whatever happens to the sandboxes that several processes list.
<1>d. ASSUME \A p \in Projects, s \in Sandboxes \ doubled' : Holds(p, s)' => Holds(p, s),
             ready' \subseteq ready \cup doubled', Fresh' \subseteq Fresh,
             doubled \subseteq doubled', doubled' \cap Fresh' = {}
      PROVE  KeepsLife
  <2>1. IsolationInv'
    BY <1>d DEF IsolationInv, TenantIsolation
  <2>2. {h \in Projects \X Sandboxes : h[2] \notin doubled' /\ Holds(h[1], h[2])'}
          \subseteq {h \in Projects \X Sandboxes : h[2] \notin doubled /\ Holds(h[1], h[2])}
    BY <1>d
  <2>3. Life!Retire
    BY <1>d, <2>2 DEF Life!Retire
  <2> QED
    BY <2>1, <2>3 DEF KeepsLife, Life!Next
<1>a. ASSUME \A p \in Projects, s \in Sandboxes : Holds(p, s)' => Holds(p, s),
             ready' \subseteq ready, Fresh' \subseteq Fresh, doubled' = doubled
      PROVE  KeepsLife
  BY <1>a, <1>d DEF IsolationInv
<1>b. ASSUME NEW q \in Projects, NEW x \in (ready \ doubled) \cup Fresh,
             \A p \in Projects, s \in Sandboxes :
                 Holds(p, s)' <=> Holds(p, s) \/ (p = q /\ s = x),
             ready' = ready \ {x}, Fresh' = Fresh \ {x}, doubled' = doubled
      PROVE  KeepsLife
  <2>0. x \in Sandboxes /\ x \notin doubled
    BY DEF TypeOK, Fresh, IsolationInv
  <2>1. IsolationInv'
    BY <1>b, <2>0 DEF IsolationInv, TenantIsolation
  <2>2. {h \in Projects \X Sandboxes : h[2] \notin doubled' /\ Holds(h[1], h[2])'}
          = {h \in Projects \X Sandboxes : h[2] \notin doubled /\ Holds(h[1], h[2])}
              \cup {<<q, x>>}
    <3>1. ASSUME NEW h \in Projects \X Sandboxes
          PROVE  h[2] \notin doubled' /\ Holds(h[1], h[2])'
                   <=> (h[2] \notin doubled /\ Holds(h[1], h[2])) \/ h = <<q, x>>
      <4>1. PICK p \in Projects, s \in Sandboxes : h = <<p, s>>
        OBVIOUS
      <4>2. Holds(p, s)' <=> Holds(p, s) \/ (p = q /\ s = x)
        BY <1>b
      <4> QED
        BY <1>b, <2>0, <4>1, <4>2
    <3> QED
      BY <2>0, <3>1
  <2>3. Life!Assign(x, q)
    BY <1>b, <2>0, <2>2 DEF Life!Assign
  <2> QED
    BY <2>0, <2>1, <2>3 DEF KeepsLife, Life!Next
<1>k. ready' = ready /\ Fresh' = Fresh => ready' \subseteq ready /\ Fresh' \subseteq Fresh
  OBVIOUS
<1>n. \A c \in Callers : pc[c] # "idle" => proj[c] \in Projects
  BY DEF TypeOK
<1> USE DEF storeVars, clusterVars, callVars, releaseVars
\* What a step of a call can add to Holds comes from what it did to sbx.
<1>s. ASSUME NEW c \in Callers, NEW to, NEW x, Step(c, to, x), proj[c] \in Projects,
             UNCHANGED <<mapping, owner, service, record>>
      PROVE  \A p \in Projects, s \in Sandboxes :
                 Holds(p, s)' => Holds(p, s) \/ (p = proj[c] /\ s = x)
  BY <1>s DEF Step, Holds, TypeOK
<1>t. ASSUME NEW c \in Callers, NEW to, NEW x \in Sandboxes, Step(c, to, x),
             proj[c] \in Projects, sbx[c] \notin Sandboxes,
             UNCHANGED <<mapping, owner, service, record>>
      PROVE  \A p \in Projects, s \in Sandboxes :
                 Holds(p, s)' <=> Holds(p, s) \/ (p = proj[c] /\ s = x)
  BY <1>t DEF Step, Holds, TypeOK
<1>g. ASSUME NEW c \in Callers, NEW to, Goto(c, to),
             UNCHANGED <<mapping, owner, service, record>>
      PROVE  \A p \in Projects, s \in Sandboxes : Holds(p, s)' => Holds(p, s)
  BY <1>g DEF Goto, Step, Holds, TypeOK
<1>r. ASSUME NEW c \in Callers, Return(c), UNCHANGED <<mapping, owner, service, record>>
      PROVE  \A p \in Projects, s \in Sandboxes : Holds(p, s)' => Holds(p, s)
  BY <1>r DEF Return, Holds, TypeOK
<1>1. ASSUME NEW c \in Callers, NEW p \in Projects, Request(c, p) PROVE KeepsLife
  <2>1. sbx[c] = NoSandbox
    BY <1>1 DEF Request, TypeOK, Assigning
  <2>2. \A q \in Projects, s \in Sandboxes : Holds(q, s)' => Holds(q, s)
    BY <1>1, <2>1 DEF Request, Holds, TypeOK
  <2> QED
    BY <1>1, <1>a, <1>k, <2>2 DEF Request, Fresh
<1>2. ASSUME NEW c \in Callers, GetMapping(c) PROVE KeepsLife
  <2>1. \A q \in Projects, s \in Sandboxes : Holds(q, s)' => Holds(q, s)
    BY <1>2, <1>n, <1>s, <1>g DEF GetMapping, Holds
  <2> QED
    BY <1>2, <1>a, <1>k, <2>1 DEF GetMapping, Fresh
<1>3. ASSUME NEW c \in Callers, CheckReleased(c) PROVE KeepsLife
  <2>1. \A q \in Projects, s \in Sandboxes : Holds(q, s)' => Holds(q, s)
    BY <1>3, <1>n, <1>s, <1>g DEF CheckReleased
  <2> QED
    BY <1>3, <1>a, <1>k, <2>1 DEF CheckReleased, Fresh
<1>4. ASSUME NEW c \in Callers, CheckGone(c) PROVE KeepsLife
  <2>1. \A q \in Projects, s \in Sandboxes : Holds(q, s)' => Holds(q, s)
    BY <1>4, <1>n, <1>s, <1>r DEF CheckGone
  <2> QED
    BY <1>4, <1>a, <1>k, <2>1 DEF CheckGone, Fresh
<1>5. ASSUME NEW c \in Callers, GetSandbox(c) PROVE KeepsLife
  <2>0. proj[c] \in Projects /\ sbx[c] \notin Sandboxes
    BY <1>5, <1>n DEF GetSandbox, TypeOK, Assigning
  <2>1. CASE \E s \in ready : ready' = ready \ {s} /\ Step(c, "set", s)
    <3>1. PICK s \in ready : ready' = ready \ {s} /\ Step(c, "set", s)
      BY <2>1
    <3>2. Fresh' = Fresh
      BY <1>5 DEF GetSandbox, Fresh
    <3>3. s \notin Fresh
      BY DEF IsolationInv
    <3>4. /\ ready' = ready \ {s} /\ Fresh' = Fresh \ {s} /\ s \in Sandboxes
          /\ doubled' = doubled
      BY <1>5, <3>1, <3>2, <3>3 DEF TypeOK, GetSandbox
    <3>5. \A q \in Projects, t \in Sandboxes :
              Holds(q, t)' <=> Holds(q, t) \/ (q = proj[c] /\ t = s)
      BY <1>5, <1>t, <2>0, <3>1, <3>4 DEF GetSandbox
    <3>6. CASE s \notin doubled
      BY <1>b, <2>0, <3>4, <3>5, <3>6
    <3>7. CASE s \in doubled
      BY <1>d, <3>4, <3>5, <3>7 DEF IsolationInv
    <3> QED
      BY <3>6, <3>7
  <2>2. CASE ready' = ready /\ Goto(c, "schedule")
    BY <1>5, <1>a, <1>g, <1>k, <2>2 DEF GetSandbox, Fresh
  <2> QED
    BY <1>5, <2>1, <2>2 DEF GetSandbox
<1>6. ASSUME NEW c \in Callers, GetSandboxError(c) \/ ScheduleError(c) PROVE KeepsLife
  <2>1. \A q \in Projects, s \in Sandboxes : Holds(q, s)' => Holds(q, s)
    BY <1>6, <1>r DEF GetSandboxError, ScheduleError
  <2>2. ready' \subseteq ready /\ Fresh' \subseteq Fresh /\ doubled' = doubled
    BY <1>6 DEF GetSandboxError, ScheduleError, Fresh, TypeOK
  <2> QED
    BY <1>a, <2>1, <2>2
<1>7. ASSUME NEW c \in Callers, ReuseRecorded(c) PROVE KeepsLife
  <2>1. \A q \in Projects, s \in Sandboxes : Holds(q, s)' => Holds(q, s)
    BY <1>7, <1>n, <1>s DEF ReuseRecorded, Holds
  <2> QED
    BY <1>7, <1>a, <1>k, <2>1 DEF ReuseRecorded, Fresh
<1>8. ASSUME NEW c \in Callers, NEW s \in Sandboxes, CreateSandbox(c, s) PROVE KeepsLife
  <2>0. proj[c] \in Projects /\ s \in Fresh /\ s \notin ready /\ sbx[c] \notin Sandboxes
    BY <1>8, <1>n DEF CreateSandbox, IsolationInv, TypeOK, Assigning
  <2>1. \A q \in Projects, t \in Sandboxes :
            Holds(q, t)' <=> Holds(q, t) \/ (q = proj[c] /\ t = s)
    BY <1>8, <1>t, <2>0 DEF CreateSandbox
  <2>2. Fresh' = Fresh \ {s} /\ ready' = ready /\ doubled' = doubled
    BY <1>8 DEF CreateSandbox, Fresh, TypeOK
  <2>3. ready' = ready \ {s}
    BY <2>0, <2>2
  <2> QED
    BY <1>b, <2>0, <2>1, <2>2, <2>3
<1>9. ASSUME NEW c \in Callers, RecordSandbox(c) PROVE KeepsLife
  <2>1. \A q \in Projects, s \in Sandboxes : Holds(q, s)' => Holds(q, s)
    BY <1>9, <1>n DEF RecordSandbox, Goto, Step, Holds, TypeOK
  <2> QED
    BY <1>9, <1>a, <1>k, <2>1 DEF RecordSandbox, Fresh
<1>10. ASSUME NEW c \in Callers, SetProjectSandbox(c) \/ SetProjectSandboxError(c)
       PROVE  KeepsLife
  <2>1. \A q \in Projects, s \in Sandboxes : Holds(q, s)' => Holds(q, s)
    BY <1>10, <1>n DEF SetProjectSandbox, SetProjectSandboxError, Goto, Step, Holds, TypeOK
  <2> QED
    BY <1>10, <1>a, <1>k, <2>1 DEF SetProjectSandbox, SetProjectSandboxError, Fresh
<1>11. ASSUME NEW c \in Callers, GetService(c) PROVE KeepsLife
  BY <1>11, <1>a, <1>g, <1>k DEF GetService, Fresh
<1>12. ASSUME NEW c \in Callers, AfterService(c), proj[c] \in Projects,
              WriteService(c) \/ UNCHANGED service, UNCHANGED <<storeVars, ready, doubled, pod>>
       PROVE  KeepsLife
  <2>1. \A q \in Projects, s \in Sandboxes : Holds(q, s)' => Holds(q, s)
    BY <1>12 DEF AfterService, WriteService, Holds, TypeOK
  <2> QED
    BY <1>12, <1>a, <1>k, <2>1 DEF Fresh
<1>13. ASSUME NEW c \in Callers, CreateService(c) \/ UpdateService(c) \/ ServiceError(c)
       PROVE  KeepsLife
  BY <1>12, <1>13, <1>n DEF CreateService, UpdateService, ServiceError
<1>14. ASSUME NEW c \in Callers, WaitForSandboxReady(c) PROVE KeepsLife
  BY <1>14, <1>a, <1>r, <1>k DEF WaitForSandboxReady, Fresh
<1>15. ASSUME UNCHANGED <<callVars, clusterVars, record>>,
              \A p \in Projects : mapping'[p] \in {mapping[p], NoSandbox},
              \A s \in Sandboxes : owner'[s] \in {owner[s], NoProject}
       PROVE  KeepsLife
  <2>1. \A q \in Projects, s \in Sandboxes : Holds(q, s)' => Holds(q, s)
    BY <1>15 DEF Holds
  <2> QED
    BY <1>15, <1>a, <1>k, <2>1 DEF Fresh
<1>16. ASSUME NEW r \in Releasers, NEW s \in Sandboxes, Release(r, s) PROVE KeepsLife
  BY <1>15, <1>16 DEF Release
<1>17. ASSUME NEW r \in Releasers, FindProject(r) \/ DeletePodError(r) PROVE KeepsLife
  BY <1>15, <1>17 DEF FindProject, DeletePodError
<1>18. ASSUME NEW r \in Releasers, RemoveSandboxMapping(r) \/ RemoveSandboxMappingError(r)
       PROVE  KeepsLife
  <2>1. PICK n \in 0..3 : RemovePrefix(r, n)
    BY <1>18 DEF RemoveSandboxMapping, RemoveSandboxMappingError
  <2>2. /\ \A p \in Projects : mapping'[p] \in {mapping[p], NoSandbox}
        /\ \A s \in Sandboxes : owner'[s] \in {owner[s], NoProject}
    BY <2>1 DEF RemovePrefix, TypeOK
  <2> QED
    BY <1>15, <2>1, <2>2 DEF RemovePrefix
<1>19. ASSUME UNCHANGED <<mapping, owner, service, record, proj, sbx>>,
              ready' \subseteq ready, Fresh' \subseteq Fresh, doubled' = doubled
       PROVE  KeepsLife
  BY <1>19, <1>a DEF Holds
<1>20. ASSUME NEW r \in Releasers, DeletePod(r) PROVE KeepsLife
  <2>1. Fresh' \subseteq Fresh /\ ready' = ready
    BY <1>20 DEF DeletePod, Fresh, TypeOK
  <2> QED
    BY <1>19, <1>20, <2>1 DEF DeletePod
<1>21. ASSUME NEW s \in Sandboxes, PodGone(s) PROVE KeepsLife
  <2>1. Fresh' \subseteq Fresh /\ ready' = ready
    BY <1>21 DEF PodGone, Fresh, TypeOK
  <2> QED
    BY <1>19, <1>21, <2>1 DEF PodGone
<1>28. ASSUME NEW s \in Sandboxes, PoolRefill(s) PROVE KeepsLife
  <2>1. s \in Fresh /\ Fresh' = Fresh \ {s} /\ ready' = ready \cup {s}
    BY <1>28 DEF PoolRefill, Fresh, TypeOK
  <2>2. \A p \in Projects, t \in Sandboxes : Holds(p, t)' <=> Holds(p, t)
    BY <1>28 DEF PoolRefill, Holds
  <2>3. CASE doubled' = doubled
    <3>1. IsolationInv'
      BY <2>1, <2>2, <2>3 DEF IsolationInv, TenantIsolation
    <3>2. {h \in Projects \X Sandboxes : h[2] \notin doubled' /\ Holds(h[1], h[2])'}
            = {h \in Projects \X Sandboxes : h[2] \notin doubled /\ Holds(h[1], h[2])}
      BY <2>2, <2>3
    <3>3. s \notin doubled
      BY <2>1 DEF IsolationInv
    <3>4. Life!Provision(s)
      BY <2>1, <2>3, <3>2, <3>3 DEF Life!Provision
    <3> QED
      BY <3>1, <3>4 DEF KeepsLife, Life!Next
  <2>4. CASE doubled' = doubled \cup {s}
    BY <1>d, <2>1, <2>2, <2>4 DEF IsolationInv
  <2> QED
    BY <1>28, <2>3, <2>4 DEF PoolRefill
<1>29. ASSUME NEW s \in Sandboxes, PoolRelist(s) PROVE KeepsLife
  <2>1. \A p \in Projects, t \in Sandboxes : Holds(p, t)' <=> Holds(p, t)
    BY <1>29 DEF PoolRelist, Holds
  <2>2. Fresh' = Fresh /\ doubled' = doubled /\ ready' \subseteq ready \cup doubled'
    BY <1>29 DEF PoolRelist, Fresh
  <2> QED
    BY <1>d, <2>1, <2>2 DEF IsolationInv
<1>22. ASSUME NEW s \in Sandboxes, ExpireOwner(s) \/ ExpireReleased(s) PROVE KeepsLife
  BY <1>15, <1>22 DEF ExpireOwner, ExpireReleased, TypeOK
<1>23. ASSUME NEW p \in Projects, ExpireMapping(p) PROVE KeepsLife
  BY <1>15, <1>23 DEF ExpireMapping, TypeOK
<1>24. ASSUME NEW p \in Projects, ExpireRecord(p) PROVE KeepsLife
  <2>1. \A q \in Projects, s \in Sandboxes : Holds(q, s)' => Holds(q, s)
    BY <1>24 DEF ExpireRecord, Holds, TypeOK
  <2> QED
    BY <1>24, <1>a, <1>k, <2>1 DEF ExpireRecord, Fresh
<1>25. CASE Crash
  <2>1. \A c \in Callers : \/ proj'[c] = proj[c] /\ sbx'[c] = sbx[c]
                          \/ proj'[c] = NoProject
    BY <1>25 DEF Crash
  <2>2. UNCHANGED storeVars /\ UNCHANGED clusterVars
    BY <1>25 DEF Crash
  <2>3. \A q \in Projects, s \in Sandboxes : Holds(q, s)' => Holds(q, s)
    BY <2>1, <2>2 DEF Holds
  <2> QED
    BY <1>a, <1>k, <2>2, <2>3 DEF Fresh
<1>26. CASE UNCHANGED vars
  BY <1>15, <1>26 DEF vars
<1>27. QED
  BY <1>1, <1>2, <1>3, <1>4, <1>5, <1>6, <1>7, <1>8, <1>9, <1>10, <1>11, <1>13,
     <1>14, <1>16, <1>17, <1>18, <1>20, <1>21, <1>22, <1>23, <1>24, <1>25, <1>26,
     <1>28, <1>29
     DEF Next, Call, Releasing, Environment

\* At the start every sandbox is yet to be created and nobody holds one.
LEMMA LifeInit == Init => IsolationInv /\ Life!Init
<1> SUFFICES ASSUME Init PROVE IsolationInv /\ Life!Init
  OBVIOUS
<1>1. Fresh = Sandboxes /\ ready = {} /\ doubled = {}
  BY DEF Init, Fresh
<1>2. \A p \in Projects, s \in Sandboxes : ~Holds(p, s)
  BY ProjectsAssumption, SandboxAssumption DEF Init, Holds
<1>3. {h \in Projects \X Sandboxes : h[2] \notin doubled /\ Holds(h[1], h[2])} = {}
  BY <1>2
<1> QED
  BY <1>1, <1>2, <1>3 DEF IsolationInv, TenantIsolation, Life!Init

\* No interleaving of calls, releases, expiries and crashes gives two
\* projects the same sandbox, or a project one that is still in the pool, but
\* for the sandboxes that several processes listed as pending at once; how the
\* pool hands those out twice does not spread to the others.
THEOREM ProjectsIsolated == Spec => []TenantIsolation
<1>1. TypeOK /\ IsolationInv /\ [Next]_vars => IsolationInv'
  BY StepsKeepLife DEF KeepsLife
<1>2. IsolationInv => TenantIsolation
  BY DEF IsolationInv
<1>3. QED
  BY <1>1, <1>2, LifeInit, TypeCorrect, PTL DEF Spec

\* The calls, releases and the pool together implement SandboxLife: every step
\* provisions, assigns or retires sandboxes, or changes nothing of their lives,
\* so that a sandbox that one process moves is never reused.
THEOREM ProjectsImplementLife == Spec => ImplementsLife
<1>1. TypeOK /\ IsolationInv /\ [Next]_vars => IsolationInv' /\ [Life!Next]_(Life!vars)
  BY StepsKeepLife DEF KeepsLife
<1>2. QED
  BY <1>1, LifeInit, TypeCorrect, PTL DEF Spec, ImplementsLife, Life!Spec

\* The theorems about SandboxLife, for the projects as holders.
LifeFacts == INSTANCE SandboxLifeProofs WITH
    Holders <- Projects,
    unused <- Fresh,
    pooled <- ready \ doubled,
    held <- {h \in Projects \X Sandboxes : h[2] \notin doubled /\ Holds(h[1], h[2])}

\* What the project service inherits: a sandbox that a project has, or has lost,
\* gets no further holder, that project included, and is not pooled again,
\* unless several processes listed it as pending at once.
THEOREM SandboxesNotReused == Spec => Life!NeverReused
<1>1. LifeFacts!Spec <=> Life!Spec
  BY PTL DEF Life!Spec, LifeFacts!Spec, Life!Init, LifeFacts!Init, Life!Next, LifeFacts!Next,
         Life!vars, LifeFacts!vars, Life!Retire, LifeFacts!Retire,
         Life!Provision, LifeFacts!Provision, Life!Assign, LifeFacts!Assign
<1>2. LifeFacts!NeverReused <=> Life!NeverReused
  BY PTL DEF Life!NeverReused, LifeFacts!NeverReused, Life!vars, LifeFacts!vars
<1> QED
  BY <1>1, <1>2, ProjectsImplementLife, LifeFacts!NoReuse, PTL DEF ImplementsLife

-----------------------------------------------------------------------------
(* The reverse mapping                                                      *)

\* What a release has found stays true until it acts on it: no project but one
\* whose id reads back as the one found can hold the sandbox, unless several
\* processes moved that one.
FoundInv ==
    /\ \A r \in Releasers : rpc[r] # "remove" => rproj[r] = NoProject
    /\ \A r \in Releasers, s \in Sandboxes \ doubled :
          rproj[r] # NoProject /\ rsbx[r] = s =>
              s \notin ready \cup Fresh /\ \A q \in Projects : Holds(q, s) => Clean[q] = rproj[r]

\* What SandboxLife gives: a sandbox that was assigned gets no new holder.
LEMMA NeverReused ==
    ASSUME KeepsLife
    PROVE  \A s \in Sandboxes \ (doubled \cup doubled') :
              s \notin ready \cup Fresh =>
                 /\ s \notin ready' \cup Fresh'
                 /\ \A q \in Projects : Holds(q, s)' => Holds(q, s)
<1> DEFINE pool == ready \ doubled
           next == ready' \ doubled'
           held == {h \in Projects \X Sandboxes : h[2] \notin doubled /\ Holds(h[1], h[2])}
           then == {h \in Projects \X Sandboxes : h[2] \notin doubled' /\ Holds(h[1], h[2])'}
<1>1. \/ Fresh' \subseteq Fresh /\ next \subseteq pool /\ then \subseteq held
      \/ \E s \in Sandboxes :
            /\ s \in Fresh /\ Fresh' = Fresh \ {s} /\ next = pool \cup {s}
            /\ then = held
      \/ \E s \in Sandboxes, p \in Projects :
            /\ s \in Fresh \cup pool /\ Fresh' = Fresh \ {s} /\ next = pool \ {s}
            /\ then = held \cup {<<p, s>>}
  <2>1. CASE Life!Next
    BY <2>1 DEF Life!Next, Life!Retire, Life!Provision, Life!Assign
  <2>2. CASE UNCHANGED Life!vars
    BY <2>2 DEF Life!vars
  <2> QED
    BY <2>1, <2>2 DEF KeepsLife
<1>2. \A q \in Projects, s \in Sandboxes :
          /\ s \notin doubled => (Holds(q, s) <=> <<q, s>> \in held)
          /\ s \notin doubled' => (Holds(q, s)' <=> <<q, s>> \in then)
  OBVIOUS
<1>3. \A s \in Sandboxes \ (doubled \cup doubled') :
          (s \in ready <=> s \in pool) /\ (s \in ready' <=> s \in next)
  OBVIOUS
<1> HIDE DEF pool, next, held, then
<1> QED
  BY <1>1, <1>2, <1>3

\* Only a sandbox that is being created comes to be listed by two processes.
LEMMA DoubledStep ==
    ASSUME [Next]_vars
    PROVE  doubled \subseteq doubled' /\ doubled' \subseteq doubled \cup Fresh
<1> USE DEF storeVars, clusterVars, callVars, releaseVars
<1>1. ASSUME NEW c \in Callers, NEW p \in Projects, Request(c, p) PROVE doubled' = doubled
  BY <1>1 DEF Request
<1>2. ASSUME NEW c \in Callers, Call(c) PROVE doubled' = doubled
  BY <1>2 DEF Call, GetMapping, CheckReleased, CheckGone, GetSandbox, GetSandboxError,
              ReuseRecorded, CreateSandbox, RecordSandbox, ScheduleError,
              SetProjectSandbox, SetProjectSandboxError, GetService, CreateService,
              UpdateService, ServiceError, WaitForSandboxReady
<1>3. ASSUME NEW r \in Releasers, NEW s \in Sandboxes, Release(r, s) PROVE doubled' = doubled
  BY <1>3 DEF Release
<1>4. ASSUME NEW r \in Releasers, Releasing(r) PROVE doubled' = doubled
  BY <1>4 DEF Releasing, FindProject, RemoveSandboxMapping, RemoveSandboxMappingError,
              RemovePrefix, DeletePod, DeletePodError
<1>5. ASSUME Environment PROVE doubled \subseteq doubled' /\ doubled' \subseteq doubled \cup Fresh
  BY <1>5 DEF Environment, PoolRefill, PoolRelist, PodGone, ExpireOwner, ExpireReleased,
              ExpireMapping, ExpireRecord, Crash
<1>6. CASE UNCHANGED vars
  BY <1>6 DEF vars
<1> QED
  BY <1>1, <1>2, <1>3, <1>4, <1>5, <1>6 DEF Next

\* Nobody gets a sandbox that a release has found, so that what the release
\* has read stays true.
LEMMA FoundStep ==
    ASSUME TypeOK, IsolationInv, FoundInv, [Next]_vars
    PROVE  FoundInv'
<1> USE DEF storeVars, clusterVars, callVars, releaseVars
<1>0. \A s \in Sandboxes \ doubled' :
          s \notin ready \cup Fresh =>
             /\ s \notin ready' \cup Fresh'
             /\ \A q \in Projects : Holds(q, s)' => Holds(q, s)
  BY StepsKeepLife, NeverReused, DoubledStep
<1>a. ASSUME \A r \in Releasers :
                 /\ rpc'[r] # "remove" => rproj'[r] = NoProject
                 /\ rproj'[r] # NoProject => rproj'[r] = rproj[r] /\ rsbx'[r] = rsbx[r]
      PROVE  FoundInv'
  BY <1>0, <1>a, DoubledStep DEF FoundInv
<1>b. \A r \in Releasers : rpc[r] # "remove" => rproj[r] = NoProject
  BY DEF FoundInv
<1>c. ASSUME UNCHANGED <<rpc, rsbx, rproj>> PROVE FoundInv'
  BY <1>a, <1>b, <1>c
<1>1. ASSUME NEW r \in Releasers, NEW s \in Sandboxes, Release(r, s) PROVE FoundInv'
  BY <1>1, <1>a, <1>b DEF Release, TypeOK
<1>2. ASSUME NEW r \in Releasers, FindProject(r) PROVE FoundInv'
  <2>1. rpc[r] = "find" /\ rsbx' = rsbx /\ rsbx[r] \in Sandboxes /\ rproj[r] = NoProject
    BY <1>2, <1>b DEF FindProject, TypeOK
  <2>2. CASE rproj' = rproj
    <3>1. \A t \in Releasers : t # r => rpc'[t] = rpc[t]
      BY <1>2 DEF FindProject, TypeOK
    <3> QED
      BY <1>a, <1>b, <2>1, <2>2, <3>1
  <2>3. CASE /\ owner[rsbx[r]] # NoProject
             /\ rpc' = [rpc EXCEPT ![r] = "remove"]
             /\ rproj' = [rproj EXCEPT ![r] = Clean[owner[rsbx[r]]]]
    <3>1. PICK s \in Sandboxes : s = rsbx[r]
      BY <2>1
    <3>2. PICK o \in Projects : o = owner[s]
      BY <2>3, <3>1 DEF TypeOK
    <3>3. s \notin doubled =>
              s \notin ready \cup Fresh /\ \A q \in Projects : Holds(q, s) => q = o
      <4>1. Holds(o, s)
        BY <3>2 DEF Holds
      <4> QED
        BY <4>1 DEF IsolationInv, TenantIsolation
    <3>4. s \notin doubled' =>
              s \notin ready' \cup Fresh' /\ \A q \in Projects : Holds(q, s)' => q = o
      BY <1>0, <3>3, DoubledStep
    <3>5. \A t \in Releasers :
              IF t = r THEN rpc'[t] = "remove" /\ rproj'[t] = Clean[o] /\ rsbx'[t] = s
                       ELSE rpc'[t] = rpc[t] /\ rproj'[t] = rproj[t] /\ rsbx'[t] = rsbx[t]
      BY <2>1, <2>3, <3>1, <3>2 DEF TypeOK
    <3> QED
      BY <1>0, <3>4, <3>5, DoubledStep DEF FoundInv
  <2> QED
    BY <1>2, <2>2, <2>3 DEF FindProject
<1>3. ASSUME NEW r \in Releasers, NEW n, RemovePrefix(r, n) PROVE FoundInv'
  BY <1>3, <1>a, <1>b DEF RemovePrefix, TypeOK
<1>4. ASSUME NEW r \in Releasers, DeletePod(r) \/ DeletePodError(r) PROVE FoundInv'
  BY <1>4, <1>a, <1>b DEF DeletePod, DeletePodError, ReleaseDone, TypeOK
<1>5. CASE Crash
  BY <1>5, <1>a, <1>b DEF Crash
<1>6. ASSUME NEW c \in Callers, NEW p \in Projects, Request(c, p)
      PROVE  UNCHANGED <<rpc, rsbx, rproj>>
  BY <1>6 DEF Request
<1>7. ASSUME NEW c \in Callers, Call(c) PROVE UNCHANGED <<rpc, rsbx, rproj>>
  BY <1>7 DEF Call, GetMapping, CheckReleased, CheckGone, GetSandbox, GetSandboxError,
              ReuseRecorded, CreateSandbox, RecordSandbox, ScheduleError,
              SetProjectSandbox, SetProjectSandboxError, GetService, CreateService,
              UpdateService, ServiceError, WaitForSandboxReady
<1>8. ASSUME Environment, ~Crash PROVE UNCHANGED <<rpc, rsbx, rproj>>
  BY <1>8 DEF Environment, PoolRefill, PoolRelist, PodGone, ExpireOwner, ExpireReleased, ExpireMapping,
              ExpireRecord
<1>9. CASE UNCHANGED vars
  BY <1>9, <1>c DEF vars
<1> QED
  BY <1>c, <1>1, <1>2, <1>3, <1>4, <1>5, <1>6, <1>7, <1>8, <1>9
  DEF Next, Releasing, RemoveSandboxMapping, RemoveSandboxMappingError

\* The pipelines of SetProjectSandbox and RemoveSandboxMapping and the TTLs
\* are all that changes the two mappings.
LEMMA MappingAside ==
    ASSUME [Next]_vars,
           ~\E c \in Callers : SetProjectSandbox(c) \/ SetProjectSandboxError(c),
           ~\E r \in Releasers : RemoveSandboxMapping(r) \/ RemoveSandboxMappingError(r),
           ~\E p \in Projects : ExpireMapping(p),
           ~\E s \in Sandboxes : ExpireOwner(s)
    PROVE  UNCHANGED <<mapping, owner>>
<1> USE DEF storeVars, clusterVars, callVars, releaseVars
<1>1. ASSUME NEW c \in Callers, NEW p \in Projects, Request(c, p)
      PROVE  UNCHANGED <<mapping, owner>>
  BY <1>1 DEF Request
<1>2. ASSUME NEW c \in Callers, Call(c)
      PROVE  UNCHANGED <<mapping, owner>>
  BY <1>2 DEF Call, GetMapping, CheckReleased, CheckGone, GetSandbox, GetSandboxError,
              ReuseRecorded, CreateSandbox, RecordSandbox, ScheduleError,
              GetService, CreateService, UpdateService, ServiceError, WaitForSandboxReady
<1>3. ASSUME NEW r \in Releasers, NEW s \in Sandboxes, Release(r, s)
      PROVE  UNCHANGED <<mapping, owner>>
  BY <1>3 DEF Release
<1>4. ASSUME NEW r \in Releasers, Releasing(r)
      PROVE  UNCHANGED <<mapping, owner>>
  BY <1>4 DEF Releasing, FindProject, DeletePod, DeletePodError
<1>5. ASSUME Environment
      PROVE  UNCHANGED <<mapping, owner>>
  BY <1>5 DEF Environment, PoolRefill, PoolRelist, PodGone, ExpireReleased, ExpireRecord, Crash
<1>6. CASE UNCHANGED vars
  BY <1>6 DEF vars
<1> QED
  BY <1>1, <1>2, <1>3, <1>4, <1>5, <1>6, Zenon DEF Next

\* The mapping of p and the reverse mapping of its sandbox do not come apart
\* in this step, unless a pipeline breaks off.
StaysWhole(p) ==
    Clean[p] = p /\ Torn(p)' /\ mapping'[p] \notin doubled' =>
        \/ Torn(p) /\ mapping[p] = mapping'[p]
        \/ BrokenPipeline

\* No two projects share a sandbox, so that a step that changes the reverse
\* mapping of one changes the mapping of the project it is about as well.
LEMMA ReverseStep ==
    ASSUME TypeOK, IsolationInv, FoundInv, [Next]_vars, NEW p \in Projects
    PROVE  StaysWhole(p)
<1> USE ProjectsAssumption, SandboxAssumption, CleanAssumption
<1> SUFFICES ASSUME Clean[p] = p, mapping'[p] # NoSandbox, owner'[mapping'[p]] # p,
                    mapping'[p] \notin doubled', ~BrokenPipeline
             PROVE  mapping[p] = mapping'[p] /\ owner[mapping[p]] # p
  BY DEF StaysWhole, Torn
<1>0. \A q, o \in Projects, s \in Sandboxes \ doubled : Holds(q, s) /\ Holds(o, s) => q = o
  BY DEF IsolationInv, TenantIsolation
<1>1. \A q \in Projects, s \in Sandboxes : mapping[q] = s => Holds(q, s)
  BY DEF Holds
<1>d. mapping'[p] \notin doubled
  BY DoubledStep
<1>2. ASSUME NEW c \in Callers, SetProjectSandbox(c)
      PROVE  mapping[p] = mapping'[p] /\ owner[mapping[p]] # p
  <2>1. proj[c] \in Projects /\ sbx[c] \in Sandboxes
    BY <1>2 DEF SetProjectSandbox, TypeOK, Assigning
  <2>2. Holds(proj[c], sbx[c])
    BY <2>1 DEF Holds
  <2>3. p # proj[c]
    BY <1>2, <2>1 DEF SetProjectSandbox, TypeOK
  <2>4. mapping'[p] = mapping[p]
    BY <1>2, <2>3 DEF SetProjectSandbox, TypeOK
  <2>5. mapping[p] # sbx[c]
    BY <1>0, <1>1, <1>d, <2>1, <2>2, <2>3, <2>4
  <2> QED
    BY <1>2, <2>4, <2>5 DEF SetProjectSandbox, TypeOK
<1>3. ASSUME NEW r \in Releasers, RemoveSandboxMapping(r)
      PROVE  mapping[p] = mapping'[p] /\ owner[mapping[p]] # p
  <2>1. RemovePrefix(r, 3) /\ rsbx[r] \in Sandboxes
    BY <1>3 DEF RemoveSandboxMapping, TypeOK
  <2>2. CASE rproj[r] = NoProject
    BY <2>1, <2>2 DEF RemovePrefix
  <2>3. CASE rproj[r] # NoProject
    <3>1. rproj[r] # p
      BY <2>1, <2>3 DEF RemovePrefix, TypeOK
    <3>2. mapping'[p] = mapping[p]
      BY <2>1, <3>1 DEF RemovePrefix, TypeOK
    <3>3. mapping[p] # rsbx[r]
      BY <1>1, <1>d, <2>1, <2>3, <3>1, <3>2 DEF FoundInv
    <3> QED
      BY <2>1, <3>2, <3>3 DEF RemovePrefix, TypeOK
  <2> QED
    BY <2>2, <2>3
<1>4. ASSUME NEW q \in Projects, ExpireMapping(q)
      PROVE  mapping[p] = mapping'[p] /\ owner[mapping[p]] # p
  <2>1. p # q
    BY <1>4 DEF ExpireMapping, TypeOK
  <2>2. mapping'[p] = mapping[p]
    BY <1>4, <2>1 DEF ExpireMapping, TypeOK
  <2>3. mapping[p] # mapping[q]
    BY <1>0, <1>1, <1>d, <2>1, <2>2 DEF TypeOK
  <2> QED
    BY <1>4, <2>2, <2>3 DEF ExpireMapping, TypeOK
<1>5. ASSUME NEW s \in Sandboxes, ExpireOwner(s)
      PROVE  mapping[p] = mapping'[p] /\ owner[mapping[p]] # p
  BY <1>5 DEF ExpireOwner, TypeOK
<1>6. ASSUME UNCHANGED <<mapping, owner>>
      PROVE  mapping[p] = mapping'[p] /\ owner[mapping[p]] # p
  BY <1>6
<1> QED
  BY <1>2, <1>3, <1>4, <1>5, <1>6, MappingAside, Zenon DEF BrokenPipeline

\* A release finds the project of the sandbox it removes, through every
\* interleaving of calls, releases, expiries and crashes: no step takes the
\* reverse mapping and leaves the mapping, or writes one without the other, but
\* for a pipeline that breaks off.
THEOREM ReverseMappedAlways == Spec => ReverseMapped
<1> DEFINE Whole == \A p \in Projects : StaysWhole(p)
<1>1. Init => FoundInv /\ IsolationInv
  BY LifeInit DEF Init, FoundInv
<1>2. TypeOK /\ IsolationInv /\ [Next]_vars => IsolationInv'
  BY StepsKeepLife DEF KeepsLife
<1>3. TypeOK /\ IsolationInv /\ FoundInv /\ [Next]_vars => FoundInv'
  BY FoundStep
<1>4. TypeOK /\ IsolationInv /\ FoundInv /\ [Next]_vars => [Whole]_vars
  BY ReverseStep
<1> QED
  BY <1>1, <1>2, <1>3, <1>4, TypeCorrect, PTL DEF Spec, ReverseMapped, StaysWhole

-----------------------------------------------------------------------------
(* The Service                                                              *)

\* Two calls of one project at a time are trouble, and so is a copy of the
\* Service that is outdated by another call.
AloneInv ==
    /\ \A c, d \in Callers :
          c # d /\ proj[c] = proj[d] /\ proj[c] # NoProject => proj[c] \in troubled
    /\ \A c \in Callers : stale[c] => pc[c] = "svcupdate" /\ proj[c] \in troubled

\* A call that is alone and about to write the Service has the sandbox the
\* project maps to, unless that mapping was removed, and knows whether there is
\* a Service.
WritingInv ==
    \A c \in Callers :
        pc[c] \in InService /\ proj[c] \notin troubled =>
            /\ mapping[proj[c]] \in {NoSandbox, sbx[c]}
            /\ pc[c] = "svccreate" => service[proj[c]] = NoSandbox

\* The calls a step leaves alone, and those that end, give no new overlap.
LEMMA AloneStep == ASSUME TypeOK, AloneInv, [Next]_vars PROVE AloneInv'
<1> USE ProjectsAssumption DEF storeVars, clusterVars, callVars, releaseVars
<1>0. /\ \A c, d \in Callers :
            c # d /\ proj[c] = proj[d] /\ proj[c] # NoProject => proj[c] \in troubled
      /\ \A c \in Callers : stale[c] => pc[c] = "svcupdate" /\ proj[c] \in troubled
  BY DEF AloneInv
<1>a. ASSUME troubled \subseteq troubled',
             \A c \in Callers : proj'[c] \in {proj[c], NoProject},
             \A c \in Callers : stale'[c] =>
                 stale[c] /\ pc'[c] = pc[c] /\ proj'[c] = proj[c]
      PROVE  AloneInv'
  BY <1>0, <1>a DEF AloneInv
<1>b. ASSUME NEW c \in Callers, NEW to, NEW s, Step(c, to, s), pc[c] # "svcupdate",
             troubled \subseteq troubled'
      PROVE  AloneInv'
  <2>1. \A d \in Callers : d # c => pc'[d] = pc[d]
    BY <1>b DEF Step, TypeOK
  <2>2. UNCHANGED <<proj, stale>>
    BY <1>b DEF Step
  <2> QED
    BY <1>0, <1>a, <1>b, <2>1, <2>2
<1>c. ASSUME NEW c \in Callers, Return(c), troubled \subseteq troubled' PROVE AloneInv'
  <2>1. \A d \in Callers : d # c => pc'[d] = pc[d] /\ proj'[d] = proj[d] /\ stale'[d] = stale[d]
    BY <1>c DEF Return, TypeOK
  <2>2. proj'[c] = NoProject /\ ~stale'[c]
    BY <1>c DEF Return, TypeOK
  <2> QED
    BY <1>a, <1>c, <2>1, <2>2
<1>1. ASSUME NEW c \in Callers, NEW p \in Projects, Request(c, p) PROVE AloneInv'
  <2>1. \A d \in Callers : IF d = c THEN proj'[d] = p
                                    ELSE proj'[d] = proj[d] /\ pc'[d] = pc[d]
    BY <1>1 DEF Request, TypeOK
  <2>2. /\ troubled \subseteq troubled' /\ stale' = stale
        /\ (\E d \in Callers : proj[d] = p) => p \in troubled'
    BY <1>1 DEF Request
  <2>3. ~stale[c]
    BY <1>0, <1>1 DEF Request
  <2> QED
    BY <1>0, <2>1, <2>2, <2>3 DEF AloneInv
<1>2. ASSUME NEW c \in Callers,
             \/ GetMapping(c) \/ CheckReleased(c) \/ CheckGone(c)
             \/ GetSandbox(c) \/ GetSandboxError(c) \/ ReuseRecorded(c)
             \/ (\E s \in Sandboxes : CreateSandbox(c, s))
             \/ RecordSandbox(c) \/ ScheduleError(c)
      PROVE  AloneInv'
  <2>1. /\ pc[c] # "svcupdate" /\ troubled' = troubled
        /\ Return(c) \/ \E to, s : Step(c, to, s)
    BY <1>2, Zenon DEF GetMapping, CheckReleased, CheckGone, GetSandbox, GetSandboxError,
                ReuseRecorded, CreateSandbox, RecordSandbox, ScheduleError, Goto
  <2> QED
    BY <1>b, <1>c, <2>1
<1>3. ASSUME NEW c \in Callers,
             \/ SetProjectSandbox(c) \/ SetProjectSandboxError(c) \/ GetService(c)
             \/ WaitForSandboxReady(c)
      PROVE  AloneInv'
  <2>1. /\ pc[c] # "svcupdate" /\ troubled \subseteq troubled'
        /\ Return(c) \/ \E to, s : Step(c, to, s)
    BY <1>3 DEF SetProjectSandbox, SetProjectSandboxError, GetService, WaitForSandboxReady, Goto
  <2> QED
    BY <1>b, <1>c, <2>1
<1>4. ASSUME NEW c \in Callers, CreateService(c) \/ UpdateService(c) \/ ServiceError(c)
      PROVE  AloneInv'
  <2>1. AfterService(c) /\ proj[c] \in Projects /\ troubled \subseteq troubled'
    BY <1>4 DEF CreateService, UpdateService, ServiceError, TypeOK
  <2>2. \A d \in Callers : d # c => pc'[d] = pc[d] /\ proj'[d] = proj[d]
    BY <2>1 DEF AfterService, TypeOK
  <2>3. \A d \in Callers : proj'[d] \in {proj[d], NoProject}
    BY <2>1 DEF AfterService, TypeOK
  <2>4. CASE WriteService(c)
    <3>1. \A d \in Callers :
              stale'[d] => d # c /\ (stale[d] \/ (pc[d] = "svcupdate" /\ proj[d] = proj[c]))
      BY <2>4 DEF WriteService
    <3> QED
      BY <1>0, <2>1, <2>2, <2>3, <3>1 DEF AloneInv
  <2>5. CASE stale' = [stale EXCEPT ![c] = FALSE]
    <3>1. \A d \in Callers : stale'[d] => d # c /\ stale[d]
      BY <2>5 DEF TypeOK
    <3> QED
      BY <1>a, <2>1, <2>2, <2>3, <3>1
  <2>6. CASE stale' = stale /\ pc[c] = "svccreate"
    <3>1. \A d \in Callers : stale'[d] => d # c /\ stale[d]
      BY <1>0, <2>6
    <3> QED
      BY <1>a, <2>1, <2>2, <2>3, <3>1
  <2> QED
    BY <1>4, <2>4, <2>5, <2>6, Zenon DEF CreateService, UpdateService, ServiceError
<1>5. ASSUME UNCHANGED <<pc, proj, stale>>, troubled \subseteq troubled' PROVE AloneInv'
  BY <1>0, <1>5 DEF AloneInv
<1>6. CASE Crash
  BY <1>6, <1>a DEF Crash
<1>7. ASSUME NEW r \in Releasers,
             Releasing(r) \/ (\E s \in Sandboxes : Release(r, s))
      PROVE  AloneInv'
  <2>1. UNCHANGED <<pc, proj, stale>> /\ troubled \subseteq troubled'
    BY <1>7 DEF Release, Releasing, FindProject, RemoveSandboxMapping,
                RemoveSandboxMappingError, RemovePrefix, DeletePod, DeletePodError
  <2> QED
    BY <1>5, <2>1
<1>8. ASSUME Environment, ~Crash PROVE AloneInv'
  <2>1. UNCHANGED <<pc, proj, stale>> /\ troubled \subseteq troubled'
    BY <1>8 DEF Environment, PoolRefill, PoolRelist, PodGone, ExpireOwner, ExpireReleased, ExpireMapping,
                ExpireRecord
  <2> QED
    BY <1>5, <2>1
<1>9. CASE UNCHANGED vars
  BY <1>5, <1>9 DEF vars
<1> QED
  BY <1>1, <1>2, <1>3, <1>4, <1>6, <1>7, <1>8, <1>9, Zenon DEF Next, Call

\* While a call works on the Service, only a removal touches its project.
LEMMA WritingStep ==
    ASSUME TypeOK, AloneInv, WritingInv, ServiceFollowsMapping, [Next]_vars
    PROVE  WritingInv' /\ ServiceFollowsMapping'
<1> USE ProjectsAssumption, SandboxAssumption
    DEF storeVars, clusterVars, callVars, releaseVars, InService
<1>0. \A c, d \in Callers :
          c # d /\ proj[c] = proj[d] /\ proj[c] # NoProject => proj[c] \in troubled
  BY DEF AloneInv
\* A step that leaves the calls in InService and the Service alone, and
\* changes mappings by removal only.
<1>a. ASSUME troubled \subseteq troubled', service' = service,
             \A p \in Projects : mapping'[p] \in {mapping[p], NoSandbox},
             \A c \in Callers : pc'[c] \in InService \/ pc[c] \in InService =>
                 pc'[c] = pc[c] /\ proj'[c] = proj[c] /\ sbx'[c] = sbx[c]
      PROVE  WritingInv' /\ ServiceFollowsMapping'
  BY <1>a DEF WritingInv, ServiceFollowsMapping, TypeOK
\* A step of call c that may enter or leave InService.
<1>b. ASSUME NEW c \in Callers, proj[c] \in Projects, troubled \subseteq troubled',
             \A p \in Projects : p # proj[c] =>
                 mapping'[p] = mapping[p] /\ service'[p] = service[p],
             \A d \in Callers : d # c =>
                 pc'[d] = pc[d] /\ proj'[d] = proj[d] /\ sbx'[d] = sbx[d],
             proj[c] \notin troubled' =>
                 IF pc'[c] \in InService
                 THEN /\ proj'[c] = proj[c]
                      /\ mapping'[proj[c]] \in {NoSandbox, sbx'[c]}
                      /\ pc'[c] = "svccreate" => service'[proj[c]] = NoSandbox
                 ELSE mapping'[proj[c]] \in {NoSandbox, service'[proj[c]]},
             pc'[c] \in InService => proj'[c] = proj[c]
      PROVE  WritingInv' /\ ServiceFollowsMapping'
  <2>1. WritingInv'
    <3> SUFFICES ASSUME NEW d \in Callers, pc'[d] \in InService, proj'[d] \notin troubled'
                 PROVE  /\ mapping'[proj'[d]] \in {NoSandbox, sbx'[d]}
                        /\ pc'[d] = "svccreate" => service'[proj'[d]] = NoSandbox
      BY DEF WritingInv
    <3>1. CASE d = c
      BY <1>b, <3>1
    <3>2. CASE d # c
      <4>1. proj[d] \in Projects /\ proj[d] # proj[c] /\ proj[d] \notin troubled
        BY <1>0, <1>b, <3>2 DEF TypeOK
      <4> QED
        BY <1>b, <3>2, <4>1 DEF WritingInv
    <3> QED
      BY <3>1, <3>2
  <2>2. ServiceFollowsMapping'
    <3> SUFFICES ASSUME NEW p \in Projects \ troubled',
                        mapping'[p] \notin {NoSandbox, service'[p]}
                 PROVE  \E d \in Callers : proj'[d] = p /\ pc'[d] \in InService
      BY DEF ServiceFollowsMapping
    <3>1. CASE p = proj[c]
      BY <1>b, <3>1
    <3>2. CASE p # proj[c]
      <4>1. PICK d \in Callers : proj[d] = p /\ pc[d] \in InService
        BY <1>b, <3>2 DEF ServiceFollowsMapping
      <4> QED
        BY <1>b, <3>2, <4>1
    <3> QED
      BY <3>1, <3>2
  <2> QED
    BY <2>1, <2>2
<1>1. ASSUME NEW c \in Callers, NEW p \in Projects, Request(c, p)
      PROVE  WritingInv' /\ ServiceFollowsMapping'
  <2>1. /\ troubled \subseteq troubled' /\ UNCHANGED <<mapping, service, sbx>>
        /\ pc[c] \notin InService /\ pc'[c] \notin InService
        /\ \A d \in Callers : d # c => pc'[d] = pc[d] /\ proj'[d] = proj[d]
    BY <1>1 DEF Request, TypeOK
  <2> QED
    BY <1>a, <2>1
<1>2. ASSUME NEW c \in Callers, pc[c] \notin InService, troubled' = troubled,
             UNCHANGED <<mapping, service>>,
             Return(c) \/ \E to, s : to \notin InService /\ Step(c, to, s)
      PROVE  WritingInv' /\ ServiceFollowsMapping'
  <2>1. /\ pc'[c] \notin InService
        /\ \A d \in Callers : d # c => pc'[d] = pc[d] /\ proj'[d] = proj[d] /\ sbx'[d] = sbx[d]
    BY <1>2 DEF Return, Step, TypeOK
  <2> QED
    BY <1>2, <1>a, <2>1
<1>3. ASSUME NEW c \in Callers,
             \/ GetMapping(c) \/ CheckReleased(c) \/ CheckGone(c)
             \/ GetSandbox(c) \/ GetSandboxError(c) \/ ReuseRecorded(c)
             \/ (\E s \in Sandboxes : CreateSandbox(c, s))
             \/ RecordSandbox(c) \/ ScheduleError(c) \/ WaitForSandboxReady(c)
      PROVE  WritingInv' /\ ServiceFollowsMapping'
  <2>1. /\ pc[c] \notin InService /\ troubled' = troubled /\ UNCHANGED <<mapping, service>>
        /\ Return(c) \/ \E to, s : to \notin InService /\ Step(c, to, s)
    BY <1>3 DEF GetMapping, CheckReleased, CheckGone, GetSandbox, GetSandboxError,
                ReuseRecorded, CreateSandbox, RecordSandbox, ScheduleError,
                WaitForSandboxReady, Goto
  <2> QED
    BY <1>2, <2>1
<1>4. ASSUME NEW c \in Callers, SetProjectSandbox(c) \/ SetProjectSandboxError(c)
      PROVE  WritingInv' /\ ServiceFollowsMapping'
  <2>1. /\ proj[c] \in Projects /\ troubled \subseteq troubled'
        /\ pc'[c] = "svcget" /\ UNCHANGED <<proj, sbx, service>>
        /\ \A d \in Callers : d # c => pc'[d] = pc[d]
        /\ \A p \in Projects : p # proj[c] => mapping'[p] = mapping[p]
    BY <1>4 DEF SetProjectSandbox, SetProjectSandboxError, Goto, Step, TypeOK
  <2>2. proj[c] \in troubled' \/ mapping'[proj[c]] = sbx'[c]
    BY <1>4, <2>1 DEF SetProjectSandbox, SetProjectSandboxError, TypeOK
  <2> QED
    BY <1>b, <2>1, <2>2
<1>5. ASSUME NEW c \in Callers, GetService(c) PROVE WritingInv' /\ ServiceFollowsMapping'
  <2>1. /\ proj[c] \in Projects /\ pc[c] = "svcget" /\ troubled \subseteq troubled'
        /\ pc'[c] \in {"svcupdate", "svccreate"} /\ UNCHANGED <<proj, sbx, service, mapping>>
        /\ \A d \in Callers : d # c => pc'[d] = pc[d]
    BY <1>5 DEF GetService, Goto, Step, TypeOK
  <2>2. proj[c] \in troubled' \/ pc'[c] = "svcupdate" \/ service[proj[c]] = NoSandbox
    BY <1>5, <2>1 DEF GetService, Goto, Step, TypeOK
  <2>3. proj[c] \notin troubled => mapping[proj[c]] \in {NoSandbox, sbx[c]}
    BY <2>1 DEF WritingInv
  <2> QED
    BY <1>b, <2>1, <2>2, <2>3
<1>6. ASSUME NEW c \in Callers, AfterService(c), pc[c] \in InService, mapping' = mapping,
             troubled \subseteq troubled',
             \A p \in Projects : p # proj[c] => service'[p] = service[p],
             proj[c] \in troubled' \/ service'[proj[c]] = sbx[c]
      PROVE  WritingInv' /\ ServiceFollowsMapping'
  <2>1. /\ proj[c] \in Projects /\ pc'[c] \notin InService
        /\ \A d \in Callers : d # c => pc'[d] = pc[d] /\ proj'[d] = proj[d] /\ sbx'[d] = sbx[d]
    BY <1>6 DEF AfterService, TypeOK
  <2>2. proj[c] \notin troubled => mapping[proj[c]] \in {NoSandbox, sbx[c]}
    BY <1>6 DEF WritingInv
  <2> QED
    BY <1>6, <1>b, <2>1, <2>2
<1>7. ASSUME NEW c \in Callers, CreateService(c) \/ UpdateService(c) \/ ServiceError(c)
      PROVE  WritingInv' /\ ServiceFollowsMapping'
  <2>1. /\ AfterService(c) /\ pc[c] \in InService /\ mapping' = mapping
        /\ WriteService(c) \/ service' = service
    BY <1>7, Zenon DEF CreateService, UpdateService, ServiceError
  <2>2. troubled \subseteq troubled' /\ proj[c] \in Projects
    BY <1>7 DEF CreateService, UpdateService, ServiceError, TypeOK
  <2>3. \A p \in Projects : p # proj[c] => service'[p] = service[p]
    BY <2>1 DEF WriteService, TypeOK
  <2>4. WriteService(c) => service'[proj[c]] = sbx[c]
    BY <2>2 DEF WriteService, TypeOK
  <2>5. CASE CreateService(c)
    <3>1. proj[c] \in troubled \/ service[proj[c]] = NoSandbox
      BY <2>5 DEF CreateService, WritingInv
    <3>2. proj[c] \in troubled' \/ service'[proj[c]] = sbx[c]
      BY <2>2, <2>4, <2>5, <3>1 DEF CreateService
    <3> QED
      BY <1>6, <2>1, <2>2, <2>3, <3>2
  <2>6. CASE UpdateService(c)
    <3>1. proj[c] \in troubled \/ WriteService(c)
      BY <2>6, Zenon DEF UpdateService, AloneInv
    <3>2. proj[c] \in troubled' \/ service'[proj[c]] = sbx[c]
      BY <2>2, <2>4, <3>1
    <3> QED
      BY <1>6, <2>1, <2>2, <2>3, <3>2
  <2>7. CASE ServiceError(c)
    <3>1. proj[c] \in troubled'
      BY <2>7 DEF ServiceError
    <3> QED
      BY <1>6, <2>1, <2>2, <2>3, <3>1
  <2> QED
    BY <1>7, <2>5, <2>6, <2>7
<1>8. ASSUME UNCHANGED <<pc, proj, sbx, service>>, troubled \subseteq troubled',
             \A p \in Projects : mapping'[p] \in {mapping[p], NoSandbox}
      PROVE  WritingInv' /\ ServiceFollowsMapping'
  BY <1>8, <1>a
<1>9. ASSUME NEW r \in Releasers,
             Releasing(r) \/ (\E s \in Sandboxes : Release(r, s))
      PROVE  WritingInv' /\ ServiceFollowsMapping'
  <2>1. UNCHANGED <<pc, proj, sbx, service>> /\ troubled \subseteq troubled'
    BY <1>9 DEF Release, Releasing, FindProject, RemoveSandboxMapping,
                RemoveSandboxMappingError, RemovePrefix, DeletePod, DeletePodError
  <2>2. mapping' = mapping \/ mapping' = [mapping EXCEPT ![rproj[r]] = NoSandbox]
    BY <1>9 DEF Release, Releasing, FindProject, RemoveSandboxMapping,
                RemoveSandboxMappingError, RemovePrefix, DeletePod, DeletePodError
  <2>3. \A p \in Projects : mapping'[p] \in {mapping[p], NoSandbox}
    BY <2>2 DEF TypeOK
  <2> QED
    BY <1>8, <2>1, <2>3
<1>10. ASSUME Environment, ~Crash PROVE WritingInv' /\ ServiceFollowsMapping'
  <2>1. UNCHANGED <<pc, proj, sbx, service>> /\ troubled \subseteq troubled'
    BY <1>10 DEF Environment, PoolRefill, PoolRelist, PodGone, ExpireOwner, ExpireReleased, ExpireMapping,
                 ExpireRecord
  <2>2. \A p \in Projects : mapping'[p] \in {mapping[p], NoSandbox}
    BY <1>10 DEF Environment, PoolRefill, PoolRelist, PodGone, ExpireOwner, ExpireReleased, ExpireMapping,
                 ExpireRecord, TypeOK
  <2> QED
    BY <1>8, <2>1, <2>2
<1>11. CASE Crash
  <2>1. /\ UNCHANGED <<mapping, service>> /\ troubled \subseteq troubled'
        /\ \A c \in Callers :
              \/ pc'[c] = pc[c] /\ proj'[c] = proj[c] /\ sbx'[c] = sbx[c]
              \/ /\ pc'[c] = "idle"
                 /\ pc[c] \in InService /\ proj[c] \in Projects => proj[c] \in troubled'
    BY <1>11 DEF Crash
  <2> QED
    BY <2>1 DEF WritingInv, ServiceFollowsMapping
<1>12. CASE UNCHANGED vars
  BY <1>8, <1>12 DEF vars
<1> QED
  BY <1>1, <1>3, <1>4, <1>5, <1>7, <1>9, <1>10, <1>11, <1>12, Zenon DEF Next, Call

\* Between the calls of a project that come one at a time and succeed, its
\* Service selects the sandbox it maps to, whatever the calls of other
\* projects, the releases, the TTLs and crashes do.
THEOREM ServiceFollows == Spec => []ServiceFollowsMapping
<1>1. Init => AloneInv /\ WritingInv /\ ServiceFollowsMapping
  <2> SUFFICES ASSUME Init PROVE AloneInv /\ WritingInv /\ ServiceFollowsMapping
    OBVIOUS
  <2>1. AloneInv
    BY DEF Init, AloneInv
  <2>2. WritingInv /\ ServiceFollowsMapping
    BY DEF Init, WritingInv, ServiceFollowsMapping, InService
  <2> QED
    BY <2>1, <2>2
<1>2. TypeOK /\ AloneInv /\ WritingInv /\ ServiceFollowsMapping /\ [Next]_vars
          => AloneInv' /\ WritingInv' /\ ServiceFollowsMapping'
  BY AloneStep, WritingStep
<1> QED
  BY <1>1, <1>2, TypeCorrect, PTL DEF Spec
=============================================================================
