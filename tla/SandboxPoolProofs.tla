------------------------- MODULE SandboxPoolProofs -------------------------
(***************************************************************************)
(* What SandboxPool promises for any number of goroutines and sandboxes,   *)
(* any pool sizes and every set of faults.                                 *)
(***************************************************************************)
EXTENDS SandboxPool, FiniteSetTheorems, TLAPS

\* The pool's sets and the locals of maintainPool keep their types; a
\* goroutine that moves or records a sandbox knows which one.
THEOREM TypeCorrect == Spec => []TypeOK
<1>1. Init => TypeOK
  BY DEF Init, TypeOK, Phases, Body
<1>2. TypeOK /\ [Next]_vars => TypeOK'
  <2> SUFFICES ASSUME TypeOK, [Next]_vars PROVE TypeOK'
    OBVIOUS
  <2> USE IdsAssumption, RunsInAssumption, SizeAssumption
          DEF TypeOK, Phases, Body, Goto, Unlock
  <2>0. \A w \in Workers : RunsIn[w] \in Processes
    OBVIOUS
  <2>a. ASSUME NEW w \in Workers, Unlock(w),
               pod' \in [Sandboxes -> Phases], pending' \subseteq Sandboxes,
               UNCHANGED <<ready, given>>
        PROVE  TypeOK'
    BY <2>0, <2>a
  <2>1. ASSUME NEW w \in Workers, Tick(w) \/ GetSandbox(w) \/ GetSandboxError(w)
        PROVE  TypeOK'
    BY <2>1 DEF Tick, GetSandbox, GetSandboxError
  <2>2. ASSUME NEW w \in Workers, TryLock(w) PROVE TypeOK'
    BY <2>0, <2>2 DEF TryLock
  <2>3. ASSUME NEW w \in Workers, CountSandboxes(w) \/ ListError(w) \/ CheckDone(w) PROVE TypeOK'
    BY <2>3 DEF CountSandboxes, ListError, CheckDone
  <2>4. ASSUME NEW w \in Workers, CountError(w) PROVE TypeOK'
    BY <2>0, <2>4 DEF CountError
  <2>5. ASSUME NEW w \in Workers, GetPendingSandboxes(w) PROVE TypeOK'
    BY <2>5 DEF GetPendingSandboxes
  <2>6. ASSUME NEW w \in Workers, NEW s \in Sandboxes, CheckReady(w, s) PROVE TypeOK'
    BY <2>6 DEF CheckReady
  <2>7. ASSUME NEW w \in Workers, RemovePendingSandbox(w) \/ RemovePendingError(w) PROVE TypeOK'
    BY <2>7 DEF RemovePendingSandbox, RemovePendingError
  <2>8. ASSUME NEW w \in Workers, AddReadySandbox(w) \/ AddReadyError(w) PROVE TypeOK'
    BY <2>8 DEF AddReadySandbox, AddReadyError
  <2>9. ASSUME NEW w \in Workers, RecountReady(w) PROVE TypeOK'
    <3>1. Cardinality(ready) \in Nat
      BY FS_Subset, FS_CardinalityType
    <3> QED
      BY <2>9, <3>1 DEF RecountReady
  <2>10. ASSUME NEW w \in Workers, RecountPending(w) PROVE TypeOK'
    <3>1. PICK n \in {Cardinality(pending)} \cup (IF "recount" \in Faults THEN {0} ELSE {}) :
             IF MaxToCreate(count[w], n) = 0
             THEN Unlock(w)
             ELSE /\ budget' = [budget EXCEPT ![w] = MaxToCreate(count[w], n)]
                  /\ pc' = [pc EXCEPT ![w] = "create"]
                  /\ UNCHANGED <<mu, todo, cur, count>>
      BY <2>10 DEF RecountPending
    <3>2. n \in Nat
      BY FS_Subset, FS_CardinalityType
    <3>3. MaxToCreate(count[w], n) \in Nat
      BY <3>2 DEF MaxToCreate
    <3>4. pod' \in [Sandboxes -> Phases] /\ pending' \subseteq Sandboxes
          /\ UNCHANGED <<ready, given>>
      BY <2>10 DEF RecountPending
    <3>5. CASE MaxToCreate(count[w], n) = 0
      <4> HIDE DEF Unlock, TypeOK
      <4> QED
        BY <2>a, <3>1, <3>4, <3>5
    <3>6. CASE MaxToCreate(count[w], n) # 0
      BY <3>1, <3>3, <3>4, <3>6
    <3> QED
      BY <3>5, <3>6
  <2>11. ASSUME NEW w \in Workers, NextCreation(w), budget[w] > 0,
                pod' \in [Sandboxes -> Phases], pending' \subseteq Sandboxes,
                UNCHANGED <<ready, given>>
         PROVE  TypeOK'
    <3>1. CASE budget[w] = 1
      BY <2>a, <2>11, <3>1 DEF NextCreation
    <3>2. CASE budget[w] # 1
      BY <2>11, <3>2 DEF NextCreation
    <3> QED
      BY <3>1, <3>2
  <2>12. ASSUME NEW w \in Workers, NEW s \in Sandboxes, CreatePoolSandbox(w, s) PROVE TypeOK'
    BY <2>12 DEF CreatePoolSandbox
  <2>13. ASSUME NEW w \in Workers, CreateError(w) PROVE TypeOK'
    BY <2>11, <2>13 DEF CreateError
  <2>14. ASSUME NEW w \in Workers, AddPendingSandbox(w) \/ AddPendingError(w) PROVE TypeOK'
    BY <2>11, <2>14 DEF AddPendingSandbox, AddPendingError
  <2>15. ASSUME NEW s \in Sandboxes, PodStarts(s) \/ PodEnds(s) PROVE TypeOK'
    BY <2>15 DEF PodStarts, PodEnds, workVars
  <2>16. ASSUME NEW p \in Processes, Crash(p) PROVE TypeOK'
    BY <2>16 DEF Crash
  <2>17. CASE UNCHANGED vars
    BY <2>17 DEF vars
  <2>18. QED
    <3> HIDE DEF TypeOK, Goto, Unlock
    <3> QED
      BY <2>1, <2>2, <2>3, <2>4, <2>5, <2>6, <2>7, <2>8, <2>9, <2>10, <2>12,
         <2>13, <2>14, <2>15, <2>16, <2>17
         DEF Next, Maintain
<1>3. QED
  BY <1>1, <1>2, PTL DEF Spec

-----------------------------------------------------------------------------
\* One goroutine per process is inside maintainPool, and holds the mutex.
MutexInv ==
    /\ \A w \in Workers : pc[w] \in Body => mu[RunsIn[w]]
    /\ \A v, w \in Workers :
          pc[v] \in Body /\ pc[w] \in Body /\ RunsIn[v] = RunsIn[w] => v = w
    /\ MutexHasHolder

\* TryLock and the deferred Unlock serialise maintainPool in a process.
LEMMA MutexCorrect == Spec => []MutexInv
<1>1. Init => MutexInv
  BY DEF Init, MutexInv, MutexHasHolder, Body
<1>2. TypeOK /\ MutexInv /\ [Next]_vars => MutexInv'
  <2> SUFFICES ASSUME TypeOK, MutexInv, [Next]_vars PROVE MutexInv'
    OBVIOUS
  <2> USE RunsInAssumption DEF TypeOK, MutexInv, MutexHasHolder
  <2>0. \A w \in Workers : RunsIn[w] \in Processes
    OBVIOUS
  <2>1. ASSUME NEW w \in Workers, Unlock(w), pc[w] \in Body PROVE MutexInv'
    BY <2>0, <2>1 DEF Unlock, Body
  <2>2. ASSUME NEW w \in Workers, NEW to, Goto(w, to), to \notin Body, pc[w] \notin Body
        PROVE  MutexInv'
    BY <2>2 DEF Goto
  <2>3. ASSUME NEW w \in Workers, NEW to \in Body, pc[w] \in Body,
               pc' = [pc EXCEPT ![w] = to], UNCHANGED mu
        PROVE  MutexInv'
    BY <2>3
  <2>4. ASSUME NEW w \in Workers, TryLock(w) PROVE MutexInv'
    <3>1. CASE mu[RunsIn[w]]
      <4>1. Goto(w, "idle") /\ "idle" \notin Body /\ pc[w] \notin Body
        BY <2>4, <3>1 DEF TryLock, Body
      <4> QED
        BY <2>2, <4>1
    <3>2. CASE ~mu[RunsIn[w]]
      BY <2>0, <2>4, <3>2 DEF TryLock, Body
    <3> QED
      BY <3>1, <3>2
  <2>5. ASSUME NEW w \in Workers, Tick(w) \/ GetSandbox(w) \/ GetSandboxError(w)
        PROVE  MutexInv'
    BY <2>2, <2>5 DEF Tick, GetSandbox, GetSandboxError, Body
  <2>6. ASSUME NEW w \in Workers, NextCreation(w), pc[w] \in Body PROVE MutexInv'
    <3>1. CASE budget[w] = 1
      BY <2>1, <2>6, <3>1 DEF NextCreation
    <3>2. CASE budget[w] # 1
      <4>1. "create" \in Body /\ pc' = [pc EXCEPT ![w] = "create"] /\ UNCHANGED mu
        BY <2>6, <3>2 DEF NextCreation, Body
      <4> QED
        BY <2>3, <2>6, <4>1
    <3> QED
      BY <3>1, <3>2
  <2>7. ASSUME NEW w \in Workers, RecountPending(w) PROVE MutexInv'
    <3>1. pc[w] \in Body
      BY <2>7 DEF RecountPending, Body
    <3>2. CASE Unlock(w)
      BY <2>1, <3>1, <3>2
    <3>3. CASE pc' = [pc EXCEPT ![w] = "create"] /\ UNCHANGED mu
      BY <2>3, <3>1, <3>3 DEF Body
    <3> QED
      BY <2>7, <3>2, <3>3 DEF RecountPending
  <2>8. ASSUME NEW w \in Workers,
               \/ CountSandboxes(w) \/ GetPendingSandboxes(w) \/ ListError(w)
               \/ CheckDone(w)
               \/ RemovePendingSandbox(w) \/ RemovePendingError(w)
               \/ AddReadySandbox(w) \/ AddReadyError(w) \/ RecountReady(w)
               \/ \E s \in Sandboxes : CheckReady(w, s) \/ CreatePoolSandbox(w, s)
        PROVE  MutexInv'
    <3>1. pc[w] \in Body /\ UNCHANGED mu
      BY <2>8 DEF CountSandboxes, GetPendingSandboxes, ListError, CheckDone,
         RemovePendingSandbox, RemovePendingError, AddReadySandbox, AddReadyError,
         RecountReady, CheckReady, CreatePoolSandbox, Goto, Body
    <3>2. \E to \in Body : pc' = [pc EXCEPT ![w] = to]
      <4>1. pc = [pc EXCEPT ![w] = pc[w]]
        OBVIOUS
      <4>2. CASE \E s \in Sandboxes : CheckReady(w, s)
        BY <4>1, <4>2 DEF CheckReady, Body
      <4>3. CASE \E s \in Sandboxes : CreatePoolSandbox(w, s)
        BY <4>3 DEF CreatePoolSandbox, Body
      <4> QED
        BY <2>8, <4>2, <4>3 DEF CountSandboxes, GetPendingSandboxes, ListError, CheckDone,
           RemovePendingSandbox, RemovePendingError, AddReadySandbox, AddReadyError,
           RecountReady, Goto, Body
    <3> QED
      BY <2>3, <3>1, <3>2
  <2>9. ASSUME NEW w \in Workers, CountError(w) PROVE MutexInv'
    BY <2>1, <2>9 DEF CountError, Body
  <2>10. ASSUME NEW w \in Workers,
                CreateError(w) \/ AddPendingSandbox(w) \/ AddPendingError(w)
         PROVE  MutexInv'
    BY <2>6, <2>10 DEF CreateError, AddPendingSandbox, AddPendingError, Body
  <2>11. ASSUME NEW p \in Processes, Crash(p) PROVE MutexInv'
    BY <2>0, <2>11 DEF Crash, Body
  <2>12. ASSUME UNCHANGED <<mu, pc>> PROVE MutexInv'
    BY <2>12
  <2>13. QED
    <3> HIDE DEF TypeOK, MutexInv
    <3> QED
      BY <2>4, <2>5, <2>7, <2>8, <2>9, <2>10, <2>11, <2>12
         DEF Next, Maintain, PodStarts, PodEnds, vars, workVars
<1>3. QED
  BY <1>1, <1>2, TypeCorrect, PTL DEF Spec

\* A mutex that is held is held by a goroutine still inside maintainPool.
THEOREM MutexNeverLeaks == Spec => []MutexHasHolder
<1>1. MutexInv => MutexHasHolder
  BY DEF MutexInv
<1>2. QED
  BY <1>1, MutexCorrect, PTL

\* The pool loses track of a sandbox only in a step that reports an error or
\* in a crash.
THEOREM SandboxesAccounted == Spec => PoolAccounted
<1> DEFINE Kept(s) == pod'[s] # "none" /\ (Accounted(s) \/ pod[s] = "none")
                         => Accounted(s)' \/ FaultStep
<1>1. TypeOK /\ [Next]_vars => [\A s \in Sandboxes : Kept(s)]_vars
  <2> SUFFICES ASSUME TypeOK, Next, NEW s \in Sandboxes,
                      pod'[s] # "none", Accounted(s) \/ pod[s] = "none", ~FaultStep
               PROVE  Accounted(s)'
    BY DEF Kept
  <2> USE DEF TypeOK
  <2>1. ASSUME NEW w \in Workers, pc[w] \notin {"addready", "addpending"},
               \A v \in Workers \ {w} : pc'[v] = pc[v] /\ cur'[v] = cur[v],
               ready \cup pending \cup given \subseteq ready' \cup pending' \cup given',
               pod' = pod,
               pod[s] # "none"
        PROVE  Accounted(s)'
    BY <2>1 DEF Accounted
  <2>2. ASSUME NEW w \in Workers,
               \/ Tick(w) \/ GetSandbox(w) \/ TryLock(w) \/ CountSandboxes(w)
               \/ CountError(w) \/ GetPendingSandboxes(w) \/ ListError(w)
               \/ (\E x \in Sandboxes : CheckReady(w, x)) \/ CheckDone(w)
               \/ RecountReady(w) \/ RecountPending(w)
        PROVE  Accounted(s)'
    <3>1. pc[w] \notin {"addready", "addpending"} /\ pod' = pod
      BY <2>2 DEF Tick, GetSandbox, TryLock, CountSandboxes, CountError,
         GetPendingSandboxes, ListError, CheckReady, CheckDone, RecountReady, RecountPending
    <3>2. \A v \in Workers \ {w} : pc'[v] = pc[v] /\ cur'[v] = cur[v]
      BY <2>2 DEF Tick, GetSandbox, TryLock, CountSandboxes, CountError,
         GetPendingSandboxes, ListError, CheckReady, CheckDone, RecountReady,
         RecountPending, Goto, Unlock
    <3>3. ready \cup pending \cup given \subseteq ready' \cup pending' \cup given'
      BY <2>2 DEF Tick, GetSandbox, TryLock, CountSandboxes, CountError,
         GetPendingSandboxes, ListError, CheckReady, CheckDone, RecountReady, RecountPending
    <3> QED
      BY <2>1, <3>1, <3>2, <3>3
  <2>3. ASSUME NEW w \in Workers, RemovePendingSandbox(w) PROVE Accounted(s)'
    BY <2>3 DEF RemovePendingSandbox, Goto, Accounted
  <2>4. ASSUME NEW w \in Workers, AddReadySandbox(w) PROVE Accounted(s)'
    BY <2>4 DEF AddReadySandbox, Goto, Accounted
  <2>5. ASSUME NEW w \in Workers, NEW x \in Sandboxes, CreatePoolSandbox(w, x)
        PROVE  Accounted(s)'
    BY <2>5 DEF CreatePoolSandbox, Accounted
  <2>6. ASSUME NEW w \in Workers, AddPendingSandbox(w) PROVE Accounted(s)'
    <3>1. pc[w] = "addpending" /\ pending' = pending \cup {cur[w]}
          /\ ready' = ready /\ given' = given /\ pod' = pod
      BY <2>6 DEF AddPendingSandbox
    <3>2. \A v \in Workers \ {w} : pc'[v] = pc[v] /\ cur'[v] = cur[v]
      BY <2>6 DEF AddPendingSandbox, NextCreation, Unlock
    <3> QED
      BY <3>1, <3>2 DEF Accounted
  <2>7. ASSUME NEW x \in Sandboxes, PodStarts(x) \/ PodEnds(x) PROVE Accounted(s)'
    <3>1. pod[s] # "none"
      BY <2>7 DEF PodStarts, PodEnds
    <3> QED
      BY <2>7, <3>1 DEF PodStarts, PodEnds, workVars, Accounted
  <2>8. QED
    <3> HIDE DEF TypeOK
    <3> QED
      BY <2>2, <2>3, <2>4, <2>5, <2>6, <2>7 DEF Next, Maintain, FaultStep
<1>2. QED
  BY <1>1, TypeCorrect, PTL DEF Spec, PoolAccounted

-----------------------------------------------------------------------------
\* Where a sandbox is while maintainPool moves it, in one process: listed
\* sandboxes stay pending until this goroutine removes them, and the one in
\* its hands is in no set and was never handed out.
MoveInv ==
    /\ ready \cap pending = {}
    /\ ready \cap given = {}
    /\ pending \cap given = {}
    /\ Fresh \cap (ready \cup pending \cup given) = {}
    /\ \A w \in Workers :
          /\ pc[w] \in {"check", "unpend", "addready"} => todo[w] \subseteq pending
          /\ pc[w] = "unpend" => cur[w] \in pending \ todo[w]
          /\ pc[w] \in {"addready", "addpending"} =>
                cur[w] \notin ready \cup pending \cup given \cup Fresh

\* What is left of PoolSize and PoolMaxPending at each point of a
\* maintenance run; hand-outs only make more room.
RoomInv ==
    /\ Cardinality(ready) + Cardinality(pending) <= PoolSize
    /\ Cardinality(pending) <= PoolMaxPending
    /\ \A w \in Workers :
          /\ pc[w] = "addready" => Cardinality(ready) + Cardinality(pending) + 1 <= PoolSize
          /\ pc[w] = "recountPending" => Cardinality(ready) <= count[w]
          /\ pc[w] \in {"create", "addpending"} =>
                /\ Cardinality(ready) + Cardinality(pending) + budget[w] <= PoolSize
                /\ Cardinality(pending) + budget[w] <= PoolMaxPending

\* With one process, a goroutine in maintainPool is the only one.
LEMMA AloneInBody ==
    ASSUME SingleProcess, MutexInv, NEW w \in Workers, pc[w] \in Body
    PROVE  \A v \in Workers \ {w} : pc[v] \notin Body
  BY DEF SingleProcess, MutexInv

\* With one process maintaining the pool, MoveInv holds throughout.
LEMMA MoveCorrect == Spec => [](SingleProcess => MoveInv)
<1>1. Init => MoveInv
  BY DEF Init, MoveInv
<1>2. TypeOK /\ MutexInv /\ SingleProcess /\ MoveInv /\ [Next]_vars => MoveInv'
  <2> SUFFICES ASSUME TypeOK, MutexInv, SingleProcess, MoveInv, [Next]_vars
               PROVE  MoveInv'
    OBVIOUS
  <2>0. \A w \in Workers : pc[w] \in Body => \A v \in Workers \ {w} : pc[v] \notin Body
    BY AloneInBody
  <2> USE IdsAssumption DEF TypeOK, MoveInv, Body, Fresh
  <2>1. ASSUME NEW w \in Workers, Unlock(w), pc[w] \in Body,
               UNCHANGED <<ready, pending, pod, given>>
        PROVE  MoveInv'
    BY <2>1 DEF Unlock
  <2>2. ASSUME NEW w \in Workers, NEW to \in {"idle", "lock", "count", "list", "recount"},
               Goto(w, to), UNCHANGED <<ready, pending, pod, given>>
        PROVE  MoveInv'
    BY <2>2 DEF Goto
  <2>3. ASSUME NEW w \in Workers, GetSandbox(w) \/ GetSandboxError(w) PROVE MoveInv'
    BY <2>3 DEF GetSandbox, GetSandboxError, Goto
  <2>4. ASSUME NEW w \in Workers, TryLock(w) PROVE MoveInv'
    BY <2>4 DEF TryLock, Goto
  <2>5. ASSUME NEW w \in Workers, GetPendingSandboxes(w) PROVE MoveInv'
    BY <2>5 DEF GetPendingSandboxes
  <2>6. ASSUME NEW w \in Workers, NEW s \in Sandboxes, CheckReady(w, s) PROVE MoveInv'
    BY <2>6 DEF CheckReady
  <2>7. ASSUME NEW w \in Workers, RemovePendingSandbox(w) PROVE MoveInv'
    BY <2>0, <2>7 DEF RemovePendingSandbox, Goto
  <2>8. ASSUME NEW w \in Workers, RemovePendingError(w) PROVE MoveInv'
    BY <2>0, <2>8 DEF RemovePendingError, Goto
  <2>9. ASSUME NEW w \in Workers, AddReadySandbox(w) \/ AddReadyError(w) PROVE MoveInv'
    BY <2>0, <2>9 DEF AddReadySandbox, AddReadyError, Goto
  <2>10. ASSUME NEW w \in Workers, RecountReady(w) PROVE MoveInv'
    BY <2>10 DEF RecountReady
  <2>11. ASSUME NEW w \in Workers, RecountPending(w) PROVE MoveInv'
    <3>1. UNCHANGED <<ready, pending, pod, given>> /\ pc[w] \in Body
      BY <2>11 DEF RecountPending
    <3>2. CASE Unlock(w)
      BY <2>1, <3>1, <3>2
    <3>3. CASE pc' = [pc EXCEPT ![w] = "create"] /\ UNCHANGED <<todo, cur>>
      BY <3>1, <3>3
    <3> QED
      BY <2>11, <3>2, <3>3 DEF RecountPending
  <2>12. ASSUME NEW w \in Workers, NEW s \in Sandboxes, CreatePoolSandbox(w, s) PROVE MoveInv'
    BY <2>0, <2>12 DEF CreatePoolSandbox
  <2>13. ASSUME NEW w \in Workers, NextCreation(w), pc[w] \in {"create", "addpending"}
         PROVE  \A v \in Workers :
                   pc'[v] \notin {"check", "unpend", "addready", "addpending"}
    BY <2>0, <2>13 DEF NextCreation, Unlock
  <2>14. ASSUME NEW w \in Workers, CreateError(w) PROVE MoveInv'
    <3>1. NextCreation(w) /\ pc[w] \in {"create", "addpending"}
      BY <2>14 DEF CreateError
    <3>2. \A s \in Sandboxes : pod[s] # "none" => pod'[s] # "none"
      BY <2>14 DEF CreateError
    <3>3. UNCHANGED <<ready, pending, given>>
      BY <2>14 DEF CreateError
    <3> QED
      BY <2>13, <3>1, <3>2, <3>3
  <2>15. ASSUME NEW w \in Workers, AddPendingSandbox(w) \/ AddPendingError(w) PROVE MoveInv'
    <3>1. NextCreation(w) /\ pc[w] = "addpending"
      BY <2>15 DEF AddPendingSandbox, AddPendingError
    <3>2. UNCHANGED <<ready, pod, given>> /\ pending' \in {pending, pending \cup {cur[w]}}
      BY <2>15 DEF AddPendingSandbox, AddPendingError
    <3> QED
      BY <2>13, <3>1, <3>2
  <2>16. ASSUME NEW s \in Sandboxes, PodStarts(s) \/ PodEnds(s) PROVE MoveInv'
    <3>1. UNCHANGED <<ready, pending, given, pc, todo, cur>>
      BY <2>16 DEF PodStarts, PodEnds, workVars
    <3>2. \A t \in Sandboxes : pod[t] # "none" => pod'[t] # "none"
      BY <2>16 DEF PodStarts, PodEnds
    <3> QED
      BY <3>1, <3>2
  <2>17. ASSUME NEW p \in Processes, Crash(p) PROVE MoveInv'
    BY <2>17 DEF Crash
  <2>18. ASSUME UNCHANGED vars PROVE MoveInv'
    BY <2>18 DEF vars
  <2>19. ASSUME NEW w \in Workers,
                \/ Tick(w) \/ CountSandboxes(w) \/ CountError(w) \/ ListError(w)
                \/ CheckDone(w)
         PROVE  MoveInv'
    BY <2>1, <2>2, <2>19 DEF Tick, CountSandboxes, CountError, ListError, CheckDone
  <2>20. QED
    <3> HIDE DEF TypeOK, MoveInv
    <3> QED
      BY <2>3, <2>4, <2>5, <2>6, <2>7, <2>8, <2>9, <2>10, <2>11, <2>12, <2>14,
         <2>15, <2>16, <2>17, <2>18, <2>19
         DEF Next, Maintain
<1>3. TypeOK /\ MutexInv /\ (SingleProcess => MoveInv) /\ [Next]_vars
      => (SingleProcess => MoveInv)'
  BY <1>2 DEF SingleProcess
<1>4. QED
  BY <1>1, <1>3, TypeCorrect, MutexCorrect, PTL DEF Spec

\* One process never hands a sandbox out twice.
THEOREM NoSandboxHandedOutTwice == Spec => []HandedOutOnce
<1>1. (SingleProcess => MoveInv) => HandedOutOnce
  BY DEF MoveInv, HandedOutOnce
<1>2. QED
  BY <1>1, MoveCorrect, PTL

\* One process never lists a sandbox as both pending and ready.
THEOREM PoolSetsDisjoint == Spec => []PoolDisjoint
<1>1. (SingleProcess => MoveInv) => PoolDisjoint
  BY DEF MoveInv, PoolDisjoint
<1>2. QED
  BY <1>1, MoveCorrect, PTL

-----------------------------------------------------------------------------
\* What adding to or removing from a Redis set does to its ZCARD.
LEMMA CardinalityStep ==
    ASSUME NEW S, S \subseteq Sandboxes, NEW x
    PROVE  /\ Cardinality(S) \in Nat
           /\ Cardinality(S \cup {x}) \in Nat
           /\ Cardinality(S \cup {x}) <= Cardinality(S) + 1
           /\ Cardinality(S \ {x}) \in Nat
           /\ Cardinality(S \ {x}) <= Cardinality(S)
           /\ x \in S => Cardinality(S \ {x}) = Cardinality(S) - 1
<1>1. IsFiniteSet(S)
  BY IdsAssumption, FS_Subset
<1>2. /\ Cardinality(S) \in Nat
      /\ Cardinality(S \cup {x}) \in Nat
      /\ Cardinality(S \ {x}) \in Nat
  BY <1>1, FS_AddElement, FS_RemoveElement, FS_CardinalityType
<1>3. Cardinality(S \cup {x}) = IF x \in S THEN Cardinality(S) ELSE Cardinality(S) + 1
  BY <1>1, FS_AddElement
<1>4. Cardinality(S \ {x}) = IF x \in S THEN Cardinality(S) - 1 ELSE Cardinality(S)
  BY <1>1, FS_RemoveElement
<1>5. QED
  BY <1>2, <1>3, <1>4

\* A maintenance run creates no more than the room it measured, and the room
\* only grows until it is used.
LEMMA RoomCorrect ==
    Spec => [](SingleProcess /\ "recount" \notin Faults => RoomInv)
<1>1. Init => RoomInv
  BY FS_EmptySet, SizeAssumption DEF Init, RoomInv
<1>2. TypeOK /\ MutexInv /\ MoveInv /\ SingleProcess /\ "recount" \notin Faults
      /\ RoomInv /\ [Next]_vars => RoomInv'
  <2> SUFFICES ASSUME TypeOK, MutexInv, MoveInv, SingleProcess, "recount" \notin Faults,
                      RoomInv, [Next]_vars
               PROVE  RoomInv'
    OBVIOUS
  <2>0. \A w \in Workers : pc[w] \in Body => \A v \in Workers \ {w} : pc[v] \notin Body
    BY AloneInBody
  <2>a. /\ ready \subseteq Sandboxes /\ pending \subseteq Sandboxes
        /\ Cardinality(ready) \in Nat /\ Cardinality(pending) \in Nat
    BY CardinalityStep DEF TypeOK
  <2> USE <2>a, SizeAssumption DEF TypeOK, RoomInv, Body
  <2>1. ASSUME NEW w \in Workers, Unlock(w), UNCHANGED <<ready, pending>>
        PROVE  RoomInv'
    BY <2>1 DEF Unlock
  <2>2. ASSUME NEW w \in Workers, NEW to \in {"idle", "lock", "list", "recount"},
               Goto(w, to), UNCHANGED <<ready, pending>>
        PROVE  RoomInv'
    BY <2>2 DEF Goto
  <2>3. ASSUME NEW w \in Workers, GetSandbox(w) \/ GetSandboxError(w) PROVE RoomInv'
    <3>1. ready' = ready \/ \E x : ready' = ready \ {x}
      BY <2>3 DEF GetSandbox, GetSandboxError
    <3>a. \A x : /\ Cardinality(ready \ {x}) \in Nat
                /\ Cardinality(ready \ {x}) <= Cardinality(ready)
      BY <2>a, CardinalityStep
    <3>2. pending' = pending /\ Goto(w, "lock")
      BY <2>3 DEF GetSandbox, GetSandboxError
    <3>3. Cardinality(ready') \in Nat /\ Cardinality(ready') <= Cardinality(ready)
      <4>1. CASE ready' = ready
        BY <4>1
      <4>2. CASE \E x : ready' = ready \ {x}
        <5>1. PICK x : ready' = ready \ {x}
          BY <4>2
        <5>2. Cardinality(ready') = Cardinality(ready \ {x})
          BY <5>1
        <5> QED
          BY <3>a, <5>2
      <4> QED
        BY <3>1, <4>1, <4>2
    <3> QED
      BY <3>2, <3>3 DEF Goto
  <2>4. ASSUME NEW w \in Workers, TryLock(w) PROVE RoomInv'
    BY <2>4 DEF TryLock, Goto
  <2>5. ASSUME NEW w \in Workers,
               GetPendingSandboxes(w) \/ \E s \in Sandboxes : CheckReady(w, s)
        PROVE  RoomInv'
    BY <2>5 DEF GetPendingSandboxes, CheckReady
  <2>6. ASSUME NEW w \in Workers, RemovePendingSandbox(w) PROVE RoomInv'
    <3>1. cur[w] \in pending
      BY <2>6 DEF RemovePendingSandbox, MoveInv
    <3>2. pending' = pending \ {cur[w]} /\ pc[w] = "unpend"
          /\ ready' = ready /\ Goto(w, "addready")
      BY <2>6 DEF RemovePendingSandbox
    <3>3. Cardinality(pending') = Cardinality(pending) - 1
      BY <3>1, <3>2, CardinalityStep
    <3>4. \A v \in Workers \ {w} : pc[v] \notin Body
      BY <2>0, <3>2
    <3>5. /\ Cardinality(ready') = Cardinality(ready)
          /\ Cardinality(pending') \in Nat
          /\ Cardinality(pending') <= Cardinality(pending)
          /\ Cardinality(ready') + Cardinality(pending') + 1 <= PoolSize
      <4>1. Cardinality(pending \ {cur[w]}) \in Nat
        BY <2>a, CardinalityStep
      <4>2. Cardinality(pending') \in Nat
        BY <3>2, <4>1
      <4> QED
        BY <3>2, <3>3, <4>2
    <3>6. pc' = [pc EXCEPT ![w] = "addready"] /\ UNCHANGED <<count, budget>>
      BY <3>2 DEF Goto
    <3>7. \A v \in Workers \ {w} : pc'[v] \notin Body
      BY <3>4, <3>6
    <3> QED
      BY <3>5, <3>6, <3>7
  <2>7. ASSUME NEW w \in Workers, RemovePendingError(w) PROVE RoomInv'
    <3>1. pending' \in {pending, pending \ {cur[w]}} /\ pc[w] = "unpend"
          /\ ready' = ready /\ Goto(w, "check")
      BY <2>7 DEF RemovePendingError
    <3>2. Cardinality(pending') \in Nat /\ Cardinality(pending') <= Cardinality(pending)
      <4>1. /\ Cardinality(pending \ {cur[w]}) \in Nat
            /\ Cardinality(pending \ {cur[w]}) <= Cardinality(pending)
        BY <2>a, CardinalityStep
      <4>2. Cardinality(pending') \in {Cardinality(pending), Cardinality(pending \ {cur[w]})}
        BY <3>1
      <4> QED
        BY <4>1, <4>2
    <3>3. \A v \in Workers \ {w} : pc[v] \notin Body
      BY <2>0, <3>1
    <3> QED
      BY <3>1, <3>2, <3>3 DEF Goto
  <2>8. ASSUME NEW w \in Workers, AddReadySandbox(w) \/ AddReadyError(w) PROVE RoomInv'
    <3>0. ready' \in {ready, ready \cup {cur[w]}}
      BY <2>8 DEF AddReadySandbox, AddReadyError
    <3>1. Cardinality(ready') \in Nat /\ Cardinality(ready') <= Cardinality(ready) + 1
      <4>1. /\ Cardinality(ready \cup {cur[w]}) \in Nat
            /\ Cardinality(ready \cup {cur[w]}) <= Cardinality(ready) + 1
        BY <2>a, CardinalityStep
      <4>2. Cardinality(ready') \in {Cardinality(ready), Cardinality(ready \cup {cur[w]})}
        BY <3>0
      <4> QED
        BY <4>1, <4>2
    <3>2. pc[w] = "addready" /\ Goto(w, "check") /\ pending' = pending
      BY <2>8 DEF AddReadySandbox, AddReadyError
    <3> QED
      BY <2>0, <3>1, <3>2 DEF Goto
  <2>9. ASSUME NEW w \in Workers, RecountReady(w) PROVE RoomInv'
    BY <2>0, <2>9 DEF RecountReady
  <2>10. ASSUME NEW w \in Workers, RecountPending(w) PROVE RoomInv'
    <3> DEFINE create == MaxToCreate(count[w], Cardinality(pending))
    <3>1. IF create = 0
          THEN Unlock(w)
          ELSE /\ budget' = [budget EXCEPT ![w] = create]
               /\ pc' = [pc EXCEPT ![w] = "create"]
               /\ UNCHANGED <<mu, todo, cur, count>>
      BY <2>10 DEF RecountPending
    <3>2. UNCHANGED <<ready, pending>> /\ Cardinality(ready) <= count[w]
      BY <2>10 DEF RecountPending
    <3>3. create # 0 => /\ create \in Nat
                        /\ count[w] + Cardinality(pending) + create <= PoolSize
                        /\ Cardinality(pending) + create <= PoolMaxPending
      BY DEF MaxToCreate
    <3> HIDE DEF create
    <3>4. CASE create = 0
      BY <2>1, <3>1, <3>2, <3>4
    <3>5. CASE create # 0
      BY <2>0, <2>10, <3>1, <3>2, <3>3, <3>5
    <3> QED
      BY <3>4, <3>5
  <2>11. ASSUME NEW w \in Workers, NEW s \in Sandboxes, CreatePoolSandbox(w, s) PROVE RoomInv'
    BY <2>11 DEF CreatePoolSandbox
  <2>12. ASSUME NEW w \in Workers, pc[w] \in {"create", "addpending"}, NextCreation(w),
                ready' = ready, Cardinality(pending') \in Nat,
                Cardinality(pending') <= Cardinality(pending) + 1
         PROVE  RoomInv'
    <3>1. /\ Cardinality(ready) + Cardinality(pending') + (budget[w] - 1) <= PoolSize
          /\ Cardinality(pending') + (budget[w] - 1) <= PoolMaxPending
      BY <2>12
    <3>2. CASE budget[w] = 1
      BY <2>0, <2>12, <3>1, <3>2 DEF NextCreation, Unlock
    <3>3. CASE budget[w] # 1
      BY <2>0, <2>12, <3>1, <3>3 DEF NextCreation
    <3> QED
      BY <3>2, <3>3
  <2>13. ASSUME NEW w \in Workers, CreateError(w) PROVE RoomInv'
    BY <2>12, <2>13 DEF CreateError
  <2>14. ASSUME NEW w \in Workers, AddPendingSandbox(w) \/ AddPendingError(w) PROVE RoomInv'
    <3>1. pending' \in {pending, pending \cup {cur[w]}} /\ pc[w] = "addpending"
          /\ ready' = ready /\ NextCreation(w)
      BY <2>14 DEF AddPendingSandbox, AddPendingError
    <3>2. Cardinality(pending') \in Nat /\ Cardinality(pending') <= Cardinality(pending) + 1
      <4>1. /\ Cardinality(pending \cup {cur[w]}) \in Nat
            /\ Cardinality(pending \cup {cur[w]}) <= Cardinality(pending) + 1
        BY <2>a, CardinalityStep
      <4>2. Cardinality(pending') \in {Cardinality(pending), Cardinality(pending \cup {cur[w]})}
        BY <3>1
      <4> QED
        BY <4>1, <4>2
    <3> QED
      BY <2>12, <3>1, <3>2
  <2>15. ASSUME NEW p \in Processes, Crash(p) PROVE RoomInv'
    BY <2>15 DEF Crash
  <2>16. ASSUME UNCHANGED <<ready, pending, workVars>> PROVE RoomInv'
    BY <2>16 DEF workVars
  <2>17. ASSUME NEW w \in Workers,
                \/ Tick(w) \/ CountSandboxes(w) \/ CountError(w) \/ ListError(w)
                \/ CheckDone(w)
         PROVE  RoomInv'
    BY <2>1, <2>2, <2>17 DEF Tick, CountSandboxes, CountError, ListError, CheckDone
  <2>18. QED
    <3> HIDE <2>a DEF TypeOK, RoomInv
    <3> QED
      BY <2>3, <2>4, <2>5, <2>6, <2>7, <2>8, <2>9, <2>10, <2>11, <2>13, <2>14,
         <2>15, <2>16, <2>17
         DEF Next, Maintain, PodStarts, PodEnds, vars, workVars
<1>3. TypeOK /\ MutexInv /\ (SingleProcess => MoveInv) /\ [Next]_vars
      /\ (SingleProcess /\ "recount" \notin Faults => RoomInv)
      => (SingleProcess /\ "recount" \notin Faults => RoomInv)'
  BY <1>2 DEF SingleProcess
<1>4. QED
  BY <1>1, <1>3, TypeCorrect, MutexCorrect, MoveCorrect, PTL DEF Spec

\* The pool stays within PoolSize and PoolMaxPending, if one process
\* maintains it and the recount does not fail.
THEOREM PoolStaysWithinBounds == Spec => []PoolBound
<1>1. (SingleProcess /\ "recount" \notin Faults => RoomInv) => PoolBound
  BY DEF RoomInv, PoolBound
<1>2. QED
  BY <1>1, RoomCorrect, PTL

-----------------------------------------------------------------------------
(* The life of a sandbox                                                    *)

\* The pool of SandboxLife.
Pooled == ready \cup pending \cup InHand

\* With one process, each step provisions, assigns or retires sandboxes.
LEMMA LifeStep ==
    ASSUME TypeOK, MutexInv, SingleProcess, MoveInv, [Next]_vars
    PROVE  [Life!Next]_(Life!vars)
<1>0. \A w \in Workers : pc[w] \in Body => \A v \in Workers \ {w} : pc[v] \notin Body
  BY AloneInBody
<1>h. /\ \A s : s \in InHand <=>
                 \E w \in Workers : cur[w] = s /\ pc[w] \in {"addready", "addpending"}
      /\ \A s : s \in InHand' <=>
                 \E w \in Workers : cur'[w] = s /\ pc'[w] \in {"addready", "addpending"}
  BY DEF InHand
<1>r. ASSUME Fresh' \subseteq Fresh, Pooled' \subseteq Pooled, given' = given
      PROVE  Life!Next
  BY <1>r DEF Life!Next, Life!Retire, Pooled
\* A goroutine takes nothing into its hands and gives up what it had.
<1>s. ASSUME NEW w \in Workers, given' = given, Fresh' \subseteq Fresh,
             ready' \subseteq ready, pending' \subseteq pending,
             \A v \in Workers \ {w} : pc'[v] = pc[v] /\ cur'[v] = cur[v],
             pc'[w] \notin {"addready", "addpending"}
      PROVE  Life!Next
  <2>1. Pooled' \subseteq Pooled
    BY <1>h, <1>s DEF Pooled
  <2> QED
    BY <1>r, <1>s, <2>1
<1>1. ASSUME NEW w \in Workers,
             \/ Tick(w) \/ GetSandboxError(w) \/ TryLock(w) \/ CountSandboxes(w)
             \/ CountError(w) \/ GetPendingSandboxes(w) \/ ListError(w)
             \/ (\E s \in Sandboxes : CheckReady(w, s)) \/ CheckDone(w)
             \/ RemovePendingError(w) \/ RecountReady(w) \/ RecountPending(w)
      PROVE  Life!Next
  <2>1. given' = given /\ pod' = pod /\ ready' \subseteq ready /\ pending' \subseteq pending
    BY <1>1 DEF Tick, GetSandboxError, TryLock, CountSandboxes, CountError,
       GetPendingSandboxes, ListError, CheckReady, CheckDone, RemovePendingError,
       RecountReady, RecountPending
  <2>2. /\ \A v \in Workers \ {w} : pc'[v] = pc[v] /\ cur'[v] = cur[v]
        /\ pc'[w] \notin {"addready", "addpending"}
    BY <1>1 DEF Tick, GetSandboxError, TryLock, CountSandboxes, CountError,
       GetPendingSandboxes, ListError, CheckReady, CheckDone, RemovePendingError,
       RecountReady, RecountPending, Goto, Unlock, TypeOK
  <2>3. Fresh' = Fresh
    BY <2>1 DEF Fresh
  <2> QED
    BY <1>s, <2>1, <2>2, <2>3
<1>2. ASSUME NEW w \in Workers, GetSandbox(w) PROVE Life!Next
  <2>1. CASE given' = given /\ ready' = ready
    <3>1. /\ \A v \in Workers \ {w} : pc'[v] = pc[v] /\ cur'[v] = cur[v]
          /\ pc'[w] \notin {"addready", "addpending"} /\ pending' = pending /\ pod' = pod
      BY <1>2 DEF GetSandbox, Goto, TypeOK
    <3>2. Fresh' = Fresh
      BY <3>1 DEF Fresh
    <3> QED
      BY <1>s, <2>1, <3>1, <3>2
  <2>2. CASE \E s \in ready : ready' = ready \ {s} /\ given' = given \cup {s}
    <3>1. PICK s \in ready : ready' = ready \ {s} /\ given' = given \cup {s}
      BY <2>2
    <3>2. /\ pc[w] = "idle" /\ pc'[w] = "lock" /\ cur' = cur /\ pending' = pending /\ pod' = pod
          /\ \A v \in Workers \ {w} : pc'[v] = pc[v]
      BY <1>2 DEF GetSandbox, Goto, TypeOK
    <3>3. InHand' = InHand
      BY <1>h, <3>2
    <3>4. s \in Sandboxes /\ s \notin pending \cup InHand \cup Fresh
      BY <1>h DEF TypeOK, MoveInv
    <3>5. Pooled' = Pooled \ {s} /\ Fresh' = Fresh \ {s} /\ s \in Pooled
      BY <3>1, <3>2, <3>3, <3>4 DEF Pooled, Fresh
    <3>6. ({"caller"} \X given)' = ({"caller"} \X given) \cup {<<"caller", s>>}
      BY <3>1
    <3>7. Life!Assign(s, "caller")
      BY <3>5, <3>6 DEF Life!Assign, Pooled
    <3> QED
      BY <3>4, <3>7 DEF Life!Next
  <2> QED
    BY <1>2, <2>1, <2>2 DEF GetSandbox
\* The moves: out of pending into the hands, out of the hands into a set.
<1>3. ASSUME NEW w \in Workers, RemovePendingSandbox(w) PROVE Life!Next
  <2>1. /\ pc[w] = "unpend" /\ pending' = pending \ {cur[w]}
        /\ UNCHANGED <<ready, pod, given, cur>>
        /\ pc' = [pc EXCEPT ![w] = "addready"]
    BY <1>3 DEF RemovePendingSandbox, Goto
  <2>2. cur[w] \in pending
    BY <2>1 DEF MoveInv
  <2>3. InHand' \subseteq InHand \cup {cur[w]}
    BY <1>h, <2>1 DEF TypeOK
  <2>4. Pooled' \subseteq Pooled /\ Fresh' = Fresh
    BY <2>1, <2>2, <2>3 DEF Pooled, Fresh
  <2> QED
    BY <1>r, <2>1, <2>4
<1>4. ASSUME NEW w \in Workers,
             \/ AddReadySandbox(w) \/ AddReadyError(w)
             \/ AddPendingSandbox(w) \/ AddPendingError(w)
      PROVE  Life!Next
  <2>1. /\ pc[w] \in {"addready", "addpending"} /\ UNCHANGED <<pod, given>>
        /\ ready' \subseteq ready \cup {cur[w]} /\ pending' \subseteq pending \cup {cur[w]}
    BY <1>4 DEF AddReadySandbox, AddReadyError, AddPendingSandbox, AddPendingError
  <2>2. /\ \A v \in Workers \ {w} : pc'[v] = pc[v] /\ cur'[v] = cur[v]
        /\ pc'[w] \notin {"addready", "addpending"}
    BY <1>4 DEF AddReadySandbox, AddReadyError, AddPendingSandbox, AddPendingError,
       NextCreation, Goto, Unlock, TypeOK
  <2>3. cur[w] \in InHand /\ InHand' \subseteq InHand
    BY <1>h, <2>1, <2>2
  <2>4. Pooled' \subseteq Pooled /\ Fresh' = Fresh
    BY <2>1, <2>3 DEF Pooled, Fresh
  <2> QED
    BY <1>r, <2>1, <2>4
<1>5. ASSUME NEW w \in Workers, NEW s \in Sandboxes, CreatePoolSandbox(w, s) PROVE Life!Next
  <2>1. /\ pc[w] = "create" /\ s \in Fresh /\ pod' = [pod EXCEPT ![s] = "starting"]
        /\ UNCHANGED <<ready, pending, given>>
        /\ pc'[w] = "addpending" /\ cur'[w] = s
        /\ \A v \in Workers \ {w} : pc'[v] = pc[v] /\ cur'[v] = cur[v]
    BY <1>5 DEF CreatePoolSandbox, TypeOK
  <2>2. InHand' = InHand \cup {s}
    BY <1>h, <2>1
  <2>3. Pooled' = Pooled \cup {s} /\ Fresh' = Fresh \ {s}
    BY <2>1, <2>2 DEF Pooled, Fresh, TypeOK
  <2>4. Life!Provision(s)
    BY <2>1, <2>3 DEF Life!Provision, Pooled
  <2> QED
    BY <2>4 DEF Life!Next
<1>6. ASSUME NEW w \in Workers, CreateError(w) PROVE Life!Next
  <2>1. /\ UNCHANGED <<ready, pending, given>> /\ Fresh' \subseteq Fresh
        /\ pc[w] = "create"
    BY <1>6 DEF CreateError, Fresh, TypeOK
  <2>2. /\ \A v \in Workers \ {w} : pc'[v] = pc[v] /\ cur'[v] = cur[v]
        /\ pc'[w] \notin {"addready", "addpending"}
    BY <1>6 DEF CreateError, NextCreation, Unlock, TypeOK
  <2> QED
    BY <1>s, <2>1, <2>2
<1>7. ASSUME NEW s \in Sandboxes, PodStarts(s) \/ PodEnds(s) PROVE Life!Next
  <2>1. UNCHANGED <<ready, pending, given, pc, cur>> /\ Fresh' \subseteq Fresh
    BY <1>7 DEF PodStarts, PodEnds, workVars, Fresh, TypeOK
  <2>2. Pooled' \subseteq Pooled
    BY <1>h, <2>1 DEF Pooled
  <2> QED
    BY <1>r, <2>1, <2>2
<1>8. ASSUME NEW p \in Processes, Crash(p) PROVE Life!Next
  <2>1. /\ UNCHANGED <<ready, pending, given, pod>>
        /\ \A w \in Workers : pc'[w] = "idle" \/ (pc'[w] = pc[w] /\ cur'[w] = cur[w])
    BY <1>8 DEF Crash
  <2>2. Pooled' \subseteq Pooled /\ Fresh' = Fresh
    BY <1>h, <2>1 DEF Pooled, Fresh
  <2> QED
    BY <1>r, <2>1, <2>2
<1>9. CASE UNCHANGED vars
  BY <1>9 DEF vars, Life!vars, InHand, Fresh
<1> QED
  BY <1>1, <1>2, <1>3, <1>4, <1>5, <1>6, <1>7, <1>8, <1>9 DEF Next, Maintain

\* One process's pool implements SandboxLife: no sandbox passes through it
\* twice, whatever fails or crashes half way.
THEOREM PoolImplementsLife == SingleProcess => (Spec => ImplementsLife)
<1> SUFFICES ASSUME SingleProcess PROVE Spec => ImplementsLife
  OBVIOUS
<1>1. Init => Life!Init
  <2> SUFFICES ASSUME Init PROVE Life!Init
    OBVIOUS
  <2>1. InHand = {}
    BY DEF Init, InHand
  <2>2. Fresh = Sandboxes /\ ready = {} /\ pending = {} /\ given = {}
    BY DEF Init, Fresh
  <2> QED
    BY <2>1, <2>2 DEF Life!Init
<1>2. TypeOK /\ MutexInv /\ (SingleProcess => MoveInv) /\ [Next]_vars => [Life!Next]_(Life!vars)
  BY LifeStep
<1> QED
  BY <1>1, <1>2, TypeCorrect, MutexCorrect, MoveCorrect, PTL DEF Spec, ImplementsLife, Life!Spec

\* The theorems about SandboxLife, for the callers of GetSandbox as holders.
LifeFacts == INSTANCE SandboxLifeProofs WITH
    Holders <- {"caller"},
    unused <- Fresh,
    pooled <- ready \cup pending \cup InHand,
    held <- {"caller"} \X given

\* What the pool inherits: a sandbox that was handed out, or dropped by a failed
\* command or a crash, is never pending or ready again.
THEOREM SandboxesPassOnce == SingleProcess => (Spec => Life!NeverReused)
<1>1. LifeFacts!Spec <=> Life!Spec
  BY PTL DEF Life!Spec, LifeFacts!Spec, Life!Init, LifeFacts!Init, Life!Next, LifeFacts!Next,
         Life!vars, LifeFacts!vars, Life!Retire, LifeFacts!Retire,
         Life!Provision, LifeFacts!Provision, Life!Assign, LifeFacts!Assign
<1>2. LifeFacts!NeverReused <=> Life!NeverReused
  BY PTL DEF Life!NeverReused, LifeFacts!NeverReused, Life!vars, LifeFacts!vars
<1> QED
  BY <1>1, <1>2, PoolImplementsLife, LifeFacts!NoReuse, PTL DEF ImplementsLife
=============================================================================
