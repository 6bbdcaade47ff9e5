-------------------------- MODULE XdsRoutesProofs --------------------------
(***************************************************************************)
(* What the xDS server promises for any set of projects, any number of     *)
(* pipelines in Redis and every fault.                                     *)
(***************************************************************************)
EXTENDS XdsRoutes, SequenceTheorems, FiniteSetTheorems, TLAPS

\* The types without the Boolean flag.
DataOK ==
    /\ mapped \subseteq Projects /\ listed \subseteq Projects /\ outlives \subseteq mapped
    /\ wpc \in [Writers -> {"idle", "set", "sadd", "expire", "publish",
                            "del", "srem", "unpublish"}]
    /\ wproj \in [Writers -> Projects \cup {NoProject}]
    /\ \A w \in Writers : wpc[w] # "idle" => wproj[w] \in Projects
    /\ writes \in Nat
    /\ raced \subseteq Projects /\ steady \subseteq Projects
    /\ start \in {"members", "gets", "fill", "snapshot", "done"}
    /\ toGet \subseteq Projects /\ got \subseteq Projects
    /\ sub \in {"none", "open", "closed"}
    /\ inbox \in Seq(Messages)
    /\ receiver \in {"off", "receive", "callback", "blocked"}
    /\ msg \in Messages \cup {NoMessage}
    /\ receiver = "callback" => msg \in Messages
    /\ updater \in {"wait", "build"}
    /\ mu \in {"free", "read", "write"}
    /\ routes \subseteq Projects
    /\ snapshot = NoSnapshot \/ \E R \in SUBSET Projects : snapshot \in Snapshots(R)

\* A writer names a project exactly while its pipeline runs, and two pipelines
\* on one project count as a race.
WriterInv ==
    /\ \A w \in Writers : wpc[w] = "idle" => wproj[w] = NoProject
    /\ \A v, w \in Writers :
          v # w /\ wproj[v] = wproj[w] /\ wproj[v] # NoProject => wproj[v] \in raced

\* A project of which no pipelines raced: its mapping is covered; it lives
\* longer than the set only between SET and EXPIRE; and it is gone between DEL
\* and SREM.
CoverInv ==
    \A p \in Projects \ raced :
        /\ p \in mapped =>
              p \in listed \/ \E w \in Writers : wproj[w] = p /\ wpc[w] = "sadd"
        /\ p \in outlives =>
              \E w \in Writers : wproj[w] = p /\ wpc[w] \in {"sadd", "expire"}
        /\ \A w \in Writers : wproj[w] = p /\ wpc[w] = "srem" => p \notin mapped

\* Who holds the lock, and what waits for OnStart to return.
LockInv ==
    /\ mu = "write" <=> receiver = "blocked"
    /\ mu = "read" <=> updater = "build"
    /\ sub = "none" => receiver = "off"
    /\ start # "done" => sub = "none" /\ updater = "wait" /\ snapshot = NoSnapshot

\* The snapshot is one of the routes until an update takes the lock.
BuiltInv ==
    start = "done" /\ mu # "write" /\ snapshot # NoSnapshot => snapshot \in Snapshots(routes)

\* Projects that the server can serve, as long as they stay mapped.
Kept == {p \in steady : Clean[p] = p}

\* Where the load has the projects that stay mapped.
LoadInv ==
    /\ steady \subseteq mapped
    /\ start \in {"members", "fill"} => steady = {}
    /\ start = "gets" => Kept \subseteq toGet \cup got
    /\ start = "snapshot" => Kept \subseteq routes

\* Once the load is done, the routes have them until an update takes the lock,
\* and the snapshot has them for good.
Served ==
    /\ mu # "write" => Kept \subseteq routes
    /\ \E R \in SUBSET Projects : Kept \subseteq R /\ snapshot \in Snapshots(R)

ServedInv == start = "done" /\ ~loadFailed => Served

-----------------------------------------------------------------------------
(* Facts about the snapshot                                                 *)

\* The table of a snapshot has the routes of R first, each project once, and
\* the fallback last.
LEMMA SnapshotShape ==
    ASSUME NEW R \in SUBSET Projects, NEW s \in Snapshots(R)
    PROVE  /\ s.clusters = R \cup {Activator}
           /\ \E n \in Nat :
                 /\ DOMAIN s.table = 1..(n + 1) /\ s.table[n + 1] = Activator
                 /\ \A i \in 1..n : s.table[i] \in R
                 /\ \A p \in R : \E i \in 1..n : s.table[i] = p
                 /\ \A i, j \in 1..n : s.table[i] = s.table[j] => i = j
<1> DEFINE n == Cardinality(R)
<1>1. PICK q \in Orders(R) : s = [clusters |-> R \cup {Activator}, table |-> Append(q, Activator)]
  BY DEF Snapshots
<1>2. IsFiniteSet(R) /\ n \in Nat
  BY XdsAssumption, FS_Subset, FS_CardinalityType
<1>3. q \in [1..n -> R] /\ \A p \in R : \E i \in 1..n : q[i] = p
  BY <1>1 DEF Orders
<1>4. IsFiniteSet(1..n) /\ Cardinality(1..n) = n
  <2>1. 1 \in Int /\ n \in Int
    BY <1>2
  <2>2. Cardinality(1..n) = IF 1 > n THEN 0 ELSE n - 1 + 1
    BY <2>1, FS_Interval
  <2> QED
    BY <1>2, <2>1, <2>2, FS_Interval
<1>5. \A i, j \in 1..n : q[i] = q[j] => i = j
  <2>1. q \in Surjection(1..n, R)
    BY <1>3 DEF Surjection
  <2>2. q \in Injection(1..n, R)
    BY <1>4, <2>1, FS_SurjSameCardinalityImpliesInj
  <2> QED
    BY <2>2 DEF Injection, IsInjective
<1>6. q \in Seq(R \cup {Activator}) /\ Len(q) = n
  BY <1>2, <1>3
<1> DEFINE t == Append(q, Activator)
<1>7. /\ DOMAIN t = 1..(n + 1) /\ t[n + 1] = Activator
      /\ \A i \in 1..n : t[i] = q[i]
  <2>1. t \in Seq(R \cup {Activator}) /\ Len(t) = n + 1
    BY <1>6, AppendProperties
  <2> QED
    BY <1>6, <2>1, AppendProperties
<1>8. s.clusters = R \cup {Activator} /\ s.table = t
  BY <1>1
<1>9. /\ \A i \in 1..n : t[i] \in R
      /\ \A p \in R : \E i \in 1..n : t[i] = p
      /\ \A i, j \in 1..n : t[i] = t[j] => i = j
  BY <1>3, <1>5, <1>7
<1> HIDE DEF t, n
<1> QED
  BY <1>2, <1>7, <1>8, <1>9

\* Envoy takes the first match: the project's own cluster if it has a route,
\* else the fallback.
LEMMA RouteOfSnapshot ==
    ASSUME NEW R \in SUBSET Projects, snapshot \in Snapshots(R), NEW p \in Projects
    PROVE  RouteOf(p) = IF p \in R THEN p ELSE Activator
<1> DEFINE t == snapshot.table
           Hit(i) == /\ t[i] \in {p, Activator}
                     /\ \A j \in 1..(i - 1) : t[j] \notin {p, Activator}
<1>1. PICK n \in Nat :
        /\ DOMAIN t = 1..(n + 1) /\ t[n + 1] = Activator
        /\ \A i \in 1..n : t[i] \in R
        /\ \A r \in R : \E i \in 1..n : t[i] = r
        /\ \A i, j \in 1..n : t[i] = t[j] => i = j
  BY SnapshotShape
<1>2. Activator \notin R /\ p # Activator
  BY XdsAssumption
<1>3. \E i \in DOMAIN t : Hit(i)
  <2>1. CASE p \in R
    <3>1. PICK i \in 1..n : t[i] = p
      BY <1>1, <2>1
    <3>2. \A j \in 1..(i - 1) : j \in 1..n /\ j # i
      OBVIOUS
    <3>3. Hit(i)
      BY <1>1, <1>2, <3>1, <3>2
    <3> QED
      BY <1>1, <3>3
  <2>2. CASE p \notin R
    <3>1. Hit(n + 1) /\ n + 1 \in DOMAIN t
      BY <1>1, <1>2, <2>2
    <3> QED
      BY <3>1
  <2> QED
    BY <2>1, <2>2
<1> DEFINE hit == CHOOSE i \in DOMAIN t : Hit(i)
<1>4. hit \in DOMAIN t /\ Hit(hit)
  BY <1>3
<1>5. RouteOf(p) = t[hit]
  BY DEF RouteOf
<1> HIDE DEF hit, t
<1>6. CASE hit \in 1..n
  BY <1>1, <1>2, <1>4, <1>5, <1>6
<1>7. CASE hit = n + 1
  <2>1. \A j \in 1..n : t[j] # p
    BY <1>4, <1>7
  <2> QED
    BY <1>1, <1>5, <1>7, <2>1
<1> QED
  BY <1>1, <1>4, <1>6, <1>7

-----------------------------------------------------------------------------
(* Types                                                                    *)

\* The parts of a message.
LEMMA MessageFields ==
    ASSUME NEW m \in Messages PROVE m.project \in Projects
BY DEF Messages

\* Every step keeps the types.
LEMMA DataStep == ASSUME DataOK, [Next]_vars PROVE DataOK'
<1> USE DEF storeVars, loadVars, subVars
<1>1. ASSUME NEW w \in Writers, NEW p \in Projects, NEW command \in {"set", "del"},
             Begin(w, p, command)
      PROVE  DataOK'
  BY <1>1 DEF Begin, DataOK
<1>2. ASSUME NEW w \in Writers, NEW p \in Projects,
             SetProjectSandbox(w, p) \/ RemoveSandboxMapping(w, p)
      PROVE  DataOK'
  <2>1. Clean[p] # NoProject => Clean[p] \in Projects
    BY XdsAssumption
  <2> QED
    BY <1>1, <1>2, <2>1 DEF SetProjectSandbox, RemoveSandboxMapping
<1>3. ASSUME NEW w \in Writers, SetMapping(w) \/ AddToSet(w) \/ RenewSet(w) PROVE DataOK'
  BY <1>3 DEF SetMapping, AddToSet, RenewSet, Sent, DataOK
<1>4. ASSUME NEW w \in Writers, DeleteMapping(w) \/ RemoveFromSet(w) PROVE DataOK'
  BY <1>4 DEF DeleteMapping, RemoveFromSet, Sent, DataOK
<1>5. ASSUME NEW w \in Writers, Publish(w) PROVE DataOK'
  <2>1. PICK removal \in BOOLEAN :
          /\ Sent(w, IF removal THEN "unpublish" ELSE "publish", "idle")
          /\ inbox' = IF sub = "open"
                      THEN Append(inbox, [project |-> wproj[w], removal |-> removal])
                      ELSE inbox
    BY <1>5 DEF Publish
  <2>2. wproj[w] \in Projects
    BY <2>1 DEF Sent, DataOK
  <2>3. [project |-> wproj[w], removal |-> removal] \in Messages
    BY <2>2 DEF Messages
  <2>4. inbox' \in Seq(Messages)
    BY <2>1, <2>3 DEF DataOK
  <2> QED
    BY <1>5, <2>1, <2>4 DEF Publish, Sent, DataOK
<1>6. ASSUME NEW w \in Writers, PipelineError(w) PROVE DataOK'
  BY <1>6 DEF PipelineError, DataOK
<1>7. ASSUME NEW p \in Projects, ExpireMapping(p) PROVE DataOK'
  BY <1>7 DEF ExpireMapping, DataOK
<1>8. ASSUME ExpireSet PROVE DataOK'
  BY <1>8 DEF ExpireSet, DataOK
<1>9. ASSUME GetMembers PROVE DataOK'
  <2>1. {Clean[p] : p \in listed} \ {NoProject} \subseteq Projects
    BY XdsAssumption DEF DataOK
  <2> QED
    BY <1>9, <2>1 DEF GetMembers, DataOK
<1>10. ASSUME NEW p \in Projects, GetEach(p) PROVE DataOK'
  BY <1>10 DEF GetEach, DataOK
<1>11. ASSUME LoadError PROVE DataOK'
  <2>1. start' = "done" /\ toGet' = {} /\ got' = {}
        /\ UNCHANGED <<storeVars, subVars, inbox, updater, mu, routes, snapshot, steady>>
    BY <1>11, Zenon DEF LoadError
  <2> QED
    BY <2>1 DEF DataOK
<1>12. ASSUME FillRoutes PROVE DataOK'
  BY <1>12 DEF FillRoutes, DataOK
<1>13. ASSUME FirstSnapshot PROVE DataOK'
  BY <1>13 DEF FirstSnapshot, DataOK
<1>14. ASSUME Subscriber PROVE DataOK'
  BY <1>14 DEF Subscriber, Subscribe, SubscribeReturns, DataOK
<1>15. ASSUME Receive PROVE DataOK'
  <2>1. inbox # <<>> /\ inbox \in Seq(Messages)
    BY <1>15 DEF Receive, DataOK
  <2>2. Head(inbox) \in Messages /\ Tail(inbox) \in Seq(Messages)
    BY <2>1
  <2>3. Parse[Head(inbox)] \in Messages \cup {NoMessage}
    BY <2>2, XdsAssumption
  <2> QED
    BY <1>15, <2>2, <2>3 DEF Receive, DataOK
<1>16. ASSUME ReceiveError PROVE DataOK'
  BY <1>16 DEF ReceiveError, DataOK
<1>17. ASSUME UpdateRoute PROVE DataOK'
  <2>1. msg.project \in Projects
    BY <1>17, MessageFields DEF UpdateRoute, DataOK
  <2>2. routes' \subseteq Projects
    BY <1>17, <2>1 DEF UpdateRoute, DataOK
  <2>3. /\ mu' = "write" /\ receiver' = "blocked" /\ UNCHANGED <<sub, msg>>
        /\ UNCHANGED <<storeVars, loadVars, inbox, updater, snapshot, steady>>
    BY <1>17, Zenon DEF UpdateRoute
  <2> QED
    BY <2>2, <2>3 DEF DataOK
<1>18. ASSUME Updater PROVE DataOK'
  BY <1>18 DEF Updater, UpdaterRLock, UpdaterSet, DataOK
<1>19. CASE UNCHANGED vars
  BY <1>19 DEF vars, DataOK
<1> QED
  BY <1>2, <1>3, <1>4, <1>5, <1>6, <1>7, <1>8, <1>9, <1>10, <1>11, <1>12, <1>13,
     <1>14, <1>15, <1>16, <1>17, <1>18, <1>19 DEF Next, Pipeline, OnStart, Receiver

\* The flag is set by LoadError only.
LEMMA FlagStep == ASSUME loadFailed \in BOOLEAN, [Next]_vars PROVE loadFailed' \in BOOLEAN
<1> USE DEF loadVars
<1>1. CASE OnStart
  BY <1>1, Zenon DEF OnStart, GetMembers, GetEach, LoadError, FillRoutes, FirstSnapshot
<1>2. ASSUME NEW w \in Writers, NEW p \in Projects,
             SetProjectSandbox(w, p) \/ RemoveSandboxMapping(w, p)
      PROVE  UNCHANGED loadFailed
  BY <1>2, Zenon DEF SetProjectSandbox, RemoveSandboxMapping, Begin
<1>3. ASSUME NEW w \in Writers, Pipeline(w) PROVE UNCHANGED loadFailed
  BY <1>3, Zenon DEF Pipeline, SetMapping, AddToSet, RenewSet, DeleteMapping, RemoveFromSet,
                     Publish, PipelineError, Sent
<1>4. ASSUME (\E p \in Projects : ExpireMapping(p)) \/ ExpireSet PROVE UNCHANGED loadFailed
  BY <1>4, Zenon DEF ExpireMapping, ExpireSet
<1>5. ASSUME Subscriber \/ Receiver \/ Updater PROVE UNCHANGED loadFailed
  BY <1>5, Zenon DEF Subscriber, Subscribe, SubscribeReturns, Receiver, Receive, ReceiveError,
                     UpdateRoute, Updater, UpdaterRLock, UpdaterSet
<1>6. CASE UNCHANGED vars
  BY <1>6 DEF vars
<1> QED
  BY <1>1, <1>2, <1>3, <1>4, <1>5, <1>6, Zenon DEF Next

\* The xDS server, its goroutines and the pipelines it reads from keep the
\* types; a snapshot is always built from a set of projects.
THEOREM TypeCorrect == Spec => []TypeOK
<1>1. Init => TypeOK
  <2> SUFFICES ASSUME Init PROVE TypeOK
    OBVIOUS
  <2>1. loadFailed \in BOOLEAN
    BY Zenon DEF Init
  <2>2. DataOK
    <3>1. {} \in SUBSET Projects /\ <<>> \in Seq(Messages) /\ 0 \in Nat
      OBVIOUS
    <3> QED
      BY <3>1 DEF Init, DataOK
  <2> QED
    BY <2>1, <2>2, Zenon DEF TypeOK, DataOK
<1>2. TypeOK /\ [Next]_vars => TypeOK'
  <2> SUFFICES ASSUME TypeOK, [Next]_vars PROVE TypeOK'
    OBVIOUS
  <2>1. DataOK /\ loadFailed \in BOOLEAN
    BY Zenon DEF TypeOK, DataOK
  <2>2. DataOK' /\ loadFailed' \in BOOLEAN
    BY <2>1, DataStep, FlagStep
  <2> QED
    BY <2>2, Zenon DEF TypeOK, DataOK
<1> QED
  BY <1>1, <1>2, PTL DEF Spec

-----------------------------------------------------------------------------
(* The set of all projects                                                  *)

\* The server reads the store and never writes to it.
LEMMA StoreAside ==
    ASSUME OnStart \/ Subscriber \/ Receiver \/ Updater \/ UNCHANGED vars
    PROVE  UNCHANGED storeVars
<1>1. CASE OnStart
  BY <1>1, Zenon DEF OnStart, GetMembers, GetEach, LoadError, FillRoutes, FirstSnapshot
<1>2. CASE Subscriber \/ Receiver \/ Updater
  BY <1>2, Zenon DEF Subscriber, Subscribe, SubscribeReturns, Receiver, Receive, ReceiveError,
                     UpdateRoute, Updater, UpdaterRLock, UpdaterSet
<1>3. CASE UNCHANGED vars
  BY <1>3 DEF vars, storeVars
<1> QED
  BY <1>1, <1>2, <1>3

\* A pipeline that begins on a project another one works on is a race.
LEMMA WriterStep == ASSUME DataOK, WriterInv, [Next]_vars PROVE WriterInv'
<1>1. ASSUME NEW w \in Writers, NEW p \in Projects, NEW command \in {"set", "del"},
             Begin(w, p, command)
      PROVE  WriterInv'
  BY <1>1 DEF Begin, DataOK, WriterInv
<1>2. ASSUME NEW w \in Writers, NEW p \in Projects,
             SetProjectSandbox(w, p) \/ RemoveSandboxMapping(w, p)
      PROVE  WriterInv'
  <2>1. Clean[p] # NoProject => Clean[p] \in Projects
    BY XdsAssumption
  <2> QED
    BY <1>1, <1>2, <2>1 DEF SetProjectSandbox, RemoveSandboxMapping
<1>3. ASSUME NEW w \in Writers, NEW from,
             NEW to \in {"sadd", "expire", "publish", "srem", "unpublish", "idle"},
             Sent(w, from, to)
      PROVE  WriterInv'
  BY <1>3 DEF Sent, DataOK, WriterInv
<1>4. ASSUME NEW w \in Writers, Pipeline(w) PROVE WriterInv'
  <2>1. CASE PipelineError(w)
    BY <2>1 DEF PipelineError, DataOK, WriterInv
  <2>2. CASE SetMapping(w) \/ AddToSet(w) \/ RenewSet(w) \/ DeleteMapping(w) \/ RemoveFromSet(w)
    BY <1>3, <2>2 DEF SetMapping, AddToSet, RenewSet, DeleteMapping, RemoveFromSet
  <2>3. CASE Publish(w)
    BY <1>3, <2>3 DEF Publish
  <2> QED
    BY <1>4, <2>1, <2>2, <2>3 DEF Pipeline
<1>5. CASE (\E p \in Projects : ExpireMapping(p)) \/ ExpireSet
  <2>1. UNCHANGED <<wpc, wproj>> /\ raced \subseteq raced'
    BY <1>5 DEF ExpireMapping, ExpireSet
  <2> QED
    BY <2>1 DEF WriterInv
<1>6. CASE OnStart \/ Subscriber \/ Receiver \/ Updater \/ UNCHANGED vars
  <2>1. UNCHANGED <<wpc, wproj, raced>>
    BY <1>6, StoreAside DEF storeVars
  <2> QED
    BY <2>1 DEF WriterInv
<1> QED
  BY <1>2, <1>4, <1>5, <1>6, Zenon DEF Next

\* Every command of the pipelines keeps the set ahead of the mappings.
LEMMA CoverStep == ASSUME DataOK, WriterInv, CoverInv, [Next]_vars PROVE CoverInv'
<1>1. ASSUME NEW w \in Writers, NEW p, NEW command \in {"set", "del"}, Begin(w, p, command)
      PROVE  CoverInv'
  <2>1. \A v \in Writers : wpc[v] \in {"sadd", "expire"} => v # w
    BY <1>1 DEF Begin
  <2> QED
    BY <1>1, <2>1 DEF Begin, DataOK, CoverInv
<1>2. ASSUME NEW w \in Writers, SetMapping(w) PROVE CoverInv'
  BY <1>2, XdsAssumption DEF SetMapping, Sent, DataOK, WriterInv, CoverInv
<1>3. ASSUME NEW w \in Writers, AddToSet(w) PROVE CoverInv'
  BY <1>3 DEF AddToSet, Sent, DataOK, CoverInv
<1>4. ASSUME NEW w \in Writers, RenewSet(w) PROVE CoverInv'
  BY <1>4 DEF RenewSet, Sent, DataOK, CoverInv
<1>5. ASSUME NEW w \in Writers, DeleteMapping(w) PROVE CoverInv'
  BY <1>5 DEF DeleteMapping, Sent, DataOK, CoverInv
<1>6. ASSUME NEW w \in Writers, RemoveFromSet(w) PROVE CoverInv'
  BY <1>6 DEF RemoveFromSet, Sent, DataOK, CoverInv
<1>7. ASSUME NEW w \in Writers, Publish(w) PROVE CoverInv'
  <2>1. PICK from \in {"publish", "unpublish"} : Sent(w, from, "idle")
    BY <1>7 DEF Publish
  <2>2. UNCHANGED <<mapped, listed, outlives, raced>>
    BY <1>7, <2>1, Zenon DEF Publish, Sent
  <2>3. \A v \in Writers : wpc[v] \in {"sadd", "expire"} => v # w
    BY <2>1 DEF Sent
  <2> QED
    BY <2>1, <2>2, <2>3 DEF Sent, DataOK, CoverInv
<1>8. ASSUME NEW w \in Writers, PipelineError(w) PROVE CoverInv'
  BY <1>8 DEF PipelineError, DataOK, CoverInv
<1>9. ASSUME NEW p \in Projects, ExpireMapping(p) PROVE CoverInv'
  BY <1>9 DEF ExpireMapping, DataOK, CoverInv
<1>10. ASSUME ExpireSet PROVE CoverInv'
  BY <1>10 DEF ExpireSet, DataOK, CoverInv
<1>11. CASE OnStart \/ Subscriber \/ Receiver \/ Updater \/ UNCHANGED vars
  <2>1. UNCHANGED <<mapped, listed, outlives, wpc, wproj, raced>>
    BY <1>11, StoreAside DEF storeVars
  <2> QED
    BY <2>1 DEF CoverInv
<1> QED
  BY <1>1, <1>2, <1>3, <1>4, <1>5, <1>6, <1>7, <1>8, <1>9, <1>10, <1>11, Zenon
  DEF Next, Pipeline, SetProjectSandbox, RemoveSandboxMapping

\* SetProjectSandbox, RemoveSandboxMapping and the TTLs keep the set of all
\* projects ahead of the mappings, for any number of concurrent pipelines.
THEOREM SetCovers == Spec => []SetCoversMappings
<1>1. Init => WriterInv /\ CoverInv
  BY DEF Init, WriterInv, CoverInv
<1>2. TypeOK => DataOK
  BY Zenon DEF TypeOK, DataOK
<1>3. DataOK /\ WriterInv /\ CoverInv /\ [Next]_vars => WriterInv' /\ CoverInv'
  BY WriterStep, CoverStep
<1>4. DataOK /\ CoverInv => SetCoversMappings
  BY DEF DataOK, CoverInv, SetCoversMappings
<1> QED
  BY <1>1, <1>2, <1>3, <1>4, TypeCorrect, PTL DEF Spec

-----------------------------------------------------------------------------
(* The snapshot                                                             *)

serverVars == <<start, sub, receiver, updater, mu, routes, snapshot>>

\* The pipelines and the TTLs touch nothing of the server's but its inbox.
LEMMA ServerAside ==
    ASSUME [Next]_vars, ~OnStart, ~Subscriber, ~Receiver, ~Updater
    PROVE  UNCHANGED serverVars /\ UNCHANGED loadVars
<1> USE DEF serverVars, loadVars, subVars
<1>1. ASSUME NEW w \in Writers, NEW p \in Projects,
             SetProjectSandbox(w, p) \/ RemoveSandboxMapping(w, p)
      PROVE  UNCHANGED serverVars /\ UNCHANGED loadVars
  BY <1>1, Zenon DEF SetProjectSandbox, RemoveSandboxMapping, Begin
<1>2. ASSUME NEW w \in Writers, Pipeline(w) PROVE UNCHANGED serverVars /\ UNCHANGED loadVars
  BY <1>2, Zenon DEF Pipeline, SetMapping, AddToSet, RenewSet, DeleteMapping, RemoveFromSet,
                     Publish, PipelineError, Sent
<1>3. ASSUME (\E p \in Projects : ExpireMapping(p)) \/ ExpireSet
      PROVE  UNCHANGED serverVars /\ UNCHANGED loadVars
  BY <1>3, Zenon DEF ExpireMapping, ExpireSet
<1>4. CASE UNCHANGED vars
  BY <1>4, Zenon DEF vars
<1> QED
  BY <1>1, <1>2, <1>3, <1>4, Zenon DEF Next

\* Every step of the server keeps to the lock, and the one that changes the
\* routes after the start keeps it for good.
LEMMA BuiltStep ==
    ASSUME DataOK, LockInv, BuiltInv, [Next]_vars
    PROVE  LockInv' /\ BuiltInv'
<1> USE DEF storeVars, loadVars, subVars
<1>1. CASE GetMembers \/ (\E p \in Projects : GetEach(p))
  <2>1. /\ start # "done" /\ start' # "done"
        /\ UNCHANGED <<sub, receiver, updater, mu, routes, snapshot>>
    BY <1>1 DEF GetMembers, GetEach
  <2> QED
    BY <2>1 DEF LockInv, BuiltInv
<1>2. CASE LoadError
  <2>1. /\ start # "done" /\ start' = "done"
        /\ UNCHANGED <<sub, receiver, updater, mu, routes, snapshot>>
    BY <1>2 DEF LoadError
  <2> QED
    BY <2>1 DEF LockInv, BuiltInv
<1>3. CASE FillRoutes
  BY <1>3 DEF FillRoutes, LockInv, BuiltInv
<1>4. CASE FirstSnapshot
  BY <1>4 DEF FirstSnapshot, LockInv, BuiltInv
<1>5. CASE Subscriber
  BY <1>5 DEF Subscriber, Subscribe, SubscribeReturns, LockInv, BuiltInv
<1>6. CASE Receive \/ ReceiveError
  BY <1>6 DEF Receive, ReceiveError, LockInv, BuiltInv
<1>7. CASE UpdateRoute
  <2>1. /\ receiver = "callback" /\ mu = "free" /\ mu' = "write" /\ receiver' = "blocked"
        /\ UNCHANGED <<start, sub, updater, snapshot>>
    BY <1>7, Zenon DEF UpdateRoute
  <2> QED
    BY <2>1 DEF LockInv, BuiltInv
<1>8. CASE Updater
  BY <1>8 DEF Updater, UpdaterRLock, UpdaterSet, LockInv, BuiltInv
<1>9. CASE ~OnStart /\ ~Subscriber /\ ~Receiver /\ ~Updater
  BY <1>9, ServerAside DEF serverVars, LockInv, BuiltInv
<1> QED
  BY <1>1, <1>2, <1>3, <1>4, <1>5, <1>6, <1>7, <1>8, <1>9 DEF OnStart, Receiver

\* The lock and the snapshot, in every reachable state.
LEMMA BuiltAlways == Spec => [](LockInv /\ BuiltInv)
<1>1. Init => LockInv /\ BuiltInv
  BY DEF Init, LockInv, BuiltInv
<1>2. TypeOK => DataOK
  BY Zenon DEF TypeOK, DataOK
<1>3. DataOK /\ LockInv /\ BuiltInv /\ [Next]_vars => LockInv' /\ BuiltInv'
  BY BuiltStep
<1> QED
  BY <1>1, <1>2, <1>3, TypeCorrect, PTL DEF Spec

\* UpdateSnapshot puts the routes of any set of projects into the snapshot,
\* with the fallback where it catches only the others.
THEOREM SnapshotFollows == Spec => []SnapshotFollowsRoutes
<1>1. TypeOK => DataOK
  BY Zenon DEF TypeOK, DataOK
<1>2. DataOK /\ BuiltInv => SnapshotFollowsRoutes
  <2> SUFFICES ASSUME DataOK, BuiltInv, start = "done", mu = "free", snapshot # NoSnapshot
               PROVE  /\ snapshot.clusters = routes \cup {Activator}
                      /\ \A p \in Projects : RouteOf(p) = IF p \in routes THEN p ELSE Activator
    BY DEF SnapshotFollowsRoutes
  <2>1. routes \in SUBSET Projects /\ snapshot \in Snapshots(routes)
    BY DEF DataOK, BuiltInv
  <2>2. snapshot.clusters = routes \cup {Activator}
    BY <2>1, SnapshotShape
  <2> QED
    BY <2>1, <2>2, RouteOfSnapshot
<1> QED
  BY <1>1, <1>2, TypeCorrect, BuiltAlways, PTL

-----------------------------------------------------------------------------
(* Projects that stay mapped                                                *)

\* The projects that were mapped since the load began only become fewer, but
\* for the step that begins it.
LEMMA SteadyShrinks ==
    ASSUME DataOK, steady \subseteq mapped, [Next]_vars
    PROVE  /\ steady' \subseteq mapped'
           /\ ~GetMembers => steady' \subseteq steady
<1> USE DEF storeVars, loadVars, subVars
<1>1. ASSUME NEW w \in Writers, NEW p \in Projects,
             SetProjectSandbox(w, p) \/ RemoveSandboxMapping(w, p)
      PROVE  UNCHANGED <<mapped, steady>>
  BY <1>1, Zenon DEF SetProjectSandbox, RemoveSandboxMapping, Begin
<1>2. ASSUME NEW w \in Writers, AddToSet(w) \/ RenewSet(w) \/ Publish(w) \/ PipelineError(w)
      PROVE  UNCHANGED <<mapped, steady>>
  BY <1>2, Zenon DEF AddToSet, RenewSet, Publish, PipelineError
<1>3. ASSUME NEW w \in Writers, SetMapping(w) \/ DeleteMapping(w) \/ RemoveFromSet(w)
      PROVE  steady' \subseteq mapped' /\ steady' \subseteq steady
  BY <1>3 DEF SetMapping, DeleteMapping, RemoveFromSet
<1>4. ASSUME (\E p \in Projects : ExpireMapping(p)) \/ ExpireSet
      PROVE  steady' \subseteq mapped' /\ steady' \subseteq steady
  BY <1>4 DEF ExpireMapping, ExpireSet
<1>5. CASE GetMembers
  BY <1>5 DEF GetMembers
<1>6. CASE (\E p \in Projects : GetEach(p)) \/ LoadError \/ FillRoutes \/ FirstSnapshot
  <2>1. UNCHANGED <<mapped, steady>>
    BY <1>6, Zenon DEF GetEach, LoadError, FillRoutes, FirstSnapshot
  <2> QED
    BY <2>1
<1>7. CASE Subscriber \/ Receiver \/ Updater
  <2>1. UNCHANGED <<mapped, steady>>
    BY <1>7, Zenon DEF Subscriber, Subscribe, SubscribeReturns, Receiver, Receive, ReceiveError,
                       UpdateRoute, Updater, UpdaterRLock, UpdaterSet
  <2> QED
    BY <2>1
<1>8. CASE UNCHANGED vars
  <2>1. UNCHANGED <<mapped, steady>>
    BY <1>8 DEF vars
  <2> QED
    BY <2>1
<1> QED
  BY <1>1, <1>2, <1>3, <1>4, <1>5, <1>6, <1>7, <1>8 DEF Next, Pipeline, OnStart

\* The load loses none of them between SMEMBERS and the first snapshot.
LEMMA LoadStep ==
    ASSUME DataOK, LockInv, LoadInv, [Next]_vars
    PROVE  LoadInv'
<1> USE DEF storeVars, loadVars, subVars
<1>1. steady' \subseteq mapped' /\ (~GetMembers => steady' \subseteq steady)
  BY SteadyShrinks DEF LoadInv
<1>2. ~GetMembers => Kept' \subseteq Kept
  BY <1>1 DEF Kept
<1>3. CASE GetMembers
  <2>1. Kept' \subseteq toGet'
    BY <1>3, XdsAssumption DEF GetMembers, Kept, DataOK
  <2> QED
    BY <1>1, <1>3, <2>1 DEF GetMembers, LoadInv
<1>4. ASSUME NEW p \in Projects, GetEach(p) PROVE LoadInv'
  <2>1. UNCHANGED <<mapped, steady>>
    BY <1>4, Zenon DEF GetEach
  <2>2. Kept' = Kept /\ Kept \subseteq mapped
    BY <2>1 DEF Kept, LoadInv
  <2> QED
    BY <1>4, <2>1, <2>2 DEF GetEach, LoadInv
<1>5. CASE LoadError
  <2>1. start' = "done"
    BY <1>5, Zenon DEF LoadError
  <2> QED
    BY <1>1, <2>1 DEF LoadInv
<1>6. CASE FillRoutes
  <2>1. UNCHANGED <<mapped, steady>>
    BY <1>6, Zenon DEF FillRoutes
  <2>2. Kept' = Kept /\ Kept \subseteq steady
    BY <2>1 DEF Kept
  <2> QED
    BY <1>6, <2>1, <2>2 DEF FillRoutes, LoadInv
<1>7. CASE FirstSnapshot
  BY <1>1, <1>7 DEF FirstSnapshot, LoadInv
<1>8. CASE Subscriber
  <2>1. UNCHANGED <<start, mapped, steady, toGet, got, routes>>
    BY <1>8, Zenon DEF Subscriber, Subscribe, SubscribeReturns
  <2> QED
    BY <2>1 DEF LoadInv, Kept
<1>9. CASE Receiver \/ Updater
  <2>1. start' = start
    BY <1>9, Zenon DEF Receiver, Receive, ReceiveError, UpdateRoute, Updater, UpdaterRLock,
                       UpdaterSet
  <2>2. start = "done"
    BY <1>9 DEF Receiver, Receive, ReceiveError, UpdateRoute, Updater, UpdaterRLock,
                UpdaterSet, LockInv
  <2> QED
    BY <1>1, <2>1, <2>2 DEF LoadInv
<1>10. CASE ~OnStart /\ ~Subscriber /\ ~Receiver /\ ~Updater
  <2>1. UNCHANGED <<start, toGet, got, routes>>
    BY <1>10, ServerAside DEF serverVars
  <2>2. ~GetMembers
    BY <1>10 DEF OnStart
  <2> QED
    BY <1>1, <1>2, <2>1, <2>2 DEF LoadInv
<1> QED
  BY <1>3, <1>4, <1>5, <1>6, <1>7, <1>8, <1>9, <1>10 DEF OnStart

\* The first snapshot serves them, and no later one drops them.
LEMMA ServedStep ==
    ASSUME DataOK, LockInv, LoadInv, ServedInv, [Next]_vars
    PROVE  ServedInv'
<1> USE DEF storeVars, loadVars, subVars
<1>0. /\ ServedInv <=> (start = "done" /\ ~loadFailed => Served)
      /\ ServedInv' <=> (start' = "done" /\ ~loadFailed' => Served')
  BY DEF ServedInv
<1>1. ~GetMembers => Kept' \subseteq Kept
  BY SteadyShrinks DEF LoadInv, Kept
<1>2. CASE GetMembers \/ (\E p \in Projects : GetEach(p)) \/ FillRoutes
  <2>1. start' # "done"
    BY <1>2 DEF GetMembers, GetEach, FillRoutes
  <2> QED
    BY <1>0, <2>1, Zenon
<1>3. CASE LoadError
  BY <1>0, <1>3, Zenon DEF LoadError
<1>4. CASE FirstSnapshot
  <2>1. /\ start = "snapshot" /\ snapshot' \in Snapshots(routes)
        /\ UNCHANGED <<routes, steady>>
    BY <1>4, Zenon DEF FirstSnapshot
  <2>2. Kept' \subseteq routes' /\ routes \in SUBSET Projects
    BY <2>1 DEF LoadInv, Kept, DataOK
  <2>3. Served'
    BY <2>1, <2>2 DEF Served
  <2> QED
    BY <1>0, <2>3, Zenon
<1>5. ASSUME start' = start, loadFailed' = loadFailed, start = "done" /\ Served => Served'
      PROVE  ServedInv'
  BY <1>0, <1>5, Zenon
<1>6. CASE Subscriber \/ Receive \/ ReceiveError
  <2>1. UNCHANGED <<start, loadFailed, mu, routes, snapshot, steady>>
    BY <1>6, Zenon DEF Subscriber, Subscribe, SubscribeReturns, Receive, ReceiveError
  <2>2. Served => Served'
    BY <2>1 DEF Served, Kept
  <2> QED
    BY <1>5, <2>1, <2>2, Zenon
<1>7. CASE UpdateRoute
  <2>1. mu' = "write" /\ UNCHANGED <<start, loadFailed, snapshot, steady>>
    BY <1>7, Zenon DEF UpdateRoute
  <2>2. Served => Served'
    BY <2>1 DEF Served, Kept
  <2> QED
    BY <1>5, <2>1, <2>2, Zenon
<1>8. CASE UpdaterRLock
  <2>1. mu = "free" /\ UNCHANGED <<start, loadFailed, routes, snapshot, steady>>
    BY <1>8, Zenon DEF UpdaterRLock
  <2>2. Served => Served'
    BY <2>1 DEF Served, Kept
  <2> QED
    BY <1>5, <2>1, <2>2, Zenon
<1>9. CASE UpdaterSet
  <2>1. /\ updater = "build" /\ snapshot' \in Snapshots(routes)
        /\ UNCHANGED <<start, loadFailed, routes, steady>>
    BY <1>9, Zenon DEF UpdaterSet
  <2>2. mu # "write" /\ routes \in SUBSET Projects
    BY <2>1 DEF LockInv, DataOK
  <2>3. Served => Served'
    BY <2>1, <2>2 DEF Served, Kept
  <2> QED
    BY <1>5, <2>1, <2>3, Zenon
<1>10. CASE ~OnStart /\ ~Subscriber /\ ~Receiver /\ ~Updater
  <2>1. UNCHANGED <<start, loadFailed, mu, routes, snapshot>>
    BY <1>10, ServerAside, Zenon DEF serverVars, loadVars
  <2>2. Kept' \subseteq Kept
    BY <1>1, <1>10 DEF OnStart
  <2>3. Served => Served'
    BY <2>1, <2>2 DEF Served
  <2> QED
    BY <1>5, <2>1, <2>3, Zenon
<1> QED
  BY <1>2, <1>3, <1>4, <1>6, <1>7, <1>8, <1>9, <1>10, Zenon DEF OnStart, Receiver, Updater

\* A project that was mapped before the server started and stays mapped is
\* served by its own cluster as soon as the server is up, whatever the other
\* pipelines, the TTLs and the subscription do meanwhile.
THEOREM SteadyServed == Spec => []SteadyProjectsServed
<1>1. Init => LoadInv /\ ServedInv
  <2> SUFFICES ASSUME Init PROVE LoadInv /\ ServedInv
    OBVIOUS
  <2>1. start = "members" /\ steady = {}
    BY Zenon DEF Init
  <2> QED
    BY <2>1 DEF LoadInv, ServedInv
<1>2. TypeOK => DataOK
  BY Zenon DEF TypeOK, DataOK
<1>3. DataOK /\ LockInv /\ LoadInv /\ ServedInv /\ [Next]_vars => LoadInv' /\ ServedInv'
  BY LoadStep, ServedStep
<1>4. DataOK /\ ServedInv => SteadyProjectsServed
  <2> SUFFICES ASSUME DataOK, ServedInv, start = "done", ~loadFailed,
                      NEW p \in steady, Clean[p] = p
               PROVE  snapshot # NoSnapshot /\ RouteOf(p) = p
    BY Zenon DEF SteadyProjectsServed
  <2>1. Served
    BY Zenon DEF ServedInv
  <2>2. PICK R \in SUBSET Projects : Kept \subseteq R /\ snapshot \in Snapshots(R)
    BY <2>1 DEF Served
  <2>3. p \in R /\ p \in Projects
    BY <2>2 DEF Kept, DataOK
  <2>4. RouteOf(p) = p
    BY <2>2, <2>3, RouteOfSnapshot
  <2> QED
    BY <2>2, <2>4, SnapshotAssumption
<1> QED
  BY <1>1, <1>2, <1>3, <1>4, TypeCorrect, BuiltAlways, PTL DEF Spec
=============================================================================
