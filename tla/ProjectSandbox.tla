--------------------------- MODULE ProjectSandbox ---------------------------
(***************************************************************************)
(* How a project gets, keeps and loses its sandbox: project.Service        *)
(* GetProjectSandbox and scheduler.Service ReleaseSandbox over the Redis   *)
(* mappings, the pods and the project's headless Service in Kubernetes.    *)
(*                                                                         *)
(* Every call of GetProjectSandbox runs in a goroutine of its own; two     *)
(* more goroutines release sandboxes, the event processor and the cleanup  *)
(* job.  Nothing is locked.  Each Redis command or pipeline and each       *)
(* Kubernetes call is one atomic step.  The pool and the idempotent        *)
(* ScheduleSandbox appear by their outcomes: SandboxPool and Idempotence   *)
(* have the details.  The set of all projects and the update messages,     *)
(* which the same pipelines write, are read by the xDS server only and are *)
(* not part of this module.                                                *)
(*                                                                         *)
(* Faults names what may go wrong in a run:                                *)
(*   "redis"   a Redis command or pipeline fails; a prefix is applied      *)
(*   "k8s"     a Kubernetes call fails, applied or not                     *)
(*   "lease"   ScheduleSandbox creates twice for a key or records nothing  *)
(*   "pod"     pods disappear without having been deleted                  *)
(*   "expire"  Redis keys reach their TTL                                  *)
(*   "crash"   the scheduler process dies                                  *)
(*   "overlap" several processes run side by side (a rolling update): each *)
(*             has its own pool mutex, and one of them may die alone       *)
(***************************************************************************)
EXTENDS Naturals

CONSTANTS
    Callers,      \* bound: concurrent GetProjectSandbox calls
    Releasers,    \* the event processor and the cleanup job
    Projects,
    NoProject,
    Clean,        \* NewProjectID on a stored id: one "project-" prefix less
    Sandboxes,    \* bound: ids that can be created
    NoSandbox,
    MaxRequests,  \* bound: GetProjectSandbox calls
    MaxReleases,  \* bound: ReleaseSandbox calls
    Faults

ASSUME ProjectsAssumption == NoProject \notin Projects
ASSUME CleanAssumption == Clean \in [Projects -> Projects \cup {NoProject}]
ASSUME SandboxAssumption == NoSandbox \notin Sandboxes
ASSUME BoundsAssumption == MaxRequests \in Nat /\ MaxReleases \in Nat
ASSUME ProjectFaultsAssumption ==
    Faults \subseteq {"redis", "k8s", "lease", "pod", "expire", "crash", "overlap"}

VARIABLES
    mapping,    \* Redis project:<id>: the project's sandbox
    owner,      \* Redis sandbox:<id>: the reverse mapping
    released,   \* Redis released:<id> markers
    record,     \* the idempotence record under the project's id
    ready,      \* the ready set of the pool
    doubled,    \* sandboxes that several processes have listed as pending
    pod,        \* the phase of each sandbox's pod
    service,    \* the sandbox each project's Service selects
    pc, proj, sbx,         \* each call: its position, project and sandbox
    stale,      \* the Service was written after the call read it
    rpc, rsbx, rproj,      \* each release: position, sandbox, project found
    requests, releases,    \* how many calls of either kind there were
    troubled    \* history: projects whose calls overlapped or failed half way

storeVars   == <<mapping, owner, released, record>>
clusterVars == <<ready, doubled, pod, service>>
callVars    == <<pc, proj, sbx, stale, requests>>
releaseVars == <<rpc, rsbx, rproj, releases>>
vars == <<mapping, owner, released, record, ready, doubled, pod, service,
          pc, proj, sbx, stale, rpc, rsbx, rproj, requests, releases, troubled>>

-----------------------------------------------------------------------------
\* A pod that was deleted exists until its grace period is over.  Whether an
\* existing pod is starting, ready or failed makes no difference here.
Phases == {"none", "exists", "deleted", "gone"}

Fresh == {s \in Sandboxes : pod[s] = "none"}

\* Positions at which the call has a sandbox for the project in its hands.
Assigning == {"record", "set", "svcget", "svccreate", "svcupdate", "wait"}

InService == {"svcget", "svccreate", "svcupdate"}

Init ==
    /\ mapping = [p \in Projects |-> NoSandbox]
    /\ owner = [s \in Sandboxes |-> NoProject]
    /\ released = {}
    /\ record = [p \in Projects |-> NoSandbox]
    /\ ready = {} /\ doubled = {}
    /\ pod = [s \in Sandboxes |-> "none"]
    /\ service = [p \in Projects |-> NoSandbox]
    /\ pc = [c \in Callers |-> "idle"]
    /\ proj = [c \in Callers |-> NoProject]
    /\ sbx = [c \in Callers |-> NoSandbox]
    /\ stale = [c \in Callers |-> FALSE]
    /\ rpc = [r \in Releasers |-> "idle"]
    /\ rsbx = [r \in Releasers |-> NoSandbox]
    /\ rproj = [r \in Releasers |-> NoProject]
    /\ requests = 0
    /\ releases = 0
    /\ troubled = {}

-----------------------------------------------------------------------------
\* A call moves on, with the sandbox it now holds.
Step(c, to, s) ==
    /\ pc' = [pc EXCEPT ![c] = to]
    /\ sbx' = [sbx EXCEPT ![c] = s]
    /\ UNCHANGED <<proj, stale, requests>>

Goto(c, to) == Step(c, to, sbx[c])

\* The call answers its client and its locals are gone.
Return(c) ==
    /\ pc' = [pc EXCEPT ![c] = "idle"]
    /\ proj' = [proj EXCEPT ![c] = NoProject]
    /\ sbx' = [sbx EXCEPT ![c] = NoSandbox]
    /\ stale' = [stale EXCEPT ![c] = FALSE]
    /\ UNCHANGED requests

-----------------------------------------------------------------------------
(* GetProjectSandbox: is there a sandbox?                                   *)

Request(c, p) ==
    /\ pc[c] = "idle"
    /\ requests < MaxRequests
    /\ requests' = requests + 1
    /\ pc' = [pc EXCEPT ![c] = "get"]
    /\ proj' = [proj EXCEPT ![c] = p]
    /\ troubled' = IF \E d \in Callers : proj[d] = p THEN troubled \cup {p} ELSE troubled
    /\ UNCHANGED <<sbx, stale>>
    /\ UNCHANGED <<storeVars, clusterVars, releaseVars>>

\* Mutant: the id read is not kept.
GetMappingForgetsId(c) ==
    /\ pc[c] = "get"
    /\ Goto(c, IF mapping[proj[c]] # NoSandbox THEN "released" ELSE "pool")
    /\ UNCHANGED <<storeVars, clusterVars, releaseVars, troubled>>

\* store.GetProjectSandbox.  A failed read counts as "no sandbox".
GetMapping(c) ==
    /\ pc[c] = "get"
    /\ \/ /\ mapping[proj[c]] # NoSandbox
          /\ Step(c, "released", mapping[proj[c]])
       \/ /\ mapping[proj[c]] = NoSandbox \/ "redis" \in Faults
          /\ Goto(c, "pool")
    /\ UNCHANGED <<storeVars, clusterVars, releaseVars, troubled>>

\* IsSandboxGone, first half: the released marker.  A failed read is ignored.
CheckReleased(c) ==
    /\ pc[c] = "released"
    /\ \/ /\ sbx[c] \in released
          /\ Step(c, "pool", NoSandbox)
       \/ /\ sbx[c] \notin released \/ "redis" \in Faults
          /\ Goto(c, "alive")
    /\ UNCHANGED <<storeVars, clusterVars, releaseVars, troubled>>

\* Second half: a pod that exists, whatever its phase, is the answer.  When
\* Kubernetes cannot tell, a new sandbox is created.
CheckGone(c) ==
    /\ pc[c] = "alive"
    /\ \/ /\ pod[sbx[c]] = "gone" \/ "k8s" \in Faults
          /\ Step(c, "pool", NoSandbox)
       \/ /\ pod[sbx[c]] # "gone"
          /\ Return(c)
    /\ UNCHANGED <<storeVars, clusterVars, releaseVars, troubled>>

-----------------------------------------------------------------------------
(* GetProjectSandbox: a new sandbox                                         *)

\* Mutant: the sandbox is read from the pool and stays in it.
GetSandboxPeek(c) ==
    /\ pc[c] = "pool"
    /\ \/ \E s \in ready : Step(c, "set", s)
       \/ /\ ready = {}
          /\ Goto(c, "schedule")
    /\ UNCHANGED ready
    /\ UNCHANGED <<storeVars, doubled, pod, service, releaseVars, troubled>>

\* The pool's ZPOPMIN; ErrPoolEmpty leads to ScheduleSandbox.
GetSandbox(c) ==
    /\ pc[c] = "pool"
    /\ \/ \E s \in ready :
             /\ ready' = ready \ {s}
             /\ Step(c, "set", s)
       \/ /\ ready = {}
          /\ UNCHANGED ready
          /\ Goto(c, "schedule")
    /\ UNCHANGED <<storeVars, doubled, pod, service, releaseVars, troubled>>

\* Any other error of the pool ends the call.
GetSandboxError(c) ==
    /\ "redis" \in Faults
    /\ pc[c] = "pool"
    /\ \/ UNCHANGED ready
       \/ \E s \in ready : ready' = ready \ {s}
    /\ Return(c)
    /\ UNCHANGED <<storeVars, doubled, pod, service, releaseVars, troubled>>

\* Mutant: the record is looked up under an id that lost its prefix once more.
ReuseRecordedCleaned(c) ==
    /\ pc[c] = "schedule"
    /\ record[Clean[proj[c]]] # NoSandbox
    /\ Step(c, "set", record[Clean[proj[c]]])
    /\ UNCHANGED <<storeVars, clusterVars, releaseVars, troubled>>

\* ScheduleSandbox finds the record of an earlier call.
ReuseRecorded(c) ==
    /\ pc[c] = "schedule"
    /\ record[proj[c]] # NoSandbox
    /\ Step(c, "set", record[proj[c]])
    /\ UNCHANGED <<storeVars, clusterVars, releaseVars, troubled>>

\* ScheduleSandbox creates a pod; see Idempotence for when it does so twice.
CreateSandbox(c, s) ==
    /\ pc[c] = "schedule"
    /\ s \in Fresh
    /\ \/ /\ record[proj[c]] = NoSandbox
          /\ \A d \in Callers : pc[d] = "record" => proj[d] # proj[c]
       \/ "lease" \in Faults
    /\ pod' = [pod EXCEPT ![s] = "exists"]
    /\ Step(c, "record", s)
    /\ UNCHANGED <<storeVars, ready, doubled, service, releaseVars, troubled>>

\* Complete: the sandbox is recorded, or that fails and is only logged.
RecordSandbox(c) ==
    /\ pc[c] = "record"
    /\ \/ record' = [record EXCEPT ![proj[c]] = sbx[c]]
       \/ /\ "lease" \in Faults
          /\ UNCHANGED record
    /\ Goto(c, "set")
    /\ UNCHANGED <<mapping, owner, released, clusterVars, releaseVars, troubled>>

\* ScheduleSandbox fails or times out, possibly with the pod admitted.
ScheduleError(c) ==
    /\ pc[c] = "schedule"
    /\ Faults \cap {"k8s", "lease"} # {} \/ Fresh = {}
    /\ \/ UNCHANGED pod
       \/ \E s \in Fresh : pod' = [pod EXCEPT ![s] = "exists"]
    /\ Return(c)
    /\ UNCHANGED <<storeVars, ready, doubled, service, releaseVars, troubled>>

-----------------------------------------------------------------------------
(* GetProjectSandbox: mapping, Service, answer                              *)

\* Mutant: the reverse mapping is not written.
SetForwardOnly(c) ==
    /\ pc[c] = "set"
    /\ mapping' = [mapping EXCEPT ![proj[c]] = sbx[c]]
    /\ Goto(c, "svcget")
    /\ UNCHANGED <<owner, released, record, clusterVars, releaseVars, troubled>>

\* The pipeline of SetProjectSandbox.  What the project mapped to before, and
\* that sandbox's own reverse mapping, are not looked at.
SetProjectSandbox(c) ==
    /\ pc[c] = "set"
    /\ mapping' = [mapping EXCEPT ![proj[c]] = sbx[c]]
    /\ owner' = [owner EXCEPT ![sbx[c]] = proj[c]]
    /\ Goto(c, "svcget")
    /\ UNCHANGED <<released, record, clusterVars, releaseVars, troubled>>

\* "Continue anyway, the sandbox is created"; a prefix may have been applied.
SetProjectSandboxError(c) ==
    /\ "redis" \in Faults
    /\ pc[c] = "set"
    /\ \E done \in 0..2 :
          /\ mapping' = IF done >= 1 THEN [mapping EXCEPT ![proj[c]] = sbx[c]] ELSE mapping
          /\ owner' = IF done >= 2 THEN [owner EXCEPT ![sbx[c]] = proj[c]] ELSE owner
    /\ troubled' = troubled \cup {proj[c]}
    /\ Goto(c, "svcget")
    /\ UNCHANGED <<released, record, clusterVars, releaseVars>>

\* CreateOrUpdateProjectService: any error of the Get means "doesn't exist".
GetService(c) ==
    /\ pc[c] = "svcget"
    /\ \/ /\ service[proj[c]] # NoSandbox
          /\ Goto(c, "svcupdate")
          /\ UNCHANGED troubled
       \/ /\ service[proj[c]] = NoSandbox
          /\ Goto(c, "svccreate")
          /\ UNCHANGED troubled
       \/ /\ "k8s" \in Faults
          /\ Goto(c, "svccreate")
          /\ troubled' = troubled \cup {proj[c]}
    /\ UNCHANGED <<storeVars, clusterVars, releaseVars>>

\* The Service is done, or failed and that was logged.  Whether the call now
\* waits is a parameter of the request.
AfterService(c) ==
    /\ \/ /\ pc' = [pc EXCEPT ![c] = "wait"]
          /\ UNCHANGED <<proj, sbx>>
       \/ /\ pc' = [pc EXCEPT ![c] = "idle"]
          /\ proj' = [proj EXCEPT ![c] = NoProject]
          /\ sbx' = [sbx EXCEPT ![c] = NoSandbox]
    /\ UNCHANGED requests

\* A write of the Service makes the copies other calls have read outdated.
WriteService(c) ==
    /\ service' = [service EXCEPT ![proj[c]] = sbx[c]]
    /\ stale' = [d \in Callers |->
                    d # c /\ (stale[d] \/ (pc[d] = "svcupdate" /\ proj[d] = proj[c]))]

\* A Service that exists by now makes the Create fail.
CreateService(c) ==
    /\ pc[c] = "svccreate"
    /\ IF service[proj[c]] = NoSandbox
       THEN WriteService(c)
       ELSE UNCHANGED <<service, stale>>
    /\ AfterService(c)
    /\ UNCHANGED <<storeVars, ready, doubled, pod, releaseVars, troubled>>

\* Mutant: the selector of the existing Service is not replaced.
UpdateKeepsSelector(c) ==
    /\ pc[c] = "svcupdate"
    /\ stale' = [stale EXCEPT ![c] = FALSE]
    /\ AfterService(c)
    /\ UNCHANGED <<storeVars, clusterVars, releaseVars, troubled>>

\* Kubernetes refuses the Update of an outdated copy (Conflict).
UpdateService(c) ==
    /\ pc[c] = "svcupdate"
    /\ IF stale[c]
       THEN /\ UNCHANGED service
            /\ stale' = [stale EXCEPT ![c] = FALSE]
       ELSE WriteService(c)
    /\ AfterService(c)
    /\ UNCHANGED <<storeVars, ready, doubled, pod, releaseVars, troubled>>

\* The write fails, applied or not.
ServiceError(c) ==
    /\ "k8s" \in Faults
    /\ pc[c] \in {"svccreate", "svcupdate"}
    /\ \/ WriteService(c)
       \/ /\ UNCHANGED service
          /\ stale' = [stale EXCEPT ![c] = FALSE]
    /\ AfterService(c)
    /\ troubled' = troubled \cup {proj[c]}
    /\ UNCHANGED <<storeVars, ready, doubled, pod, releaseVars>>

\* WaitForSandboxReady ends: the pod is ready or gone, or the first look
\* fails, or the client's context ends.  The mapping stays in any case.
WaitForSandboxReady(c) ==
    /\ pc[c] = "wait"
    /\ Return(c)
    /\ UNCHANGED <<storeVars, clusterVars, releaseVars, troubled>>

-----------------------------------------------------------------------------
(* ReleaseSandbox                                                           *)

\* The event processor takes an event about the pod (failed, completed,
\* unschedulable, cannot start), or the cleanup job comes to an old pod; the
\* pod may be gone by then.
Release(r, s) ==
    /\ rpc[r] = "idle"
    /\ s \notin Fresh
    /\ releases < MaxReleases
    /\ releases' = releases + 1
    /\ rpc' = [rpc EXCEPT ![r] = "find"]
    /\ rsbx' = [rsbx EXCEPT ![r] = s]
    /\ UNCHANGED rproj
    /\ UNCHANGED <<storeVars, clusterVars, callVars, troubled>>

\* FindProjectForSandbox.  An id that cleans to nothing is an error, and an
\* error skips the whole removal, the released marker included.
FindProject(r) ==
    /\ rpc[r] = "find"
    /\ \/ /\ owner[rsbx[r]] = NoProject
          /\ rpc' = [rpc EXCEPT ![r] = "remove"]
          /\ UNCHANGED rproj
       \/ /\ owner[rsbx[r]] # NoProject
          /\ Clean[owner[rsbx[r]]] # NoProject
          /\ rpc' = [rpc EXCEPT ![r] = "remove"]
          /\ rproj' = [rproj EXCEPT ![r] = Clean[owner[rsbx[r]]]]
       \/ /\ \/ "redis" \in Faults
             \/ owner[rsbx[r]] # NoProject /\ Clean[owner[rsbx[r]]] = NoProject
          /\ rpc' = [rpc EXCEPT ![r] = "delete"]
          /\ UNCHANGED rproj
    /\ UNCHANGED <<rsbx, releases>>
    /\ UNCHANGED <<storeVars, clusterVars, callVars, troubled>>

\* The first n commands of the pipeline of RemoveSandboxMapping.  Without a
\* project there is only the marker.  The project's mapping goes whatever
\* sandbox it names by now.
RemovePrefix(r, n) ==
    LET found == rproj[r] # NoProject IN
    /\ owner' = IF found /\ n >= 1 THEN [owner EXCEPT ![rsbx[r]] = NoProject] ELSE owner
    /\ mapping' = IF found /\ n >= 2 THEN [mapping EXCEPT ![rproj[r]] = NoSandbox] ELSE mapping
    /\ released' = IF n >= 3 THEN released \cup {rsbx[r]} ELSE released
    /\ rpc' = [rpc EXCEPT ![r] = "delete"]
    /\ rproj' = [rproj EXCEPT ![r] = NoProject]
    /\ UNCHANGED <<rsbx, releases, record, clusterVars, callVars>>

RemoveSandboxMapping(r) ==
    /\ rpc[r] = "remove"
    /\ RemovePrefix(r, 3)
    /\ UNCHANGED troubled

\* The error is logged and the pod deleted all the same.
RemoveSandboxMappingError(r) ==
    /\ "redis" \in Faults
    /\ rpc[r] = "remove"
    /\ \E n \in 0..3 : RemovePrefix(r, n)
    /\ UNCHANGED troubled

ReleaseDone(r) ==
    /\ rpc' = [rpc EXCEPT ![r] = "idle"]
    /\ rsbx' = [rsbx EXCEPT ![r] = NoSandbox]
    /\ UNCHANGED <<rproj, releases>>

\* Kubernetes deletes the pod after its grace period.
DeletePod(r) ==
    /\ rpc[r] = "delete"
    /\ pod' = [pod EXCEPT ![rsbx[r]] = IF @ = "gone" THEN "gone" ELSE "deleted"]
    /\ ReleaseDone(r)
    /\ UNCHANGED <<storeVars, ready, doubled, service, callVars, troubled>>

DeletePodError(r) ==
    /\ "k8s" \in Faults
    /\ rpc[r] = "delete"
    /\ ReleaseDone(r)
    /\ UNCHANGED <<storeVars, clusterVars, callVars, troubled>>

-----------------------------------------------------------------------------
(* The pool, the cluster, Redis and the process                             *)

\* maintainPool has made a new sandbox ready (module SandboxPool).  Another
\* process may have listed it as pending too.
PoolRefill(s) ==
    /\ s \in Fresh
    /\ pod' = [pod EXCEPT ![s] = "exists"]
    /\ ready' = ready \cup {s}
    /\ \/ UNCHANGED doubled
       \/ "overlap" \in Faults /\ doubled' = doubled \cup {s}
    /\ UNCHANGED <<storeVars, service, callVars, releaseVars, troubled>>

\* That process comes to it: its ZREM removes nothing, which is not noticed,
\* and the ZADD makes the sandbox ready again, though it may be handed out.
PoolRelist(s) ==
    /\ s \in doubled
    /\ ready' = ready \cup {s}
    /\ UNCHANGED <<storeVars, doubled, pod, service, callVars, releaseVars, troubled>>

\* The grace period is over, or the node is lost.
PodGone(s) ==
    /\ pod[s] = "deleted" \/ (pod[s] = "exists" /\ "pod" \in Faults)
    /\ pod' = [pod EXCEPT ![s] = "gone"]
    /\ UNCHANGED <<storeVars, ready, doubled, service, callVars, releaseVars, troubled>>

\* The two mappings of a project and its sandbox are written together with
\* the same TTL and expire together, unless another project has written the
\* reverse mapping since.
ExpireMapping(p) ==
    /\ "expire" \in Faults
    /\ mapping[p] # NoSandbox
    /\ mapping' = [mapping EXCEPT ![p] = NoSandbox]
    /\ owner' = [owner EXCEPT ![mapping[p]] = IF @ = p THEN NoProject ELSE @]
    /\ UNCHANGED <<released, record, clusterVars, callVars, releaseVars, troubled>>

\* The reverse mapping of a sandbox the project no longer maps to.
ExpireOwner(s) ==
    /\ "expire" \in Faults
    /\ owner[s] # NoProject
    /\ mapping[owner[s]] # s
    /\ owner' = [owner EXCEPT ![s] = NoProject]
    /\ UNCHANGED <<mapping, released, record, clusterVars, callVars, releaseVars, troubled>>

\* Released markers live 5 minutes, idempotence records 10.
ExpireReleased(s) ==
    /\ "expire" \in Faults
    /\ s \in released
    /\ released' = released \ {s}
    /\ UNCHANGED <<mapping, owner, record, clusterVars, callVars, releaseVars, troubled>>

ExpireRecord(p) ==
    /\ "expire" \in Faults
    /\ record[p] # NoSandbox
    /\ record' = [record EXCEPT ![p] = NoSandbox]
    /\ UNCHANGED <<mapping, owner, released, clusterVars, callVars, releaseVars, troubled>>

\* The calls C and the releases R of a process end where they are: all there
\* are, unless a second process runs.
Crash ==
    /\ "crash" \in Faults
    /\ \E C \in SUBSET Callers, R \in SUBSET Releasers :
          /\ "overlap" \in Faults \/ (C = Callers /\ R = Releasers)
          /\ pc' = [c \in Callers |-> IF c \in C THEN "idle" ELSE pc[c]]
          /\ proj' = [c \in Callers |-> IF c \in C THEN NoProject ELSE proj[c]]
          /\ sbx' = [c \in Callers |-> IF c \in C THEN NoSandbox ELSE sbx[c]]
          /\ stale' = [c \in Callers |-> c \notin C /\ stale[c]]
          /\ rpc' = [r \in Releasers |-> IF r \in R THEN "idle" ELSE rpc[r]]
          /\ rsbx' = [r \in Releasers |-> IF r \in R THEN NoSandbox ELSE rsbx[r]]
          /\ rproj' = [r \in Releasers |-> IF r \in R THEN NoProject ELSE rproj[r]]
          /\ troubled' = troubled \cup {p \in Projects :
                            \E c \in C : proj[c] = p /\ pc[c] \in InService}
    /\ UNCHANGED <<storeVars, clusterVars, requests, releases>>

-----------------------------------------------------------------------------
Call(c) ==
    \/ GetMapping(c) \/ CheckReleased(c) \/ CheckGone(c)
    \/ GetSandbox(c) \/ GetSandboxError(c)
    \/ ReuseRecorded(c) \/ (\E s \in Sandboxes : CreateSandbox(c, s))
    \/ RecordSandbox(c) \/ ScheduleError(c)
    \/ SetProjectSandbox(c) \/ SetProjectSandboxError(c)
    \/ GetService(c) \/ CreateService(c) \/ UpdateService(c) \/ ServiceError(c)
    \/ WaitForSandboxReady(c)

Releasing(r) ==
    \/ FindProject(r)
    \/ RemoveSandboxMapping(r) \/ RemoveSandboxMappingError(r)
    \/ DeletePod(r) \/ DeletePodError(r)

Environment ==
    \/ \E s \in Sandboxes :
          \/ PoolRefill(s) \/ PoolRelist(s) \/ PodGone(s)
          \/ ExpireOwner(s) \/ ExpireReleased(s)
    \/ \E p \in Projects : ExpireMapping(p) \/ ExpireRecord(p)
    \/ Crash

Next ==
    \/ \E c \in Callers, p \in Projects : Request(c, p)
    \/ \E c \in Callers : Call(c)
    \/ \E r \in Releasers, s \in Sandboxes : Release(r, s)
    \/ \E r \in Releasers : Releasing(r)
    \/ Environment

Spec == Init /\ [][Next]_vars

-----------------------------------------------------------------------------
TypeOK ==
    /\ mapping \in [Projects -> Sandboxes \cup {NoSandbox}]
    /\ owner \in [Sandboxes -> Projects \cup {NoProject}]
    /\ released \subseteq Sandboxes
    /\ record \in [Projects -> Sandboxes \cup {NoSandbox}]
    /\ ready \subseteq Sandboxes /\ doubled \subseteq Sandboxes
    /\ pod \in [Sandboxes -> Phases]
    /\ service \in [Projects -> Sandboxes \cup {NoSandbox}]
    /\ pc \in [Callers -> {"idle", "get", "released", "alive", "pool", "schedule"} \cup Assigning]
    /\ proj \in [Callers -> Projects \cup {NoProject}]
    /\ sbx \in [Callers -> Sandboxes \cup {NoSandbox}]
    /\ stale \in [Callers -> BOOLEAN]
    /\ rpc \in [Releasers -> {"idle", "find", "remove", "delete"}]
    /\ rsbx \in [Releasers -> Sandboxes \cup {NoSandbox}]
    /\ rproj \in [Releasers -> Projects \cup {NoProject}]
    /\ requests \in Nat
    /\ releases \in Nat
    /\ troubled \subseteq Projects
    /\ \A c \in Callers : pc[c] # "idle" <=> proj[c] \in Projects
    /\ \A c \in Callers : pc[c] \in Assigning \cup {"released", "alive"} <=> sbx[c] \in Sandboxes
    /\ \A r \in Releasers : rpc[r] # "idle" => rsbx[r] \in Sandboxes

\* A project has got hold of a sandbox: a mapping, the Service, a record or a
\* call of the project names it.
Holds(p, s) ==
    \/ mapping[p] = s \/ service[p] = s \/ record[p] = s \/ owner[s] = p
    \/ \E c \in Callers : proj[c] = p /\ sbx[c] = s

\* Two projects never share a sandbox, and one that waits in the pool belongs
\* to nobody, through concurrent calls, expired or half-written mappings,
\* releases and crashes.  The one exception is a sandbox that two processes
\* have moved into the ready set during a rolling update, which the pool may
\* hand out twice; no other sandbox is drawn into that.
TenantIsolation ==
    \A s \in Sandboxes \ doubled :
        /\ \A p, q \in Projects : Holds(p, s) /\ Holds(q, s) => p = q
        /\ s \in ready \cup Fresh => \A p \in Projects : ~Holds(p, s)

\* The life of the sandboxes as SandboxLife has it: projects are the holders.
\* A sandbox that several processes move has left it.
Life == INSTANCE SandboxLife WITH
    Holders <- Projects,
    unused <- Fresh,
    pooled <- ready \ doubled,
    held <- {h \in Projects \X Sandboxes : h[2] \notin doubled /\ Holds(h[1], h[2])}

\* A sandbox that at most one process moved serves one project and is never
\* reused: it does not return to the pool or pass to another project, however
\* its mapping, its reverse mapping, its record and its Service are lost,
\* overwritten or expire one by one.
ImplementsLife == Life!Spec

\* The sandbox a project maps to does not name the project.
Torn(p) == mapping[p] # NoSandbox /\ owner[mapping[p]] # p

\* A pipeline of SetProjectSandbox or RemoveSandboxMapping breaks off.
BrokenPipeline ==
    \/ \E c \in Callers : SetProjectSandboxError(c)
    \/ \E r \in Releasers : RemoveSandboxMappingError(r)

\* A release can find what it has to remove: the mapping of a project and the
\* reverse mapping of its sandbox come apart only when a pipeline breaks off
\* half way, though calls of the project overlap and releases act on what they
\* looked up before.  Left out are sandboxes that several processes moved, and
\* projects whose id is not read back as it was written.
ReverseMapped ==
    [][ \A p \in Projects :
          Clean[p] = p /\ Torn(p)' /\ mapping'[p] \notin doubled' =>
              \/ Torn(p) /\ mapping[p] = mapping'[p]
              \/ BrokenPipeline ]_vars

\* A project whose calls come one at a time and succeed is routed to the
\* sandbox it maps to: between calls the Service selects that sandbox.
ServiceFollowsMapping ==
    \A p \in Projects \ troubled :
        \/ mapping[p] \in {NoSandbox, service[p]}
        \/ \E c \in Callers : proj[c] = p /\ pc[c] \in InService

\* project.proto:33 "hostname to use to send traffic", with
\* project.proto:27 "the ID of the active sandbox for the project": between
\* calls the hostname leads to the sandbox in the answer.
HostnameReachesSandbox ==
    (\A c \in Callers : pc[c] = "idle") =>
        \A p \in Projects : mapping[p] \in {NoSandbox, service[p]}

\* project/service.go:89 "Create a new sandbox for the project", reached when
\* the old one is gone: what ScheduleSandbox returns is not a sandbox that was
\* released.
GoneIsReplaced ==
    [][ \A c \in Callers :
          pc[c] = "schedule" /\ pc'[c] = "set" => sbx'[c] \notin released ]_vars
=============================================================================
