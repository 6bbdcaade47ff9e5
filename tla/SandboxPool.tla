---------------------------- MODULE SandboxPool ----------------------------
(***************************************************************************)
(* The pool of pre-created sandboxes: sandboxpool.Service over             *)
(* RedisSandboxPoolStore.                                                  *)
(*                                                                         *)
(* Two Redis sorted sets hold sandboxes whose pods are still starting      *)
(* (pending) and sandboxes that may be handed out (ready).  maintainPool   *)
(* moves started pods from one to the other and creates what is missing.   *)
(* It runs in the ticker goroutine and in a goroutine per GetSandbox call, *)
(* serialised by a mutex that is local to the scheduler process.  Each     *)
(* Redis command and each Kubernetes call is one atomic step.  The sorted  *)
(* sets are plain sets here: which member ZPOPMIN or the loop over the     *)
(* pending sandboxes takes first is left open.                             *)
(*                                                                         *)
(* Faults names what may go wrong in a run:                                *)
(*   "redis"    a Redis command returns an error, applied or not           *)
(*   "recount"  one of the two counts after the pending check fails        *)
(*   "k8s"      a Kubernetes call or ScheduleSandbox returns an error      *)
(*   "pod"      pods fail or are deleted (failure event, TTL cleanup)      *)
(*   "crash"    a scheduler process dies                                   *)
(***************************************************************************)
EXTENDS Integers, FiniteSets

CONSTANTS
    Tickers,         \* goroutines of runMaintenanceJob, one per process
    Triggers,        \* goroutines of triggerMaintenance, at most so many
    Processes,
    RunsIn,          \* the process of each goroutine
    Sandboxes,       \* bound: ids that can be created; then creation fails
    NoSandbox,
    PoolEnabled,
    PoolSize,
    PoolMaxPending,
    MaxGiven,        \* bound: sandboxes handed out
    Faults

Workers == Tickers \cup Triggers

ASSUME RunsInAssumption == RunsIn \in [Workers -> Processes]
ASSUME IdsAssumption == NoSandbox \notin Sandboxes /\ IsFiniteSet(Sandboxes)
ASSUME SizeAssumption == PoolSize \in Nat /\ PoolMaxPending \in Nat /\ MaxGiven \in Nat
ASSUME EnabledAssumption == PoolEnabled \in BOOLEAN
ASSUME FaultsAssumption == Faults \subseteq {"redis", "recount", "k8s", "pod", "crash"}

VARIABLES
    ready,     \* Redis sandbox-pool ready set
    pending,   \* Redis sandbox-pool pending set
    pod,       \* the phase of each sandbox's pod in Kubernetes
    given,     \* history: sandboxes GetSandbox handed out
    mu,        \* Service.mu of each process
    pc,        \* where each goroutine is in maintainPool
    todo,      \* pendingSandboxes that checkPendingSandboxes has yet to visit
    cur,       \* the sandbox being moved or created
    count,     \* readyCount after the recount
    budget     \* creations left of maxToCreate

storeVars == <<ready, pending>>
workVars  == <<mu, pc, todo, cur, count, budget>>
vars == <<ready, pending, pod, given, mu, pc, todo, cur, count, budget>>

-----------------------------------------------------------------------------
Phases == {"none", "starting", "running", "failed", "gone"}

\* maintainPool with the mutex held.
Body == {"count", "list", "check", "unpend", "addready", "recount",
         "recountPending", "create", "addpending"}

Fresh == {s \in Sandboxes : pod[s] = "none"}

SingleProcess == \A v, w \in Workers : RunsIn[v] = RunsIn[w]

Init ==
    /\ ready = {}
    /\ pending = {}
    /\ pod = [s \in Sandboxes |-> "none"]
    /\ given = {}
    /\ mu = [p \in Processes |-> FALSE]
    /\ pc = [w \in Workers |-> "idle"]
    /\ todo = [w \in Workers |-> {}]
    /\ cur = [w \in Workers |-> NoSandbox]
    /\ count = [w \in Workers |-> 0]
    /\ budget = [w \in Workers |-> 0]

-----------------------------------------------------------------------------
Goto(w, to) ==
    /\ pc' = [pc EXCEPT ![w] = to]
    /\ UNCHANGED <<mu, todo, cur, count, budget>>

\* maintainPool returns: the deferred Unlock runs and the locals are gone.
Unlock(w) ==
    /\ mu' = [mu EXCEPT ![RunsIn[w]] = FALSE]
    /\ pc' = [pc EXCEPT ![w] = "idle"]
    /\ todo' = [todo EXCEPT ![w] = {}]
    /\ cur' = [cur EXCEPT ![w] = NoSandbox]
    /\ count' = [count EXCEPT ![w] = 0]
    /\ budget' = [budget EXCEPT ![w] = 0]

-----------------------------------------------------------------------------
(* Entry points                                                             *)

\* The ticker fires.  Start launches the job only when PoolEnabled is set.
Tick(w) ==
    /\ PoolEnabled
    /\ w \in Tickers
    /\ pc[w] = "idle"
    /\ Goto(w, "lock")
    /\ UNCHANGED <<ready, pending, pod, given>>

\* GetSandbox: ZPOPMIN, then `go triggerMaintenance` whatever the answer.
\* An empty pool (ErrPoolEmpty) is left to the caller.
GetSandbox(w) ==
    /\ w \in Triggers
    /\ pc[w] = "idle"
    /\ \/ \E s \in ready :
             /\ Cardinality(given) < MaxGiven
             /\ ready' = ready \ {s}
             /\ given' = given \cup {s}
       \/ /\ ready = {}
          /\ UNCHANGED <<ready, given>>
    /\ Goto(w, "lock")
    /\ UNCHANGED <<pending, pod>>

\* The pop fails; when it was applied, the sandbox is in no set any more.
GetSandboxError(w) ==
    /\ "redis" \in Faults
    /\ w \in Triggers
    /\ pc[w] = "idle"
    /\ \/ UNCHANGED ready
       \/ \E s \in ready : ready' = ready \ {s}
    /\ Goto(w, "lock")
    /\ UNCHANGED <<pending, pod, given>>

\* Mutant: maintainPool runs without the mutex.
TryLockAlways(w) ==
    /\ pc[w] = "lock"
    /\ mu' = [mu EXCEPT ![RunsIn[w]] = TRUE]
    /\ pc' = [pc EXCEPT ![w] = "count"]
    /\ UNCHANGED <<todo, cur, count, budget>>
    /\ UNCHANGED <<ready, pending, pod, given>>

\* A goroutine that finds the mutex held gives up.
TryLock(w) ==
    /\ pc[w] = "lock"
    /\ IF mu[RunsIn[w]]
       THEN Goto(w, "idle")
       ELSE /\ mu' = [mu EXCEPT ![RunsIn[w]] = TRUE]
            /\ pc' = [pc EXCEPT ![w] = "count"]
            /\ UNCHANGED <<todo, cur, count, budget>>
    /\ UNCHANGED <<ready, pending, pod, given>>

-----------------------------------------------------------------------------
(* Moving started sandboxes from pending to ready                           *)

\* The counts at the start.  The ready count is only logged.
CountSandboxes(w) ==
    /\ pc[w] = "count"
    /\ Goto(w, IF pending # {} THEN "list" ELSE "recount")
    /\ UNCHANGED <<ready, pending, pod, given>>

\* Mutant: the early return skips the Unlock.
CountErrorKeepsLock(w) ==
    /\ "redis" \in Faults
    /\ pc[w] = "count"
    /\ Goto(w, "idle")
    /\ UNCHANGED <<ready, pending, pod, given>>

CountError(w) ==
    /\ "redis" \in Faults
    /\ pc[w] = "count"
    /\ Unlock(w)
    /\ UNCHANGED <<ready, pending, pod, given>>

GetPendingSandboxes(w) ==
    /\ pc[w] = "list"
    /\ pc' = [pc EXCEPT ![w] = "check"]
    /\ todo' = [todo EXCEPT ![w] = pending]
    /\ UNCHANGED <<mu, cur, count, budget>>
    /\ UNCHANGED <<ready, pending, pod, given>>

\* "Continue to create new sandboxes anyway"
ListError(w) ==
    /\ "redis" \in Faults
    /\ pc[w] = "list"
    /\ Goto(w, "recount")
    /\ UNCHANGED <<ready, pending, pod, given>>

\* Mutant: the loop variable is not kept for the move.
CheckReadyForgetsId(w, s) ==
    /\ pc[w] = "check"
    /\ s \in todo[w]
    /\ pod[s] = "running"
    /\ todo' = [todo EXCEPT ![w] = @ \ {s}]
    /\ pc' = [pc EXCEPT ![w] = "unpend"]
    /\ UNCHANGED <<mu, cur, count, budget>>
    /\ UNCHANGED <<ready, pending, pod, given>>

\* IsSandboxReady: a running pod moves on; any other one, and one whose
\* state cannot be read, is skipped.
CheckReady(w, s) ==
    /\ pc[w] = "check"
    /\ s \in todo[w]
    /\ todo' = [todo EXCEPT ![w] = @ \ {s}]
    /\ \/ /\ pod[s] = "running"
          /\ pc' = [pc EXCEPT ![w] = "unpend"]
          /\ cur' = [cur EXCEPT ![w] = s]
       \/ /\ pod[s] # "running" \/ "k8s" \in Faults
          /\ UNCHANGED <<pc, cur>>
    /\ UNCHANGED <<mu, count, budget>>
    /\ UNCHANGED <<ready, pending, pod, given>>

CheckDone(w) ==
    /\ pc[w] = "check"
    /\ todo[w] = {}
    /\ Goto(w, "recount")
    /\ UNCHANGED <<ready, pending, pod, given>>

\* Mutant: the sandbox leaves pending and is not made ready.
RemovePendingOnly(w) ==
    /\ pc[w] = "unpend"
    /\ pending' = pending \ {cur[w]}
    /\ Goto(w, "check")
    /\ UNCHANGED <<ready, pod, given>>

\* Mutant: the whole pending set is deleted (DEL for ZREM).
RemovePendingAll(w) ==
    /\ pc[w] = "unpend"
    /\ pending' = {}
    /\ Goto(w, "addready")
    /\ UNCHANGED <<ready, pod, given>>

\* ZREM pending.  The number of members removed is not looked at.
RemovePendingSandbox(w) ==
    /\ pc[w] = "unpend"
    /\ pending' = pending \ {cur[w]}
    /\ Goto(w, "addready")
    /\ UNCHANGED <<ready, pod, given>>

\* Mutant: no `continue` after the failed ZREM.
RemovePendingErrorGoesOn(w) ==
    /\ "redis" \in Faults
    /\ pc[w] = "unpend"
    /\ pending' \in {pending, pending \ {cur[w]}}
    /\ Goto(w, "addready")
    /\ UNCHANGED <<ready, pod, given>>

RemovePendingError(w) ==
    /\ "redis" \in Faults
    /\ pc[w] = "unpend"
    /\ pending' \in {pending, pending \ {cur[w]}}
    /\ Goto(w, "check")
    /\ UNCHANGED <<ready, pod, given>>

AddReadySandbox(w) ==
    /\ pc[w] = "addready"
    /\ ready' = ready \cup {cur[w]}
    /\ Goto(w, "check")
    /\ UNCHANGED <<pending, pod, given>>

\* Mutant: a sandbox whose ZADD failed is queued as pending again.
AddReadyErrorRequeues(w) ==
    /\ "redis" \in Faults
    /\ pc[w] = "addready"
    /\ ready' \in {ready, ready \cup {cur[w]}}
    /\ pending' = pending \cup {cur[w]}
    /\ Goto(w, "check")
    /\ UNCHANGED <<pod, given>>

\* Logged only: when it was not applied, the sandbox is in no set any more.
AddReadyError(w) ==
    /\ "redis" \in Faults
    /\ pc[w] = "addready"
    /\ ready' \in {ready, ready \cup {cur[w]}}
    /\ Goto(w, "check")
    /\ UNCHANGED <<pending, pod, given>>

-----------------------------------------------------------------------------
(* Creating what is missing                                                 *)

\* A failed count is 0: "readyCount, _ = ..."
RecountReady(w) ==
    /\ pc[w] = "recount"
    /\ \/ count' = [count EXCEPT ![w] = Cardinality(ready)]
       \/ /\ "recount" \in Faults
          /\ count' = [count EXCEPT ![w] = 0]
    /\ pc' = [pc EXCEPT ![w] = "recountPending"]
    /\ UNCHANGED <<mu, todo, cur, budget>>
    /\ UNCHANGED <<ready, pending, pod, given>>

\* Mutant: pending sandboxes do not count towards PoolSize.
MaxToCreateIgnoresPending(readyCount, pendingCount) ==
    LET needed == PoolSize - readyCount
        room == PoolMaxPending - pendingCount
    IN  IF needed <= 0 \/ room <= 0 THEN 0
        ELSE IF needed < room THEN needed ELSE room

\* Mutant: one place of PoolMaxPending is never used.
MaxToCreateOffByOne(readyCount, pendingCount) ==
    LET needed == PoolSize - readyCount - pendingCount
        room == PoolMaxPending - pendingCount - 1
    IN  IF needed <= 0 \/ room <= 0 THEN 0
        ELSE IF needed < room THEN needed ELSE room

\* maxToCreate for the counts maintainPool read.
MaxToCreate(readyCount, pendingCount) ==
    LET needed == PoolSize - readyCount - pendingCount
        room == PoolMaxPending - pendingCount
    IN  IF needed <= 0 \/ room <= 0 THEN 0
        ELSE IF needed < room THEN needed ELSE room

RecountPending(w) ==
    /\ pc[w] = "recountPending"
    /\ \E n \in {Cardinality(pending)} \cup (IF "recount" \in Faults THEN {0} ELSE {}) :
          LET create == MaxToCreate(count[w], n) IN
          IF create = 0
          THEN Unlock(w)
          ELSE /\ budget' = [budget EXCEPT ![w] = create]
               /\ pc' = [pc EXCEPT ![w] = "create"]
               /\ UNCHANGED <<mu, todo, cur, count>>
    /\ UNCHANGED <<ready, pending, pod, given>>

\* One turn of the loop is over.
NextCreation(w) ==
    IF budget[w] = 1
    THEN Unlock(w)
    ELSE /\ pc' = [pc EXCEPT ![w] = "create"]
         /\ budget' = [budget EXCEPT ![w] = @ - 1]
         /\ cur' = [cur EXCEPT ![w] = NoSandbox]
         /\ UNCHANGED <<mu, todo, count>>

CreatePoolSandbox(w, s) ==
    /\ pc[w] = "create"
    /\ s \in Fresh
    /\ pod' = [pod EXCEPT ![s] = "starting"]
    /\ cur' = [cur EXCEPT ![w] = s]
    /\ pc' = [pc EXCEPT ![w] = "addpending"]
    /\ UNCHANGED <<mu, todo, count, budget>>
    /\ UNCHANGED <<ready, pending, given>>

\* ScheduleSandbox fails, possibly with the pod admitted; the loop goes on.
CreateError(w) ==
    /\ pc[w] = "create"
    /\ "k8s" \in Faults \/ Fresh = {}
    /\ \/ UNCHANGED pod
       \/ \E s \in Fresh : pod' = [pod EXCEPT ![s] = "starting"]
    /\ NextCreation(w)
    /\ UNCHANGED <<ready, pending, given>>

AddPendingSandbox(w) ==
    /\ pc[w] = "addpending"
    /\ pending' = pending \cup {cur[w]}
    /\ NextCreation(w)
    /\ UNCHANGED <<ready, pod, given>>

AddPendingError(w) ==
    /\ "redis" \in Faults
    /\ pc[w] = "addpending"
    /\ pending' \in {pending, pending \cup {cur[w]}}
    /\ NextCreation(w)
    /\ UNCHANGED <<ready, pod, given>>

-----------------------------------------------------------------------------
(* The cluster and the processes                                            *)

PodStarts(s) ==
    /\ pod[s] = "starting"
    /\ pod' = [pod EXCEPT ![s] = "running"]
    /\ UNCHANGED <<ready, pending, given>>
    /\ UNCHANGED workVars

\* A pod fails (RestartPolicyNever), or is deleted by ReleaseSandbox (failure
\* event, TTL cleanup), which does not touch the pool's sets.
PodEnds(s) ==
    /\ "pod" \in Faults
    /\ \/ /\ pod[s] \in {"starting", "running"}
          /\ pod' = [pod EXCEPT ![s] = "failed"]
       \/ /\ pod[s] \in {"starting", "running", "failed"}
          /\ pod' = [pod EXCEPT ![s] = "gone"]
    /\ UNCHANGED <<ready, pending, given>>
    /\ UNCHANGED workVars

\* A process dies; its mutex and its goroutines go with it.
Crash(p) ==
    /\ "crash" \in Faults
    /\ \E w \in Workers : RunsIn[w] = p /\ pc[w] # "idle"
    /\ mu' = [mu EXCEPT ![p] = FALSE]
    /\ pc' = [w \in Workers |-> IF RunsIn[w] = p THEN "idle" ELSE pc[w]]
    /\ todo' = [w \in Workers |-> IF RunsIn[w] = p THEN {} ELSE todo[w]]
    /\ cur' = [w \in Workers |-> IF RunsIn[w] = p THEN NoSandbox ELSE cur[w]]
    /\ count' = [w \in Workers |-> IF RunsIn[w] = p THEN 0 ELSE count[w]]
    /\ budget' = [w \in Workers |-> IF RunsIn[w] = p THEN 0 ELSE budget[w]]
    /\ UNCHANGED <<ready, pending, pod, given>>

-----------------------------------------------------------------------------
\* A goroutine inside maintainPool.
Maintain(w) ==
    \/ TryLock(w)
    \/ CountSandboxes(w) \/ CountError(w)
    \/ GetPendingSandboxes(w) \/ ListError(w)
    \/ (\E s \in Sandboxes : CheckReady(w, s)) \/ CheckDone(w)
    \/ RemovePendingSandbox(w) \/ RemovePendingError(w)
    \/ AddReadySandbox(w) \/ AddReadyError(w)
    \/ RecountReady(w) \/ RecountPending(w)
    \/ (\E s \in Sandboxes : CreatePoolSandbox(w, s)) \/ CreateError(w)
    \/ AddPendingSandbox(w) \/ AddPendingError(w)

Next ==
    \/ \E w \in Workers : Tick(w) \/ GetSandbox(w) \/ GetSandboxError(w) \/ Maintain(w)
    \/ \E s \in Sandboxes : PodStarts(s) \/ PodEnds(s)
    \/ \E p \in Processes : Crash(p)

Spec == Init /\ [][Next]_vars

\* The ticker keeps firing, every call a goroutine makes comes back, and
\* Kubernetes starts the pods that do not fail.
Fairness ==
    /\ \A w \in Tickers : WF_vars(Tick(w))
    /\ \A w \in Workers : WF_vars(Maintain(w))
    /\ \A s \in Sandboxes : WF_vars(PodStarts(s))

FairSpec == Spec /\ Fairness

-----------------------------------------------------------------------------
TypeOK ==
    /\ ready \subseteq Sandboxes
    /\ pending \subseteq Sandboxes
    /\ pod \in [Sandboxes -> Phases]
    /\ given \subseteq Sandboxes
    /\ mu \in [Processes -> BOOLEAN]
    /\ pc \in [Workers -> Body \cup {"idle", "lock"}]
    /\ todo \in [Workers -> SUBSET Sandboxes]
    /\ cur \in [Workers -> Sandboxes \cup {NoSandbox}]
    /\ count \in [Workers -> Nat]
    /\ budget \in [Workers -> Nat]
    /\ \A w \in Workers :
          /\ pc[w] \in {"unpend", "addready", "addpending"} => cur[w] \in Sandboxes
          /\ pc[w] \in {"create", "addpending"} => budget[w] > 0

\* No sandbox is handed out twice: once GetSandbox popped it, no late move of
\* checkPendingSandboxes puts it back, as long as one process maintains.
HandedOutOnce == SingleProcess => ready \cap given = {}

\* A sandbox waits or is ready, never both, however a move fails half way or
\* a maintenance run dies between the ZREM and the ZADD.
PoolDisjoint == SingleProcess => ready \cap pending = {}

\* The pool never outgrows PoolSize, nor the pending part PoolMaxPending,
\* whatever interleaving of maintenance, hand-outs, failures and crashes; the
\* exceptions are a failed recount and two processes.
PoolBound ==
    SingleProcess /\ "recount" \notin Faults =>
        /\ Cardinality(ready) + Cardinality(pending) <= PoolSize
        /\ Cardinality(pending) <= PoolMaxPending

\* A sandbox the pool still knows of: pending, ready, handed out, or in the
\* hands of maintainPool.
Accounted(s) ==
    \/ s \in ready \cup pending \cup given
    \/ \E w \in Workers : cur[w] = s /\ pc[w] \in {"addready", "addpending"}

\* A step in which a call reports an error or a process dies.
FaultStep ==
    \/ \E w \in Workers :
          \/ GetSandboxError(w) \/ RemovePendingError(w) \/ AddReadyError(w)
          \/ CreateError(w) \/ AddPendingError(w)
    \/ \E p \in Processes : Crash(p)

\* No sandbox slips through the moves of maintainPool: one that was created
\* and is accounted for stays so, unless a call fails or the process dies.
PoolAccounted ==
    [][ \A s \in Sandboxes :
          pod'[s] # "none" /\ (Accounted(s) \/ pod[s] = "none") =>
              Accounted(s)' \/ FaultStep ]_vars

\* Sandboxes in the hands of maintainPool, on their way into a set.
InHand == {cur[w] : w \in {v \in Workers : pc[v] \in {"addready", "addpending"}}}

\* The life of the sandboxes as SandboxLife has it: whoever called GetSandbox
\* is the holder.
Life == INSTANCE SandboxLife WITH
    Holders <- {"caller"},
    unused <- Fresh,
    pooled <- ready \cup pending \cup InHand,
    held <- {"caller"} \X given

\* A sandbox passes through the pool once: however the moves, the hand-outs,
\* failed commands and crashes interleave, one that was handed out is never
\* pending, ready or on its way there again, and one that a failed call or a
\* crash dropped does not come back.  One process maintains the pool.
ImplementsLife == Life!Spec

\* The pool refills: once callers stop taking sandboxes it has PoolSize ready
\* ones for good, if nothing but a recount fails.
PoolRefills == <>[](Cardinality(ready) >= PoolSize)

\* maintainPool always lets the mutex go: it is held only while a goroutine
\* of the process is inside, so that no early return and no skipped step shuts
\* the later ticks out.
MutexHasHolder ==
    \A p \in Processes :
        mu[p] => \E w \in Workers : RunsIn[w] = p /\ pc[w] \in Body
=============================================================================
