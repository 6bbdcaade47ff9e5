----------------------------- MODULE XdsRoutes -----------------------------
(***************************************************************************)
(* The routes the xDS server gives to Envoy, and the Redis data it builds  *)
(* them from.                                                              *)
(*                                                                         *)
(* At start the server reads the set of all projects and the mapping of    *)
(* each; then it subscribes to the update messages, and a ticker writes    *)
(* the snapshot again every ten seconds.  Mappings are written and removed *)
(* meanwhile by pipelines, whose commands Redis may interleave with those  *)
(* of other clients: each command is one atomic step.  The snapshot sends  *)
(* a project with a route to the cluster of its Service, whichever sandbox *)
(* that selects, so that only the projects of mappings and routes matter.  *)
(*                                                                         *)
(* Faults names what may go wrong in a run:                                *)
(*   "redis"   a pipeline stops half way, or the load at start fails       *)
(*   "expire"  Redis keys reach their TTL                                  *)
(***************************************************************************)
EXTENDS Naturals, Sequences, FiniteSets

CONSTANTS
    Writers,      \* bound: goroutines that set or remove mappings
    Projects,
    NoProject,
    Activator,    \* the cluster of the fallback route
    NoSnapshot,
    Clean,        \* NewProjectID on a stored id: one "project-" prefix less
    Parse,        \* what the subscriber's goroutine makes of each message
    NoMessage,
    MaxWrites,    \* bound: pipelines
    Faults

Messages == [project : Projects, removal : BOOLEAN]

ASSUME XdsAssumption ==
    /\ NoProject \notin Projects /\ Activator \notin Projects
    /\ IsFiniteSet(Projects)
    /\ NoMessage \notin Messages
    /\ Clean \in [Projects -> Projects \cup {NoProject}]
    /\ Parse \in [Messages -> Messages \cup {NoMessage}]
    /\ MaxWrites \in Nat
    /\ Faults \subseteq {"redis", "expire"}

VARIABLES
    mapped,      \* projects with a Redis key project:<id>
    listed,      \* the Redis set of all projects
    outlives,    \* mappings written since the TTL of the set was renewed
    wpc, wproj,  \* each writer: the command it sends next, and the project
    writes,      \* how many pipelines there were
    start,       \* where OnStart is
    toGet, got,  \* GetAllProjectSandboxMappings: ids to read, result
    sub, inbox,  \* the subscription and the messages it delivered
    receiver,    \* the goroutine of SubscribeToProjectSandboxUpdates
    msg,         \* the update it was called back with
    updater,     \* backgroundUpdater
    mu,          \* Service.mu: "free", "read" or "write"
    routes,      \* Service.routes
    snapshot,    \* the snapshot Envoy gets
    raced,       \* history: projects whose pipelines overlapped or failed
    steady,      \* history: projects mapped and listed since the load began
    loadFailed   \* history: Redis failed during the load

storeVars == <<mapped, listed, outlives, wpc, wproj, writes, raced>>
loadVars  == <<start, toGet, got, loadFailed>>
subVars   == <<sub, receiver, msg>>
vars == <<mapped, listed, outlives, wpc, wproj, writes, raced, start, toGet, got,
          loadFailed, sub, receiver, msg, inbox, updater, mu, routes, snapshot, steady>>

-----------------------------------------------------------------------------
\* The virtual host: a route per project in the order of the map iteration,
\* then the fallback.  Envoy takes the first that matches.
Orders(R) == {q \in [1..Cardinality(R) -> R] : \A p \in R : \E i \in DOMAIN q : q[i] = p}

\* Mutant: the fallback matches before every project.
SnapshotsFallbackFirst(R) ==
    {[clusters |-> R \cup {Activator}, table |-> <<Activator>> \o q] : q \in Orders(R)}

Snapshots(R) ==
    {[clusters |-> R \cup {Activator}, table |-> Append(q, Activator)] : q \in Orders(R)}

\* The cache has no entry before the first SetSnapshot.
ASSUME SnapshotAssumption == \A R \in SUBSET Projects : NoSnapshot \notin Snapshots(R)

\* The cluster of a request with the given Project-Id header.
RouteOf(p) ==
    LET t == snapshot.table
        hit == CHOOSE i \in DOMAIN t :
                  /\ t[i] \in {p, Activator}
                  /\ \A j \in 1..(i - 1) : t[j] \notin {p, Activator}
    IN  t[hit]

\* Members of the set whose mapping has expired stay in it.
Init ==
    /\ listed \in SUBSET Projects
    /\ mapped \in SUBSET listed
    /\ outlives = {}
    /\ wpc = [w \in Writers |-> "idle"] /\ wproj = [w \in Writers |-> NoProject]
    /\ writes = 0 /\ raced = {}
    /\ start = "members" /\ toGet = {} /\ got = {} /\ loadFailed = FALSE
    /\ sub = "none" /\ inbox = <<>> /\ receiver = "off" /\ msg = NoMessage
    /\ updater = "wait" /\ mu = "free"
    /\ routes = {} /\ snapshot = NoSnapshot /\ steady = {}

-----------------------------------------------------------------------------
(* The pipelines of SetProjectSandbox and RemoveSandboxMapping              *)

Begin(w, p, command) ==
    /\ wpc[w] = "idle" /\ writes < MaxWrites
    /\ writes' = writes + 1
    /\ wpc' = [wpc EXCEPT ![w] = command]
    /\ wproj' = [wproj EXCEPT ![w] = p]
    /\ raced' = IF \E v \in Writers : wproj[v] = p THEN raced \cup {p} ELSE raced
    /\ UNCHANGED <<mapped, listed, outlives>>
    /\ UNCHANGED <<loadVars, subVars, inbox, updater, mu, routes, snapshot, steady>>

SetProjectSandbox(w, p) == Begin(w, p, "set")

\* The reverse mapping of the sandbox named p when it was read.
RemoveSandboxMapping(w, p) == Clean[p] # NoProject /\ Begin(w, Clean[p], "del")

Sent(w, from, to) ==
    /\ wpc[w] = from
    /\ wpc' = [wpc EXCEPT ![w] = to]
    /\ wproj' = IF to = "idle" THEN [wproj EXCEPT ![w] = NoProject] ELSE wproj
    /\ UNCHANGED <<writes, raced>>
    /\ UNCHANGED <<loadVars, subVars, updater, mu, routes, snapshot>>

SetMapping(w) ==
    /\ Sent(w, "set", "sadd")
    /\ mapped' = mapped \cup {wproj[w]}
    /\ outlives' = outlives \cup {wproj[w]}
    /\ UNCHANGED <<listed, inbox, steady>>

AddToSet(w) ==
    /\ Sent(w, "sadd", "expire")
    /\ listed' = listed \cup {wproj[w]}
    /\ UNCHANGED <<mapped, outlives, inbox, steady>>

\* Mutant: the TTL of the set is that of its first member.
RenewSetNever(w) ==
    /\ Sent(w, "expire", "publish")
    /\ UNCHANGED <<mapped, listed, outlives, inbox, steady>>

\* EXPIRE: from now on the set outlives every mapping that is there.
RenewSet(w) ==
    /\ Sent(w, "expire", "publish")
    /\ outlives' = {}
    /\ UNCHANGED <<mapped, listed, inbox, steady>>

DeleteMapping(w) ==
    /\ Sent(w, "del", "srem")
    /\ mapped' = mapped \ {wproj[w]}
    /\ outlives' = outlives \ {wproj[w]}
    /\ steady' = steady \ {wproj[w]}
    /\ UNCHANGED <<listed, inbox>>

RemoveFromSet(w) ==
    /\ Sent(w, "srem", "unpublish")
    /\ listed' = listed \ {wproj[w]}
    /\ steady' = steady \ {wproj[w]}
    /\ UNCHANGED <<mapped, outlives, inbox>>

\* PUBLISH reaches the subscriptions that are open at that moment.
Publish(w) ==
    /\ \E removal \in BOOLEAN :
          /\ Sent(w, IF removal THEN "unpublish" ELSE "publish", "idle")
          /\ inbox' = IF sub = "open"
                      THEN Append(inbox, [project |-> wproj[w], removal |-> removal])
                      ELSE inbox
    /\ UNCHANGED <<mapped, listed, outlives, steady>>

\* The connection breaks: the rest of the pipeline is not executed.
PipelineError(w) ==
    /\ "redis" \in Faults
    /\ wpc[w] # "idle"
    /\ wpc' = [wpc EXCEPT ![w] = "idle"]
    /\ wproj' = [wproj EXCEPT ![w] = NoProject]
    /\ raced' = raced \cup {wproj[w]}
    /\ UNCHANGED <<mapped, listed, outlives, writes>>
    /\ UNCHANGED <<loadVars, subVars, inbox, updater, mu, routes, snapshot, steady>>

ExpireMapping(p) ==
    /\ "expire" \in Faults
    /\ p \in mapped
    /\ mapped' = mapped \ {p}
    /\ outlives' = outlives \ {p}
    /\ steady' = steady \ {p}
    /\ UNCHANGED <<listed, wpc, wproj, writes, raced>>
    /\ UNCHANGED <<loadVars, subVars, inbox, updater, mu, routes, snapshot>>

\* The set goes after every mapping it outlives; a member added to it a moment
\* ago goes with it.
ExpireSet ==
    /\ "expire" \in Faults
    /\ listed # {} /\ mapped \subseteq outlives
    /\ listed' = {}
    /\ steady' = {}
    /\ raced' = raced \cup {wproj[w] : w \in {v \in Writers : wpc[v] = "expire"}}
    /\ UNCHANGED <<mapped, outlives, wpc, wproj, writes>>
    /\ UNCHANGED <<loadVars, subVars, inbox, updater, mu, routes, snapshot>>

-----------------------------------------------------------------------------
(* OnStart: loadInitialRoutes, GetAllProjectSandboxMappings                 *)

\* Mutant: ids that NewProjectID rejects are not skipped.
GetMembersUnchecked ==
    /\ start = "members"
    /\ toGet' = {Clean[p] : p \in listed}
    /\ start' = IF listed = {} THEN "fill" ELSE "gets"
    /\ steady' = mapped \cap listed
    /\ UNCHANGED <<got, loadFailed>>
    /\ UNCHANGED <<storeVars, subVars, inbox, updater, mu, routes, snapshot>>

\* SMEMBERS.  Ids that NewProjectID rejects are skipped; the others are read
\* under the cleaned id.
GetMembers ==
    /\ start = "members"
    /\ toGet' = {Clean[p] : p \in listed} \ {NoProject}
    /\ start' = IF listed = {} THEN "fill" ELSE "gets"
    /\ steady' = mapped \cap listed
    /\ UNCHANGED <<got, loadFailed>>
    /\ UNCHANGED <<storeVars, subVars, inbox, updater, mu, routes, snapshot>>

\* Mutant: a mapping that is not there any more fails the load.
GetEachNilFails(p) ==
    /\ start = "gets" /\ p \in toGet
    /\ toGet' = toGet \ {p}
    /\ got' = IF p \in mapped THEN got \cup {p} ELSE got
    /\ start' = IF p \in mapped THEN start ELSE "done"
    /\ UNCHANGED loadFailed
    /\ UNCHANGED <<storeVars, subVars, inbox, updater, mu, routes, snapshot, steady>>

\* One GET of the pipeline.  redis.Nil skips the project.
GetEach(p) ==
    /\ start = "gets" /\ p \in toGet
    /\ toGet' = toGet \ {p}
    /\ got' = IF p \in mapped THEN got \cup {p} ELSE got
    /\ UNCHANGED <<start, loadFailed>>
    /\ UNCHANGED <<storeVars, subVars, inbox, updater, mu, routes, snapshot, steady>>

\* "Failed to load initial routes" is logged; there is no snapshot yet.
LoadError ==
    /\ "redis" \in Faults
    /\ start \in {"members", "gets"}
    /\ start' = "done"
    /\ loadFailed' = TRUE
    /\ toGet' = {} /\ got' = {}
    /\ UNCHANGED <<storeVars, subVars, inbox, updater, mu, routes, snapshot, steady>>

\* Mutant: the lock is not released after the loop.
FillRoutesKeepsLock ==
    /\ start = "fill" \/ (start = "gets" /\ toGet = {})
    /\ mu = "free"
    /\ routes' = got
    /\ got' = {}
    /\ start' = "snapshot"
    /\ mu' = "write"
    /\ UNCHANGED <<toGet, loadFailed>>
    /\ UNCHANGED <<storeVars, subVars, inbox, updater, snapshot, steady>>

\* Mutant: the routes are loaded and no snapshot is written.
FillRoutesOnly ==
    /\ start = "fill" \/ (start = "gets" /\ toGet = {})
    /\ mu = "free"
    /\ routes' = got
    /\ got' = {}
    /\ start' = "done"
    /\ UNCHANGED <<toGet, loadFailed>>
    /\ UNCHANGED <<storeVars, subVars, inbox, updater, mu, snapshot, steady>>

FillRoutes ==
    /\ start = "fill" \/ (start = "gets" /\ toGet = {})
    /\ mu = "free"
    /\ routes' = got
    /\ got' = {}
    /\ start' = "snapshot"
    /\ UNCHANGED <<toGet, loadFailed>>
    /\ UNCHANGED <<storeVars, subVars, inbox, updater, mu, snapshot, steady>>

\* UpdateSnapshot; then the goroutines are started and OnStart returns.
FirstSnapshot ==
    /\ start = "snapshot" /\ mu # "write"
    /\ snapshot' \in Snapshots(routes)
    /\ start' = "done"
    /\ UNCHANGED <<toGet, got, loadFailed>>
    /\ UNCHANGED <<storeVars, subVars, inbox, updater, mu, routes, steady>>

-----------------------------------------------------------------------------
(* The subscription                                                         *)

Subscribe ==
    /\ start = "done" /\ sub = "none"
    /\ sub' = "open"
    /\ receiver' = "receive"
    /\ UNCHANGED msg
    /\ UNCHANGED <<storeVars, loadVars, inbox, updater, mu, routes, snapshot, steady>>

\* SubscribeToProjectSandboxUpdates returns once its goroutine is started,
\* and the deferred pubsub.Close runs.
SubscribeReturns ==
    /\ sub = "open"
    /\ sub' = "closed"
    /\ UNCHANGED <<receiver, msg>>
    /\ UNCHANGED <<storeVars, loadVars, inbox, updater, mu, routes, snapshot, steady>>

\* ReceiveMessage; a payload that cannot be parsed is skipped.
Receive ==
    /\ receiver = "receive" /\ sub = "open" /\ inbox # <<>>
    /\ inbox' = Tail(inbox)
    /\ msg' = Parse[Head(inbox)]
    /\ receiver' = IF msg' = NoMessage THEN "receive" ELSE "callback"
    /\ UNCHANGED sub
    /\ UNCHANGED <<storeVars, loadVars, updater, mu, routes, snapshot, steady>>

\* On a closed subscription it fails, and the goroutine ends.
ReceiveError ==
    /\ receiver = "receive" /\ sub = "closed"
    /\ receiver' = "off"
    /\ inbox' = <<>>
    /\ UNCHANGED <<sub, msg>>
    /\ UNCHANGED <<storeVars, loadVars, updater, mu, routes, snapshot, steady>>

\* AddOrUpdateRoute and RemoveRoute: Lock, change the map, and call
\* UpdateSnapshot with the lock held.  Its RLock waits for the writer, which
\* is this goroutine, so that no step of it follows.
UpdateRoute ==
    /\ receiver = "callback" /\ mu = "free"
    /\ mu' = "write"
    /\ routes' = IF msg.removal THEN routes \ {msg.project} ELSE routes \cup {msg.project}
    /\ receiver' = "blocked"
    /\ UNCHANGED <<sub, msg>>
    /\ UNCHANGED <<storeVars, loadVars, inbox, updater, snapshot, steady>>

-----------------------------------------------------------------------------
(* backgroundUpdater                                                        *)

\* The ticker fired and UpdateSnapshot has the read lock.
UpdaterRLock ==
    /\ start = "done" /\ updater = "wait" /\ mu = "free"
    /\ updater' = "build"
    /\ mu' = "read"
    /\ UNCHANGED <<storeVars, loadVars, subVars, inbox, routes, snapshot, steady>>

UpdaterSet ==
    /\ updater = "build"
    /\ snapshot' \in Snapshots(routes)
    /\ mu' = "free"
    /\ updater' = "wait"
    /\ UNCHANGED <<storeVars, loadVars, subVars, inbox, routes, steady>>

-----------------------------------------------------------------------------
Pipeline(w) ==
    \/ SetMapping(w) \/ AddToSet(w) \/ RenewSet(w)
    \/ DeleteMapping(w) \/ RemoveFromSet(w)
    \/ Publish(w) \/ PipelineError(w)

OnStart ==
    \/ GetMembers \/ (\E p \in Projects : GetEach(p)) \/ LoadError
    \/ FillRoutes \/ FirstSnapshot

Subscriber == Subscribe \/ SubscribeReturns

Receiver == Receive \/ ReceiveError \/ UpdateRoute

Updater == UpdaterRLock \/ UpdaterSet

Next ==
    \/ \E w \in Writers :
          \/ \E p \in Projects : SetProjectSandbox(w, p) \/ RemoveSandboxMapping(w, p)
          \/ Pipeline(w)
    \/ (\E p \in Projects : ExpireMapping(p)) \/ ExpireSet
    \/ OnStart \/ Subscriber \/ Receiver \/ Updater

Spec == Init /\ [][Next]_vars

\* Goroutines are scheduled, Redis answers, the ticker fires.  The Lock of a
\* sync.RWMutex waits for readers but is not overtaken by new ones.
Fairness ==
    /\ \A w \in Writers : WF_vars(Pipeline(w))
    /\ WF_vars(OnStart) /\ WF_vars(Subscriber) /\ WF_vars(Receiver) /\ WF_vars(Updater)
    /\ SF_vars(UpdateRoute)

FairSpec == Spec /\ Fairness

-----------------------------------------------------------------------------
TypeOK ==
    /\ mapped \subseteq Projects /\ listed \subseteq Projects
    /\ outlives \subseteq mapped
    /\ wpc \in [Writers -> {"idle", "set", "sadd", "expire", "publish",
                            "del", "srem", "unpublish"}]
    /\ wproj \in [Writers -> Projects \cup {NoProject}]
    /\ \A w \in Writers : wpc[w] # "idle" => wproj[w] \in Projects
    /\ writes \in Nat
    /\ raced \subseteq Projects /\ steady \subseteq Projects
    /\ start \in {"members", "gets", "fill", "snapshot", "done"}
    /\ toGet \subseteq Projects /\ got \subseteq Projects
    /\ loadFailed \in BOOLEAN
    /\ sub \in {"none", "open", "closed"}
    /\ inbox \in Seq(Messages)
    /\ receiver \in {"off", "receive", "callback", "blocked"}
    /\ msg \in Messages \cup {NoMessage}
    /\ receiver = "callback" => msg \in Messages
    /\ updater \in {"wait", "build"}
    /\ mu \in {"free", "read", "write"}
    /\ routes \subseteq Projects
    /\ snapshot = NoSnapshot \/ \E R \in SUBSET Projects : snapshot \in Snapshots(R)

\* The set of all projects, which is all a restarted server looks at, covers
\* the mappings: a project drops out only while its own pipeline is between
\* SET and SADD, or when pipelines raced or failed.  The TTLs keep to it: the
\* set outlives its members' mappings.
SetCoversMappings ==
    \A p \in mapped :
        p \in listed \cup raced \/ \E w \in Writers : wproj[w] = p /\ wpc[w] = "sadd"

\* Every project that was mapped before the load began and stays mapped is
\* served by its own cluster once the server is up, though other mappings come
\* and go between SMEMBERS and the GETs.
SteadyProjectsServed ==
    start = "done" /\ ~loadFailed =>
        \A p \in steady : Clean[p] = p => snapshot # NoSnapshot /\ RouteOf(p) = p

\* Whenever the lock is free, Envoy sends the requests of a project with a
\* route to its cluster, which the snapshot defines, and all others to the
\* activator.
SnapshotFollowsRoutes ==
    start = "done" /\ mu = "free" /\ snapshot # NoSnapshot =>
        /\ snapshot.clusters = routes \cup {Activator}
        /\ \A p \in Projects : RouteOf(p) = IF p \in routes THEN p ELSE Activator

\* Envoy gets a snapshot in the end, after a failed load too, unless an update
\* that arrived while the subscription was open took the lock.
EventuallyServing == <>(snapshot # NoSnapshot \/ receiver = "blocked")

\* redis.go:223 "The callback will be called whenever a project-sandbox mapping
\* is updated or removed": a project that gets its mapping after the server has
\* subscribed, and keeps it, gets its route.
UpdatesReachRoutes ==
    \A p \in Projects :
        [](sub # "none" /\ p \notin mapped /\ <>[](p \in mapped) => <>(p \in routes))
=============================================================================
