----------------------------- MODULE PodEvents -----------------------------
(***************************************************************************)
(* How sandboxes come to their end without anybody asking for it: the pod  *)
(* watcher of the Kubernetes client, the event processor of the scheduler  *)
(* service, the cleanup job for expired sandboxes, and the requests that   *)
(* wait for a pod meanwhile.                                               *)
(*                                                                         *)
(* The watcher turns notices of the API server into events on a bounded    *)
(* channel and drops them when it is full; the event processor releases    *)
(* the sandbox of every event.  Neither the watch nor a failed release is  *)
(* retried, so the cleanup job, which pages through the pods and releases  *)
(* those older than the TTL, is what catches the rest.  All four are       *)
(* goroutines of one process that stops, dies and is started again.  Each  *)
(* Kubernetes call is one atomic step.  The half of ReleaseSandbox that    *)
(* removes the Redis mappings is in ProjectSandbox; its outcome changes    *)
(* nothing here.                                                           *)
(***************************************************************************)
EXTENDS Naturals, Sequences, FiniteSets

CONSTANTS
    Sandboxes,     \* bound: pods that are ever created
    Others,        \* young healthy pods that the lists hold as well
    NoNotice,
    NoSandbox,
    Cap,           \* capacity of eventChan, 100
    PageSize,      \* pods per page of GetPodsOlderThan, 100
    MaxErrors,     \* bound: Kubernetes calls and watches that fail
    MaxRestarts    \* bound: times the process stops or dies

\* "stuck": unschedulable, or a container waits for one of the reasons
\* processPodEvent lists; it may still start.  "ended": failed or succeeded.
\* "running": all containers are ready.
Phases == {"none", "starting", "stuck", "running", "ended", "gone"}

\* A notice holds the pod as it was when it was sent.
Notices == [sandbox : Sandboxes, phase : Phases \ {"none", "gone"}]

ASSUME EventsAssumption ==
    /\ NoSandbox \notin Sandboxes /\ NoNotice \notin Notices
    /\ IsFiniteSet(Sandboxes \cup Others) /\ Others \cap Sandboxes = {}
    /\ Cap \in Nat /\ PageSize \in Nat \ {0}
    /\ MaxErrors \in Nat /\ MaxRestarts \in Nat

VARIABLES
    phase,      \* the phase of each pod
    dying,      \* pods whose deletion was accepted (DeletionTimestamp)
    old,        \* pods older than the TTL
    watch,      \* the watch: "starting", "on", "ended" by the server, "done"
    stream,     \* notices of the watch that were not received yet
    hand,       \* the notice watchNamespacePods is processing
    eventChan,  \* events not yet received by the event processor
    stop,       \* StopWatchers: "no", watchCtx "cancelled", eventChan "closed"
    closing,    \* Close was called: eventCtx is cancelled
    proc,       \* the event processor runs
    evt,        \* the sandbox it is releasing
    job,        \* where the cleanup job is
    cutoff,     \* pods created before the cutoffTime of its run
    rest,       \* pods behind its continue token
    batch,      \* oldPods of its page that are still to be released
    wait, target,          \* WaitForSandboxReady: position and sandbox
    up,         \* the process runs
    errors, restarts,      \* how many there were
    troubled,   \* history: pods that were stuck or ended at some time
    excused,    \* history: pods whose event was dropped or release failed
    missed,     \* history: pods this cleanup run failed to delete
    late        \* history: a notice was in hand when watchCtx was cancelled

podVars   == <<phase, dying, old, troubled>>
watchVars == <<watch, hand, stop, late>>
procVars  == <<closing, proc, evt>>
jobVars   == <<job, cutoff, rest, batch, missed>>
waitVars  == <<wait, target>>
lifeVars  == <<up, restarts>>
vars == <<phase, dying, old, troubled, watch, hand, stop, late, stream, eventChan,
          excused, closing, proc, evt, job, cutoff, rest, batch, missed,
          wait, target, up, restarts, errors>>

-----------------------------------------------------------------------------
\* What calls for a release.
Trouble == {"stuck", "ended"}

Existing == {s \in Sandboxes : phase[s] \notin {"none", "gone"}}

Init ==
    /\ phase = [s \in Sandboxes |-> "none"]
    /\ dying = {} /\ old = {} /\ troubled = {} /\ excused = {}
    /\ watch = "starting" /\ stream = <<>> /\ hand = NoNotice
    /\ stop = "no" /\ late = FALSE
    /\ eventChan = <<>>
    /\ closing = FALSE /\ proc = TRUE /\ evt = NoSandbox
    /\ job = "wait" /\ cutoff = {} /\ rest = {} /\ batch = {} /\ missed = {}
    /\ wait = "none" /\ target = NoSandbox
    /\ up = TRUE /\ restarts = 0 /\ errors = 0

-----------------------------------------------------------------------------
(* The cluster                                                              *)

\* The API server tells an open watch of the pod's new state.
Notify(s, ph) ==
    stream' = IF watch = "on"
              THEN Append(stream, [sandbox |-> s, phase |-> ph])
              ELSE stream

PodChanges(s, from, to) ==
    /\ phase[s] \in from
    /\ phase' = [phase EXCEPT ![s] = to]
    /\ Notify(s, to)
    /\ troubled' = IF to \in Trouble THEN troubled \cup {s} ELSE troubled
    /\ excused' = IF to \in Trouble THEN excused \ {s} ELSE excused
    /\ UNCHANGED <<dying, old>>
    /\ UNCHANGED <<watchVars, eventChan, procVars, jobVars, waitVars, lifeVars, errors>>

\* ScheduleSandbox creates the pod.
PodCreated(s) == PodChanges(s, {"none"}, "starting")

\* RestartPolicyNever: an ended pod stays as it is.
PodMoves(s) ==
    \/ PodChanges(s, {"starting"}, "stuck")
    \/ PodChanges(s, {"starting", "stuck"}, "running")
    \/ PodChanges(s, {"starting", "stuck", "running"}, "ended")

PodAges(s) ==
    /\ s \in Existing \ old
    /\ old' = old \cup {s}
    /\ UNCHANGED <<phase, dying, troubled>>
    /\ UNCHANGED <<watchVars, stream, eventChan, excused, procVars, jobVars, waitVars, lifeVars, errors>>

\* The grace period is over; the last notice has the last state of the pod.
PodGone(s) ==
    /\ s \in dying \cap Existing
    /\ phase' = [phase EXCEPT ![s] = "gone"]
    /\ Notify(s, phase[s])
    /\ UNCHANGED <<dying, old, troubled>>
    /\ UNCHANGED <<watchVars, eventChan, excused, procVars, jobVars, waitVars, lifeVars, errors>>

\* K8sClient.ReleaseSandbox deletes the pod.  One that is gone is no error;
\* one that is being deleted stays so.
Deleted(s) ==
    /\ dying' = IF s \in Existing THEN dying \cup {s} ELSE dying
    /\ IF s \in Existing \ dying THEN Notify(s, phase[s]) ELSE UNCHANGED stream
    /\ UNCHANGED <<phase, old, troubled, errors>>

\* The call fails: it is logged, and neither caller tries again.
NotDeleted ==
    /\ errors < MaxErrors
    /\ errors' = errors + 1
    /\ UNCHANGED <<podVars, stream>>

-----------------------------------------------------------------------------
(* watchNamespacePods                                                       *)

\* The watch begins with a notice for every pod there is.
WatchOpens ==
    /\ up /\ watch = "starting" /\ stop = "no"
    /\ watch' = "on"
    /\ LET now == {[sandbox |-> s, phase |-> phase[s]] : s \in Existing} IN
       \E q \in [1..Cardinality(now) -> now] :
          /\ \A n \in now : \E i \in DOMAIN q : q[i] = n
          /\ stream' = q
    /\ excused' = {}
    /\ UNCHANGED <<hand, stop, late>>
    /\ UNCHANGED <<podVars, eventChan, procVars, jobVars, waitVars, lifeVars, errors>>

\* The watch cannot be created, or watchCtx is cancelled: the watcher exits.
WatchError ==
    /\ up /\ watch = "starting"
    /\ watch' = "done"
    /\ \/ stop # "no" /\ UNCHANGED errors
       \/ errors < MaxErrors /\ errors' = errors + 1
    /\ UNCHANGED <<hand, stop, late>>
    /\ UNCHANGED <<podVars, stream, eventChan, excused, procVars, jobVars, waitVars, lifeVars>>

\* The API server ends the watch; what was sent can still be received.
WatchEnds ==
    /\ up /\ watch = "on" /\ errors < MaxErrors
    /\ watch' = "ended"
    /\ errors' = errors + 1
    /\ UNCHANGED <<hand, stop, late>>
    /\ UNCHANGED <<podVars, stream, eventChan, excused, procVars, jobVars, waitVars, lifeVars>>

\* Mutant: the loop does not look at watchCtx.
WatchReceiveAlways ==
    /\ up /\ hand = NoNotice /\ stream # <<>>
    /\ hand' = Head(stream)
    /\ stream' = Tail(stream)
    /\ UNCHANGED <<watch, stop, late>>
    /\ UNCHANGED <<podVars, eventChan, excused, procVars, jobVars, waitVars, lifeVars, errors>>

\* One turn of the loop, up to the call of processPodEvent.
WatchReceive ==
    /\ up /\ hand = NoNotice /\ stream # <<>>
    /\ IF stop = "no"
       THEN /\ hand' = Head(stream)
            /\ stream' = Tail(stream)
            /\ UNCHANGED watch
       ELSE /\ watch' = "done"
            /\ stream' = <<>>
            /\ UNCHANGED hand
    /\ UNCHANGED <<stop, late>>
    /\ UNCHANGED <<podVars, eventChan, excused, procVars, jobVars, waitVars, lifeVars, errors>>

\* Mutant: every pod is worth an event.
SignificantAlways(n) == TRUE

\* Mutant: succeeded and failed pods are not.
SignificantStuckOnly(n) == n.phase = "stuck"

\* shouldSendEvent.  A DeletionTimestamp only selects the type of the event,
\* which handlePodEvent does not look at.
Significant(n) == n.phase \in {"stuck", "ended"}

\* processPodEvent while eventChan is open: the send never blocks.
ProcessPodEvent ==
    /\ up /\ hand # NoNotice
    /\ Significant(hand) => stop # "closed"
    /\ hand' = NoNotice
    /\ IF Significant(hand) /\ Len(eventChan) < Cap
       THEN eventChan' = Append(eventChan, hand.sandbox)
       ELSE UNCHANGED eventChan
    /\ excused' = IF Significant(hand) /\ Len(eventChan) >= Cap
                  THEN excused \cup {hand.sandbox} ELSE excused
    /\ UNCHANGED <<watch, stop, late>>
    /\ UNCHANGED <<podVars, stream, procVars, jobVars, waitVars, lifeVars, errors>>

-----------------------------------------------------------------------------
(* StartEventProcessing and handlePodEvent                                  *)

\* When eventCtx is cancelled as well, select may take either case.
ReceiveEvent ==
    /\ up /\ proc /\ evt = NoSandbox /\ eventChan # <<>>
    /\ evt' = Head(eventChan)
    /\ eventChan' = Tail(eventChan)
    /\ UNCHANGED <<closing, proc>>
    /\ UNCHANGED <<podVars, watchVars, stream, excused, jobVars, waitVars, lifeVars, errors>>

ProcessorExits ==
    /\ up /\ proc /\ evt = NoSandbox
    /\ closing \/ (stop = "closed" /\ eventChan = <<>>)
    /\ proc' = FALSE
    /\ UNCHANGED <<closing, evt>>
    /\ UNCHANGED <<podVars, watchVars, stream, eventChan, excused, jobVars, waitVars, lifeVars, errors>>

HandlePodEvent ==
    /\ up /\ evt # NoSandbox
    /\ evt' = NoSandbox
    /\ \/ Deleted(evt) /\ UNCHANGED excused
       \/ NotDeleted /\ excused' = excused \cup {evt}
    /\ UNCHANGED <<closing, proc>>
    /\ UNCHANGED <<watchVars, eventChan, jobVars, waitVars, lifeVars>>

-----------------------------------------------------------------------------
(* runCleanupJob and CleanupExpiredSandboxes                                *)

CleanupTick ==
    /\ up /\ job = "wait"
    /\ job' = "first"
    /\ cutoff' = old \cap Existing
    /\ missed' = {}
    /\ UNCHANGED <<rest, batch>>
    /\ UNCHANGED <<podVars, watchVars, stream, eventChan, excused, procVars, waitVars, lifeVars, errors>>

\* GetPodsOlderThan: one page of the pods as they were at the first one.
ListPage ==
    /\ up /\ job \in {"first", "next"}
    /\ LET all == IF job = "first" THEN Existing \cup Others ELSE rest IN
       \E page \in SUBSET all :
          /\ Cardinality(page) = PageSize \/ page = all
          /\ Cardinality(page) <= PageSize
          /\ rest' = all \ page
          /\ batch' = page \cap cutoff
    /\ job' = "release"
    /\ UNCHANGED <<cutoff, missed>>
    /\ UNCHANGED <<podVars, watchVars, stream, eventChan, excused, procVars, waitVars, lifeVars, errors>>

\* Mutant: the error ends the job's goroutine.
ListErrorEndsJob ==
    /\ up /\ job \in {"first", "next"} /\ errors < MaxErrors
    /\ errors' = errors + 1
    /\ job' = "ended"
    /\ cutoff' = {} /\ rest' = {} /\ missed' = {}
    /\ UNCHANGED batch
    /\ UNCHANGED <<podVars, watchVars, stream, eventChan, excused, procVars, waitVars, lifeVars>>

\* The list fails (or its token expired): the run ends, the job goes on.
ListError ==
    /\ up /\ job \in {"first", "next"} /\ errors < MaxErrors
    /\ errors' = errors + 1
    /\ job' = "wait"
    /\ cutoff' = {} /\ rest' = {} /\ missed' = {}
    /\ UNCHANGED batch
    /\ UNCHANGED <<podVars, watchVars, stream, eventChan, excused, procVars, waitVars, lifeVars>>

CleanupRelease(s) ==
    /\ up /\ job = "release" /\ s \in batch
    /\ batch' = batch \ {s}
    /\ \/ Deleted(s) /\ UNCHANGED missed
       \/ NotDeleted /\ missed' = missed \cup {s}
    /\ UNCHANGED <<job, cutoff, rest>>
    /\ UNCHANGED <<watchVars, eventChan, excused, procVars, waitVars, lifeVars>>

CleanupNextPage ==
    /\ up /\ job = "release" /\ batch = {} /\ rest # {}
    /\ job' = "next"
    /\ UNCHANGED <<cutoff, rest, batch, missed>>
    /\ UNCHANGED <<podVars, watchVars, stream, eventChan, excused, procVars, waitVars, lifeVars, errors>>

\* Mutant: the run ends when a page has no old pods left, whatever the token.
CleanupDoneEarly ==
    /\ up /\ job = "release" /\ batch = {}
    /\ job' = "wait"
    /\ cutoff' = {} /\ missed' = {} /\ rest' = {}
    /\ UNCHANGED batch
    /\ UNCHANGED <<podVars, watchVars, stream, eventChan, excused, procVars, waitVars, lifeVars, errors>>

CleanupDone ==
    /\ up /\ job = "release" /\ batch = {} /\ rest = {}
    /\ job' = "wait"
    /\ cutoff' = {} /\ missed' = {}
    /\ UNCHANGED <<rest, batch>>
    /\ UNCHANGED <<podVars, watchVars, stream, eventChan, excused, procVars, waitVars, lifeVars, errors>>

-----------------------------------------------------------------------------
(* WaitForSandboxReady                                                      *)

WaitStep(from, to) ==
    /\ up /\ wait = from
    /\ wait' = to
    /\ target' = IF to = "none" THEN NoSandbox ELSE target
    /\ UNCHANGED <<podVars, watchVars, stream, eventChan, excused, procVars, jobVars, lifeVars>>

\* The call and its first IsSandboxReady.  A ready sandbox, or a check that
\* fails, is the answer and there is nothing to wait for.
WaitForSandboxReady(s) ==
    /\ up /\ wait = "none" /\ phase[s] \notin {"none", "running"}
    /\ wait' = "poll" /\ target' = s
    /\ UNCHANGED <<podVars, watchVars, stream, eventChan, excused, procVars, jobVars, lifeVars, errors>>

\* Mutant: the poll looks at readiness only.
IsSandboxReadyOnly ==
    /\ WaitStep("poll", IF phase[target] = "running" THEN "none" ELSE "poll")
    /\ UNCHANGED errors

\* IsSandboxReady at a tick of the poll.
IsSandboxReady ==
    /\ WaitStep("poll", IF phase[target] = "running" THEN "none" ELSE "gone")
    /\ UNCHANGED errors

IsSandboxGone ==
    /\ WaitStep("gone", IF phase[target] = "gone" THEN "none" ELSE "poll")
    /\ UNCHANGED errors

\* A check that fails: the poll goes on.
WaitError ==
    /\ errors < MaxErrors
    /\ WaitStep("poll", "poll") \/ WaitStep("gone", "poll")
    /\ errors' = errors + 1

\* The client gives up: ctx is done.
WaitCancelled == WaitStep("poll", "none") /\ UNCHANGED errors

WaitProceeds == IsSandboxReady \/ IsSandboxGone \/ WaitError

-----------------------------------------------------------------------------
(* The process.  OnStop hooks run in reverse order: Close, StopWatchers.    *)

Close ==
    /\ up /\ ~closing /\ restarts < MaxRestarts
    /\ closing' = TRUE
    /\ UNCHANGED <<proc, evt>>
    /\ UNCHANGED <<podVars, watchVars, stream, eventChan, excused, jobVars, waitVars, lifeVars, errors>>

StopWatchers ==
    /\ up /\ closing
    /\ \/ stop = "no" /\ stop' = "cancelled" /\ late' = (hand # NoNotice)
       \/ stop = "cancelled" /\ stop' = "closed" /\ UNCHANGED late
    /\ UNCHANGED <<watch, hand>>
    /\ UNCHANGED <<podVars, stream, eventChan, excused, procVars, jobVars, waitVars, lifeVars, errors>>

\* The process is gone with its goroutines, its channel and its watch.
Exit ==
    /\ up' = FALSE
    /\ restarts' = restarts + 1
    /\ watch' = "done" /\ hand' = NoNotice /\ stop' = "no" /\ late' = FALSE
    /\ stream' = <<>> /\ eventChan' = <<>>
    /\ closing' = FALSE /\ proc' = FALSE /\ evt' = NoSandbox
    /\ job' = "wait" /\ cutoff' = {} /\ rest' = {} /\ batch' = {} /\ missed' = {}
    /\ wait' = "none" /\ target' = NoSandbox
    /\ UNCHANGED <<podVars, excused, errors>>

\* The hooks are through, or the process dies.
Crash == up /\ restarts < MaxRestarts /\ Exit

\* A send on the closed channel panics, with a default case as well.
Panic == up /\ hand # NoNotice /\ stop = "closed" /\ Significant(hand) /\ Exit

\* The Deployment starts a new process: StartWatchers, StartEventProcessing
\* and the cleanup job.
Restart ==
    /\ ~up
    /\ up' = TRUE /\ watch' = "starting" /\ proc' = TRUE
    /\ UNCHANGED <<podVars, hand, stop, late, stream, eventChan, excused, closing,
                   evt, jobVars, waitVars, restarts, errors>>

-----------------------------------------------------------------------------
Watcher == WatchOpens \/ WatchError \/ WatchReceive \/ ProcessPodEvent

Processor == ReceiveEvent \/ ProcessorExits \/ HandlePodEvent

Cleanup ==
    \/ CleanupTick \/ ListPage \/ ListError
    \/ \E s \in Sandboxes : CleanupRelease(s)
    \/ CleanupNextPage \/ CleanupDone

Next ==
    \/ \E s \in Sandboxes :
          \/ PodCreated(s) \/ PodMoves(s) \/ PodAges(s) \/ PodGone(s)
          \/ WaitForSandboxReady(s)
    \/ Watcher \/ WatchEnds \/ Processor \/ Cleanup
    \/ WaitProceeds \/ WaitCancelled
    \/ Close \/ StopWatchers \/ Crash \/ Panic \/ Restart

Spec == Init /\ [][Next]_vars

\* Goroutines are scheduled, the ticker fires, time passes, Kubernetes
\* completes deletions and restarts the process.  Nothing makes the client of
\* a wait give up.
Fairness ==
    /\ WF_vars(Watcher) /\ WF_vars(Processor) /\ WF_vars(Cleanup)
    /\ WF_vars(WaitProceeds)
    /\ WF_vars(Restart)
    /\ \A s \in Sandboxes : WF_vars(PodAges(s)) /\ WF_vars(PodGone(s))

FairSpec == Spec /\ Fairness

-----------------------------------------------------------------------------
TypeOK ==
    /\ phase \in [Sandboxes -> Phases]
    /\ dying \subseteq Sandboxes /\ old \subseteq Sandboxes
    /\ troubled \subseteq Sandboxes /\ excused \subseteq Sandboxes
    /\ watch \in {"starting", "on", "ended", "done"}
    /\ stream \in Seq(Notices) /\ hand \in Notices \cup {NoNotice}
    /\ stop \in {"no", "cancelled", "closed"} /\ late \in BOOLEAN
    /\ eventChan \in Seq(Sandboxes) /\ Len(eventChan) <= Cap
    /\ closing \in BOOLEAN /\ proc \in BOOLEAN /\ evt \in Sandboxes \cup {NoSandbox}
    /\ job \in {"wait", "first", "next", "release"}
    /\ cutoff \subseteq Sandboxes /\ rest \subseteq Sandboxes \cup Others
    /\ batch \subseteq Sandboxes /\ missed \subseteq Sandboxes
    /\ wait \in {"none", "poll", "gone"}
    /\ target \in Sandboxes \cup {NoSandbox}
    /\ wait # "none" => target \in Sandboxes
    /\ up \in BOOLEAN /\ errors \in Nat /\ restarts \in Nat

\* A sandbox is released on the system's own account only when its pod was in
\* trouble at some time or is older than the TTL; no event mixes pods up and
\* no page of the cleanup takes in a young one, across restarts.
OnlyTroubledReleased == dying \subseteq troubled \cup old

\* The event of s is on its way: in the watch, in the watcher's hands, on the
\* channel, or with the event processor.
OnItsWay(s) ==
    \/ \E i \in 1..Len(stream) : stream[i].sandbox = s /\ stream[i].phase \in Trouble
    \/ hand # NoNotice /\ hand.sandbox = s /\ hand.phase \in Trouble
    \/ \E i \in 1..Len(eventChan) : eventChan[i] = s
    \/ evt = s

\* While the watch is open, a pod in trouble is being deleted or its event is
\* on its way, also for pods that failed while no process ran, unless an event
\* was dropped at the full channel or a release failed.
TroubleOnItsWay ==
    \A s \in Sandboxes :
        watch = "on" /\ phase[s] \in Trouble =>
            s \in dying \cup excused \/ OnItsWay(s)

\* StopWatchers closes the channel the watcher sends on.  The send panics only
\* for the one notice that had passed the test of watchCtx when StopWatchers
\* began; later notices never get that far.
OnlyLateNoticePanics == [][Panic => late]_vars

\* A cleanup run that ends without an error has deleted every pod that was too
\* old when it began, on whichever page it was listed, except those whose
\* deletion failed.
CleanupComplete ==
    [][CleanupDone => \A s \in cutoff : s \in dying \cup missed \/ phase[s] = "gone"]_vars

\* No pod is left behind: every sandbox is gone in the end, though watches
\* end, events are dropped, calls fail, and the process dies at any point.
PodsReaped == \A s \in Sandboxes : phase[s] # "none" ~> phase[s] = "gone"

\* A wait for a sandbox that never gets ready ends though WaitForSandboxReady
\* has no timeout and the client never gives up: the cleanup ends the pod.
WaitEnds == wait # "none" ~> wait = "none"
=============================================================================
