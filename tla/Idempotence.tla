---------------------------- MODULE Idempotence ----------------------------
(***************************************************************************)
(* Idempotent sandbox creation: scheduler.Service.ScheduleSandbox over     *)
(* redisIdempotenceStore.ClaimOrWait / Complete / Drop.                    *)
(*                                                                         *)
(* Concurrent requests (Callers) that carry the same idempotence key meet  *)
(* in Redis.  Each Redis command and the Kubernetes create are one atomic  *)
(* step; everything between two of them can interleave.  A caller looks    *)
(* the key up, tries to mark it pending (SETNX with a TTL, so the marker   *)
(* is a lease), and either creates the sandbox and records it, or waits    *)
(* for the marker's owner.                                                 *)
(*                                                                         *)
(* Faults names what may go wrong in a run:                                *)
(*   "redis"   a Redis command returns an error, applied or not; so does   *)
(*             each one after the client left, the deferred Drop included  *)
(*   "k8s"     the Kubernetes create returns an error, applied or not      *)
(*   "crash"   a scheduler process dies                                    *)
(*   "lease"   a pending marker's TTL ends while its owner still works     *)
(*   "record"  a completed record's TTL ends                               *)
(***************************************************************************)
EXTENDS Naturals, FiniteSets

CONSTANTS
    Callers,     \* ScheduleSandbox calls in flight, one goroutine each
    Processes,   \* scheduler processes (two overlap in a rolling update)
    ServedBy,    \* the process each caller runs in
    Keys,        \* idempotence keys
    Sandboxes,   \* sandbox ids; a create that repeats one fails
    NoKey,
    NoSandbox,
    Faults

ASSUME ServedByAssumption == ServedBy \in [Callers -> Processes]
ASSUME SentinelAssumption == NoKey \notin Keys /\ NoSandbox \notin Sandboxes
ASSUME FaultsAssumption == Faults \subseteq {"redis", "k8s", "crash", "lease", "record"}

VARIABLES
    idem,          \* Redis idem:<key>                 -> sandbox id
    sandboxIdem,   \* Redis sandbox-idempotence:<id>   -> key (never read)
    pending,       \* Redis pending:<key> exists
    pc,            \* where each caller is in ScheduleSandbox
    key,           \* its idempotenceKey argument
    claimed,       \* ClaimResult.Claimed and not completed
    sandbox,       \* the id ScheduleSandbox holds and has not returned
    createdFor,    \* history: the key a pod was created for
    delivered,     \* history: <<key, sandbox>> answers returned
    lost,          \* history: pods whose id no caller ever learned
    stale          \* history: keys whose marker went away under a claim

storeVars == <<idem, sandboxIdem, pending>>
callVars  == <<pc, key, claimed, sandbox>>
histVars  == <<createdFor, delivered, lost, stale>>
vars == <<idem, sandboxIdem, pending, pc, key, claimed, sandbox,
          createdFor, delivered, lost, stale>>

-----------------------------------------------------------------------------
Locations == {"idle", "lookup", "mark", "await", "poll", "exists",
              "create", "complete", "drop"}

\* The part of a call that runs under claimCtx, the 10 second deadline.
ClaimPhase == {"lookup", "mark", "await", "poll", "exists"}

\* A claim is open from the SETNX that won it to the Complete or Drop that
\* closes it: as long as it is open its owner may delete the marker.
OpenClaim(c, k) == claimed[c] /\ key[c] = k

Fresh == {s \in Sandboxes : createdFor[s] = NoKey}
InProgress == {c \in Callers : pc[c] # "idle"}

Init ==
    /\ idem = [k \in Keys |-> NoSandbox]
    /\ sandboxIdem = [s \in Sandboxes |-> NoKey]
    /\ pending = [k \in Keys |-> FALSE]
    /\ pc = [c \in Callers |-> "idle"]
    /\ key = [c \in Callers |-> NoKey]
    /\ claimed = [c \in Callers |-> FALSE]
    /\ sandbox = [c \in Callers |-> NoSandbox]
    /\ createdFor = [s \in Sandboxes |-> NoKey]
    /\ delivered = {}
    /\ lost = {}
    /\ stale = {}

-----------------------------------------------------------------------------
(* Control: going on, returning, and the bookkeeping of a closed claim.     *)

Goto(c, to) ==
    /\ pc' = [pc EXCEPT ![c] = to]
    /\ UNCHANGED <<key, claimed, sandbox>>

\* Mutant: the key of the finished call is kept.
FinishKeepingKey(c) ==
    /\ pc' = [pc EXCEPT ![c] = "idle"]
    /\ claimed' = [claimed EXCEPT ![c] = FALSE]
    /\ sandbox' = [sandbox EXCEPT ![c] = NoSandbox]
    /\ UNCHANGED key

\* The call returns: its locals are gone.
Finish(c) ==
    /\ pc' = [pc EXCEPT ![c] = "idle"]
    /\ key' = [key EXCEPT ![c] = NoKey]
    /\ claimed' = [claimed EXCEPT ![c] = FALSE]
    /\ sandbox' = [sandbox EXCEPT ![c] = NoSandbox]

\* ScheduleSandbox returns sandbox id s, or an error for NoSandbox.
Answer(c, s) ==
    delivered' = IF s = NoSandbox THEN delivered
                 ELSE delivered \cup {<<key[c], s>>}

\* A key stops being stale once no claim on it is open any more.
Settle(gone) ==
    stale' = {k \in stale : \E d \in Callers \ gone : OpenClaim(d, k)}

-----------------------------------------------------------------------------
(* ClaimOrWait                                                              *)

\* A request arrives.  Bound: as many unused ids as calls that may create.
StartCall(c, k) ==
    /\ pc[c] = "idle"
    /\ Cardinality(Fresh) > Cardinality(InProgress)
    /\ pc' = [pc EXCEPT ![c] = "lookup"]
    /\ key' = [key EXCEPT ![c] = k]
    /\ UNCHANGED <<claimed, sandbox>>
    /\ UNCHANGED storeVars
    /\ UNCHANGED histVars

\* GET idempotence:<key>: a hit ends the call, a miss goes on to `miss`.
GetSandboxID(c, miss) ==
    IF idem[key[c]] # NoSandbox
    THEN /\ Finish(c)
         /\ Answer(c, idem[key[c]])
    ELSE /\ Goto(c, miss)
         /\ UNCHANGED delivered

Lookup(c) ==
    /\ pc[c] = "lookup"
    /\ GetSandboxID(c, "mark")
    /\ UNCHANGED storeVars
    /\ UNCHANGED <<createdFor, lost, stale>>

\* SETNX pending:<key>
MarkPendingCreation(c) ==
    /\ pc[c] = "mark"
    /\ IF pending[key[c]]
       THEN /\ Goto(c, "await")
            /\ UNCHANGED pending
       ELSE /\ pending' = [pending EXCEPT ![key[c]] = TRUE]
            /\ claimed' = [claimed EXCEPT ![c] = TRUE]
            /\ pc' = [pc EXCEPT ![c] = "create"]
            /\ UNCHANGED <<key, sandbox>>
    /\ UNCHANGED <<idem, sandboxIdem>>
    /\ UNCHANGED histVars

\* awaitIdempotenceCompletion: the look before the ticker starts.
AwaitFirst(c) ==
    /\ pc[c] = "await"
    /\ GetSandboxID(c, "poll")
    /\ UNCHANGED storeVars
    /\ UNCHANGED <<createdFor, lost, stale>>

\* A tick: first the record is read ...
PollRecord(c) ==
    /\ pc[c] = "poll"
    /\ GetSandboxID(c, "exists")
    /\ UNCHANGED storeVars
    /\ UNCHANGED <<createdFor, lost, stale>>

\* ... then the marker.  Without a marker the wait ends in
\* ErrConcurrentCreationFailed and ScheduleSandbox creates unclaimed.
PollMarker(c) ==
    /\ pc[c] = "exists"
    /\ Goto(c, IF pending[key[c]] THEN "poll" ELSE "create")
    /\ UNCHANGED storeVars
    /\ UNCHANGED histVars

\* Mutant: awaitIdempotenceCompletion does not watch ctx.Done().
ClaimTimeoutNotWhileWaiting(c) ==
    /\ pc[c] \in {"lookup", "mark"}
    /\ Finish(c)
    /\ UNCHANGED storeVars
    /\ UNCHANGED histVars

\* claimCtx ends (deadline or the client leaving): the call fails.  A SETNX
\* the deadline cuts off may have been applied all the same.
ClaimTimeout(c) ==
    /\ pc[c] \in ClaimPhase
    /\ Finish(c)
    /\ \/ UNCHANGED pending
       \/ /\ pc[c] = "mark"
          /\ "redis" \in Faults
          /\ pending' = [pending EXCEPT ![key[c]] = TRUE]
    /\ UNCHANGED <<idem, sandboxIdem>>
    /\ UNCHANGED histVars

\* Any other Redis error while claiming: "proceeding with creation", with
\* Claimed false, whether or not the command took effect.
ClaimError(c) ==
    /\ "redis" \in Faults
    /\ pc[c] \in ClaimPhase
    /\ Goto(c, "create")
    /\ \/ UNCHANGED pending
       \/ /\ pc[c] = "mark"
          /\ pending' = [pending EXCEPT ![key[c]] = TRUE]
    /\ UNCHANGED <<idem, sandboxIdem>>
    /\ UNCHANGED histVars

-----------------------------------------------------------------------------
(* Creation, Complete and the deferred Drop                                 *)

\* The pod exists.  Complete and Drop do nothing without a claim, so an
\* unclaimed caller returns at once.
CreateSandbox(c, s) ==
    /\ pc[c] = "create"
    /\ s \in Fresh
    /\ createdFor' = [createdFor EXCEPT ![s] = key[c]]
    /\ IF claimed[c]
       THEN /\ pc' = [pc EXCEPT ![c] = "complete"]
            /\ sandbox' = [sandbox EXCEPT ![c] = s]
            /\ UNCHANGED <<key, claimed, delivered>>
       ELSE /\ Finish(c)
            /\ Answer(c, s)
    /\ UNCHANGED storeVars
    /\ UNCHANGED <<lost, stale>>

\* Mutant: Drop does not look at Claimed.
CreateErrorAlwaysDrops(c) ==
    /\ "k8s" \in Faults
    /\ pc[c] = "create"
    /\ Goto(c, "drop")
    /\ UNCHANGED storeVars
    /\ UNCHANGED histVars

\* Mutant: the failed creation returns without the deferred Drop.
CreateErrorKeepsMarker(c) ==
    /\ "k8s" \in Faults
    /\ pc[c] = "create"
    /\ Finish(c)
    /\ Settle({c})
    /\ UNCHANGED storeVars
    /\ UNCHANGED <<createdFor, delivered, lost>>

\* The create call fails; the API server may have admitted the pod anyway.
CreateError(c) ==
    /\ "k8s" \in Faults
    /\ pc[c] = "create"
    /\ IF claimed[c] THEN Goto(c, "drop") ELSE Finish(c)
    /\ \/ UNCHANGED <<createdFor, lost>>
       \/ \E s \in Fresh :
             /\ createdFor' = [createdFor EXCEPT ![s] = key[c]]
             /\ lost' = lost \cup {s}
    /\ UNCHANGED storeVars
    /\ UNCHANGED <<delivered, stale>>

\* Mutant: formKey forgets the key, so that all keys share one record.
CompleteSharedRecord(c) ==
    /\ idem' = [k \in Keys |-> sandbox[c]]
    /\ sandboxIdem' = [sandboxIdem EXCEPT ![sandbox[c]] = key[c]]
    /\ pending' = [pending EXCEPT ![key[c]] = FALSE]

\* MULTI: SET record, SET reverse record, DEL marker; EXEC.
CompletePendingCreation(c) ==
    /\ idem' = [idem EXCEPT ![key[c]] = sandbox[c]]
    /\ sandboxIdem' = [sandboxIdem EXCEPT ![sandbox[c]] = key[c]]
    /\ pending' = [pending EXCEPT ![key[c]] = FALSE]

Complete(c) ==
    /\ pc[c] = "complete"
    /\ CompletePendingCreation(c)
    /\ Finish(c)
    /\ Answer(c, sandbox[c])
    /\ Settle({c})
    /\ UNCHANGED <<createdFor, lost>>

\* Mutant: a failed Complete makes ScheduleSandbox return the error.
CompleteErrorFails(c) ==
    /\ "redis" \in Faults
    /\ pc[c] = "complete"
    /\ pc' = [pc EXCEPT ![c] = "drop"]
    /\ sandbox' = [sandbox EXCEPT ![c] = NoSandbox]
    /\ UNCHANGED <<key, claimed>>
    /\ UNCHANGED storeVars
    /\ UNCHANGED histVars

\* The error is only logged and `completed` stays false, so Drop follows.
\* If the transaction was applied, the claim outlives its marker.
CompleteError(c) ==
    /\ "redis" \in Faults
    /\ pc[c] = "complete"
    /\ \/ /\ UNCHANGED storeVars
          /\ UNCHANGED stale
       \/ /\ CompletePendingCreation(c)
          /\ stale' = stale \cup {key[c]}
    /\ Goto(c, "drop")
    /\ UNCHANGED <<createdFor, delivered, lost>>

\* DEL pending:<key>, whoever set it; then ScheduleSandbox returns.
Drop(c) ==
    /\ pc[c] = "drop"
    /\ pending' = [pending EXCEPT ![key[c]] = FALSE]
    /\ Finish(c)
    /\ Answer(c, sandbox[c])
    /\ Settle({c})
    /\ UNCHANGED <<idem, sandboxIdem, createdFor, lost>>

\* A failed DEL is ignored.  One that was applied is the step above.
DropError(c) ==
    /\ "redis" \in Faults
    /\ pc[c] = "drop"
    /\ Finish(c)
    /\ Answer(c, sandbox[c])
    /\ Settle({c})
    /\ UNCHANGED storeVars
    /\ UNCHANGED <<createdFor, lost>>

-----------------------------------------------------------------------------
(* The environment                                                          *)

\* A process dies with the calls it serves; what it created is orphaned.
Crash(p) ==
    LET dead == {c \in InProgress : ServedBy[c] = p} IN
    /\ "crash" \in Faults
    /\ dead # {}
    /\ pc' = [c \in Callers |-> IF c \in dead THEN "idle" ELSE pc[c]]
    /\ key' = [c \in Callers |-> IF c \in dead THEN NoKey ELSE key[c]]
    /\ claimed' = [c \in Callers |-> c \notin dead /\ claimed[c]]
    /\ sandbox' = [c \in Callers |-> IF c \in dead THEN NoSandbox ELSE sandbox[c]]
    /\ lost' = lost \cup ({sandbox[c] : c \in dead} \ {NoSandbox})
    /\ Settle(dead)
    /\ UNCHANGED storeVars
    /\ UNCHANGED <<createdFor, delivered>>

\* Mutant: the marker is set without a TTL.
ExpirePendingNever(k) ==
    /\ pending[k]
    /\ FALSE
    /\ UNCHANGED vars

\* pendingKeyTTL (1 minute).  Nothing bounds the create call by it, so it may
\* also end under a claim that is still open.
ExpirePending(k) ==
    /\ pending[k]
    /\ \/ \A c \in Callers : ~OpenClaim(c, k)
       \/ "lease" \in Faults
    /\ pending' = [pending EXCEPT ![k] = FALSE]
    /\ stale' = IF \E c \in Callers : OpenClaim(c, k)
                THEN stale \cup {k} ELSE stale
    /\ UNCHANGED <<idem, sandboxIdem, createdFor, delivered, lost>>
    /\ UNCHANGED callVars

\* idempotenceKeyTTL (10 minutes), for each of the two records by itself.
ExpireRecord(k) ==
    /\ "record" \in Faults
    /\ idem[k] # NoSandbox
    /\ idem' = [idem EXCEPT ![k] = NoSandbox]
    /\ UNCHANGED <<sandboxIdem, pending>>
    /\ UNCHANGED callVars
    /\ UNCHANGED histVars

ExpireReverse(s) ==
    /\ "record" \in Faults
    /\ sandboxIdem[s] # NoKey
    /\ sandboxIdem' = [sandboxIdem EXCEPT ![s] = NoKey]
    /\ UNCHANGED <<idem, pending>>
    /\ UNCHANGED callVars
    /\ UNCHANGED histVars

-----------------------------------------------------------------------------
\* What a goroutine does by itself once its call has started.
Step(c) ==
    \/ Lookup(c)
    \/ MarkPendingCreation(c)
    \/ AwaitFirst(c)
    \/ PollRecord(c)
    \/ PollMarker(c)
    \/ ClaimError(c)
    \/ \E s \in Sandboxes : CreateSandbox(c, s)
    \/ CreateError(c)
    \/ Complete(c)
    \/ CompleteError(c)
    \/ Drop(c)
    \/ DropError(c)

Next ==
    \/ \E c \in Callers, k \in Keys : StartCall(c, k)
    \/ \E c \in Callers : Step(c) \/ ClaimTimeout(c)
    \/ \E p \in Processes : Crash(p)
    \/ \E k \in Keys : ExpirePending(k) \/ ExpireRecord(k)
    \/ \E s \in Sandboxes : ExpireReverse(s)

Spec == Init /\ [][Next]_vars

\* Every call a goroutine makes comes back, and the 10 second deadline fires.
CallFairness == \A c \in Callers : WF_vars(Step(c)) /\ WF_vars(ClaimTimeout(c))

\* Redis ends a TTL (MarkerCleared relies on it, CallsReturn does not).
LeaseFairness == \A k \in Keys : WF_vars(ExpirePending(k))

LiveSpec == Spec /\ CallFairness

-----------------------------------------------------------------------------
TypeOK ==
    /\ idem \in [Keys -> Sandboxes \cup {NoSandbox}]
    /\ sandboxIdem \in [Sandboxes -> Keys \cup {NoKey}]
    /\ pending \in [Keys -> BOOLEAN]
    /\ pc \in [Callers -> Locations]
    /\ key \in [Callers -> Keys \cup {NoKey}]
    /\ claimed \in [Callers -> BOOLEAN]
    /\ sandbox \in [Callers -> Sandboxes \cup {NoSandbox}]
    /\ createdFor \in [Sandboxes -> Keys \cup {NoKey}]
    /\ delivered \subseteq Keys \X Sandboxes
    /\ lost \subseteq Sandboxes
    /\ stale \subseteq Keys
    /\ \A c \in Callers : (key[c] = NoKey) <=> (pc[c] = "idle")

\* ClaimOrWait grants a key to one caller at a time: unless a marker went
\* away under a claim (lease ended, or Complete applied but reported failed),
\* no two callers hold an open claim on the same key, even though Complete
\* and Drop delete the marker without checking who set it.
ClaimExclusion ==
    \A k \in Keys \ stale, c, d \in Callers :
        OpenClaim(c, k) /\ OpenClaim(d, k) => c = d

\* A call will remove the marker of key k.
Owned(k) == \E c \in Callers : OpenClaim(c, k)

\* The ways to leave a marker behind: a SETNX applied although its reply is
\* lost, a DEL that fails (Drop uses the request's context, so a client that
\* leaves causes it) and a crash.
MarkerAbandoned ==
    \/ \E c \in Callers :
          ClaimError(c) \/ DropError(c) \/ (ClaimTimeout(c) /\ pending' # pending)
    \/ \E p \in Processes : Crash(p)

\* The deferred Drop: a marker that is set, or that belongs to a call that will
\* remove it, never loses its last owner in any other step, also not when the
\* creation or Complete fails, when the lease ends, or when another caller's
\* late Drop removes a marker that is not its own.
MarkerKeepsOwner ==
    [][\A k \in Keys :
          pending'[k] /\ (pending[k] => Owned(k)) => Owned(k)' \/ MarkerAbandoned]_vars

\* No sandbox is forgotten on an error path: a pod that was created, and whose
\* id the process learned and did not crash with, is held by a running call or
\* was returned to one; failing to record it (Complete) does not lose it.
NoLeakedSandbox ==
    \A s \in Sandboxes \ lost :
        createdFor[s] # NoKey =>
            \/ \E c \in Callers : sandbox[c] = s
            \/ \E k \in Keys : <<k, s>> \in delivered

\* ScheduleSandbox answers a key only with a sandbox created for that key,
\* through whatever races of lookup, record, expiry and re-creation.
DeliveredForKey ==
    \A k \in Keys, s \in Sandboxes :
        <<k, s>> \in delivered => createdFor[s] = k

\* Every ScheduleSandbox call returns, even if the owner of the marker it
\* waits for died and the marker never goes away (the 10 second claimCtx).
CallsReturn == \A c \in Callers : pc[c] # "idle" ~> pc[c] = "idle"

\* A key is never blocked for good: a pending marker is removed by its owner,
\* or, when the owner died or its DEL failed, by the TTL of the SETNX.
MarkerCleared == LeaseFairness => \A k \in Keys : pending[k] ~> ~pending[k]

\* idempotence.go:105 "IdempotenceStore handles idempotent operations for
\* sandbox creation": requests with one key get one sandbox.
IdempotentCreation ==
    \A k \in Keys, s, t \in Sandboxes :
        createdFor[s] = k /\ createdFor[t] = k => s = t

=============================================================================
