------------------------- MODULE IdempotenceProofs -------------------------
(***************************************************************************)
(* What Idempotence promises for any number of callers, processes, keys    *)
(* and sandboxes and for every set of faults.                              *)
(***************************************************************************)
EXTENDS Idempotence, TLAPS

\* The record, claim and history types that every step of ScheduleSandbox
\* keeps; in particular a call knows its key exactly while it runs.
THEOREM TypeCorrect == Spec => []TypeOK
<1>1. Init => TypeOK
  BY DEF Init, TypeOK, Locations
<1>2. TypeOK /\ [Next]_vars => TypeOK'
  <2> SUFFICES ASSUME TypeOK, [Next]_vars PROVE TypeOK'
    OBVIOUS
  <2> USE SentinelAssumption DEF TypeOK, Locations, storeVars, callVars, histVars
  <2>1. ASSUME NEW c \in Callers, NEW k \in Keys, StartCall(c, k) PROVE TypeOK'
    BY <2>1 DEF StartCall
  <2>2. ASSUME NEW c \in Callers, NEW miss \in {"mark", "poll", "exists"},
               pc[c] \in {"lookup", "await", "poll"}, GetSandboxID(c, miss),
               UNCHANGED storeVars, UNCHANGED <<createdFor, lost, stale>>
        PROVE  TypeOK'
    <3>1. key[c] \in Keys
      BY <2>2
    <3>2. CASE idem[key[c]] # NoSandbox
      <4>1. idem[key[c]] \in Sandboxes
        BY <3>1, <3>2
      <4>2. delivered' \subseteq Keys \X Sandboxes
        BY <2>2, <3>1, <3>2, <4>1 DEF GetSandboxID, Answer
      <4> QED
        BY <2>2, <3>2, <4>2, ZenonT(60) DEF GetSandboxID, Finish
    <3>3. CASE idem[key[c]] = NoSandbox
      BY <2>2, <3>3 DEF GetSandboxID, Goto
    <3> QED
      BY <3>2, <3>3
  <2>3. ASSUME NEW c \in Callers, MarkPendingCreation(c) PROVE TypeOK'
    <3>1. CASE pending[key[c]]
      BY <2>3, <3>1 DEF MarkPendingCreation, Goto
    <3>2. CASE ~pending[key[c]]
      BY <2>3, <3>2 DEF MarkPendingCreation
    <3> QED
      BY <3>1, <3>2
  <2>4. ASSUME NEW c \in Callers, PollMarker(c) PROVE TypeOK'
    BY <2>4 DEF PollMarker, Goto
  <2>5. ASSUME NEW c \in Callers, ClaimTimeout(c) PROVE TypeOK'
    BY <2>5 DEF ClaimTimeout, Finish, ClaimPhase
  <2>6. ASSUME NEW c \in Callers, ClaimError(c) PROVE TypeOK'
    BY <2>6 DEF ClaimError, Goto, ClaimPhase
  <2>7. ASSUME NEW c \in Callers, NEW s \in Sandboxes, CreateSandbox(c, s) PROVE TypeOK'
    <3>1. key[c] \in Keys
      BY <2>7 DEF CreateSandbox
    <3>2. delivered' \subseteq Keys \X Sandboxes
      BY <2>7, <3>1 DEF CreateSandbox, Answer
    <3>3. createdFor' \in [Sandboxes -> Keys \cup {NoKey}]
      BY <2>7, <3>1 DEF CreateSandbox
    <3>4. CASE claimed[c]
      BY <2>7, <3>2, <3>3, <3>4 DEF CreateSandbox
    <3>5. CASE ~claimed[c]
      BY <2>7, <3>2, <3>3, <3>5, ZenonT(60) DEF CreateSandbox, Finish
    <3> QED
      BY <3>4, <3>5
  <2>8. ASSUME NEW c \in Callers, CreateError(c) PROVE TypeOK'
    BY <2>8, ZenonT(60) DEF CreateError, Finish, Goto, Fresh
  <2>9. ASSUME NEW c \in Callers, Complete(c) PROVE TypeOK'
    <3>1. key[c] \in Keys
      BY <2>9 DEF Complete
    <3>2. delivered' \subseteq Keys \X Sandboxes
      BY <2>9, <3>1 DEF Complete, Answer
    <3>3. stale' \subseteq Keys
      BY <2>9 DEF Complete, Settle
    <3> QED
      BY <2>9, <3>1, <3>2, <3>3 DEF Complete, CompletePendingCreation, Finish
  <2>10. ASSUME NEW c \in Callers, CompleteError(c) PROVE TypeOK'
    BY <2>10, ZenonT(60) DEF CompleteError, CompletePendingCreation, Goto
  <2>11. ASSUME NEW c \in Callers, Drop(c) PROVE TypeOK'
    BY <2>11 DEF Drop, Finish, Answer, Settle
  <2>12. ASSUME NEW c \in Callers, DropError(c) PROVE TypeOK'
    BY <2>12 DEF DropError, Finish, Answer, Settle
  <2>13. ASSUME NEW p \in Processes, Crash(p) PROVE TypeOK'
    BY <2>13 DEF Crash, Settle, InProgress
  <2>14. ASSUME NEW k \in Keys, ExpirePending(k) PROVE TypeOK'
    BY <2>14 DEF ExpirePending
  <2>15. ASSUME NEW k \in Keys, ExpireRecord(k) PROVE TypeOK'
    BY <2>15 DEF ExpireRecord
  <2>16. ASSUME NEW s \in Sandboxes, ExpireReverse(s) PROVE TypeOK'
    BY <2>16 DEF ExpireReverse
  <2>17. CASE UNCHANGED vars
    BY <2>17 DEF vars
  <2> QED
    BY <2>1, <2>2, <2>3, <2>4, <2>5, <2>6, <2>7, <2>8, <2>9, <2>10, <2>11,
       <2>12, <2>13, <2>14, <2>15, <2>16, <2>17
       DEF Next, Step, Lookup, AwaitFirst, PollRecord
<1>3. QED
  BY <1>1, <1>2, PTL DEF Spec

-----------------------------------------------------------------------------
\* Where in ScheduleSandbox a claim can be open and a sandbox id be held.
CallShape ==
    \A c \in Callers :
        /\ claimed[c] => pc[c] \in {"create", "complete", "drop"}
        /\ pc[c] \in {"complete", "drop"} => claimed[c]
        /\ sandbox[c] # NoSandbox => pc[c] \in {"complete", "drop"}

\* ScheduleSandbox holds a claim only after ClaimOrWait returned it, and a
\* sandbox id only between the create and the deferred Drop.
LEMMA CallShapeCorrect == Spec => []CallShape
<1>1. Init => CallShape
  BY DEF Init, CallShape
<1>2. TypeOK /\ CallShape /\ [Next]_vars => CallShape'
  <2> SUFFICES ASSUME TypeOK, CallShape, [Next]_vars PROVE CallShape'
    OBVIOUS
  <2> USE DEF TypeOK, CallShape, callVars, ClaimPhase
  <2>1. ASSUME NEW c \in Callers, NEW k \in Keys, StartCall(c, k) PROVE CallShape'
    BY <2>1 DEF StartCall
  <2>2. ASSUME NEW c \in Callers, NEW miss \in {"mark", "poll", "exists"},
               pc[c] \in {"lookup", "await", "poll"}, GetSandboxID(c, miss)
        PROVE  CallShape'
    BY <2>2 DEF GetSandboxID, Finish, Goto
  <2>3. ASSUME NEW c \in Callers, MarkPendingCreation(c) PROVE CallShape'
    BY <2>3 DEF MarkPendingCreation, Goto
  <2>4. ASSUME NEW c \in Callers, PollMarker(c) PROVE CallShape'
    BY <2>4 DEF PollMarker, Goto
  <2>5. ASSUME NEW c \in Callers, ClaimTimeout(c) PROVE CallShape'
    BY <2>5 DEF ClaimTimeout, Finish
  <2>6. ASSUME NEW c \in Callers, ClaimError(c) PROVE CallShape'
    BY <2>6 DEF ClaimError, Goto
  <2>7. ASSUME NEW c \in Callers, NEW s \in Sandboxes, CreateSandbox(c, s) PROVE CallShape'
    BY <2>7 DEF CreateSandbox, Finish
  <2>8. ASSUME NEW c \in Callers, CreateError(c) PROVE CallShape'
    BY <2>8 DEF CreateError, Finish, Goto
  <2>9. ASSUME NEW c \in Callers, Complete(c) PROVE CallShape'
    BY <2>9 DEF Complete, Finish
  <2>10. ASSUME NEW c \in Callers, CompleteError(c) PROVE CallShape'
    BY <2>10 DEF CompleteError, Goto
  <2>11. ASSUME NEW c \in Callers, Drop(c) \/ DropError(c) PROVE CallShape'
    BY <2>11 DEF Drop, DropError, Finish
  <2>12. ASSUME NEW p \in Processes, Crash(p) PROVE CallShape'
    BY <2>12 DEF Crash
  <2>13. ASSUME UNCHANGED callVars PROVE CallShape'
    BY <2>13
  <2> QED
    BY <2>1, <2>2, <2>3, <2>4, <2>5, <2>6, <2>7, <2>8, <2>9, <2>10, <2>11,
       <2>12, <2>13
       DEF Next, Step, Lookup, AwaitFirst, PollRecord, ExpirePending,
           ExpireRecord, ExpireReverse, vars
<1>3. QED
  BY <1>1, <1>2, TypeCorrect, PTL DEF Spec

-----------------------------------------------------------------------------
\* Why the claim is exclusive although nothing records the marker's owner:
\* a claim that is open on a key that is not stale still has its marker.
MarkerHeld ==
    \A k \in Keys \ stale, c \in Callers : OpenClaim(c, k) => pending[k]

\* ClaimOrWait, Complete and Drop keep one claimant per key, until a lease
\* ends (or a Complete that was reported failed removes it) under a claim.
THEOREM ClaimIsExclusive == Spec => []ClaimExclusion
<1> DEFINE IInv == MarkerHeld /\ ClaimExclusion
<1>1. Init => IInv
  BY DEF Init, MarkerHeld, ClaimExclusion, OpenClaim
<1>2. TypeOK /\ CallShape /\ IInv /\ [Next]_vars => IInv'
  <2> SUFFICES ASSUME TypeOK, CallShape, IInv, [Next]_vars PROVE IInv'
    OBVIOUS
  <2> USE DEF TypeOK, CallShape, MarkerHeld, ClaimExclusion, OpenClaim
  <2>0. ASSUME NEW c \in Callers, NEW d \in Callers, NEW k \in Keys,
               claimed[c], key[c] = k, Settle({c}),
               claimed' = [claimed EXCEPT ![c] = FALSE],
               key' = [key EXCEPT ![c] = NoKey],
               k \notin stale', OpenClaim(d, k)'
        PROVE  FALSE
    BY <2>0 DEF Settle
  <2>1. ASSUME NEW c \in Callers, NEW k \in Keys, StartCall(c, k) PROVE IInv'
    BY <2>1 DEF StartCall, storeVars, histVars
  <2>2. ASSUME NEW c \in Callers, NEW miss \in {"mark", "poll", "exists"},
               GetSandboxID(c, miss), UNCHANGED <<pending, stale>>
        PROVE  IInv'
    BY <2>2 DEF GetSandboxID, Finish, Goto
  <2>3. ASSUME NEW c \in Callers, MarkPendingCreation(c) PROVE IInv'
    BY <2>3 DEF MarkPendingCreation, Goto, histVars
  <2>4. ASSUME NEW c \in Callers, PollMarker(c) PROVE IInv'
    BY <2>4 DEF PollMarker, Goto, storeVars, histVars
  <2>5. ASSUME NEW c \in Callers, ClaimTimeout(c) PROVE IInv'
    BY <2>5 DEF ClaimTimeout, Finish, histVars, ClaimPhase
  <2>6. ASSUME NEW c \in Callers, ClaimError(c) PROVE IInv'
    BY <2>6 DEF ClaimError, Goto, histVars, ClaimPhase
  <2>7. ASSUME NEW c \in Callers, NEW s \in Sandboxes, CreateSandbox(c, s) PROVE IInv'
    BY <2>7 DEF CreateSandbox, Finish, storeVars
  <2>8. ASSUME NEW c \in Callers, CreateError(c) PROVE IInv'
    BY <2>8 DEF CreateError, Finish, Goto, storeVars
  <2>9. ASSUME NEW c \in Callers, Complete(c) PROVE IInv'
    BY <2>9, <2>0 DEF Complete, CompletePendingCreation, Finish, Settle
  <2>10. ASSUME NEW c \in Callers, CompleteError(c) PROVE IInv'
    BY <2>10 DEF CompleteError, CompletePendingCreation, Goto, storeVars
  <2>11. ASSUME NEW c \in Callers, Drop(c) PROVE IInv'
    BY <2>11, <2>0 DEF Drop, Finish, Settle
  <2>12. ASSUME NEW c \in Callers, DropError(c) PROVE IInv'
    BY <2>12 DEF DropError, Finish, Settle, storeVars
  <2>13. ASSUME NEW p \in Processes, Crash(p) PROVE IInv'
    <3>1. \A d \in Callers, k \in Keys :
             OpenClaim(d, k)' => OpenClaim(d, k) /\ ~(d \in InProgress /\ ServedBy[d] = p)
      BY <2>13, SentinelAssumption DEF Crash
    <3>2. \A d \in Callers, k \in Keys : OpenClaim(d, k)' /\ k \notin stale' => k \notin stale
      BY <2>13, <3>1 DEF Crash, Settle
    <3> QED
      BY <2>13, <3>1, <3>2 DEF Crash, storeVars
  <2>14. ASSUME NEW k \in Keys, ExpirePending(k) PROVE IInv'
    BY <2>14 DEF ExpirePending, callVars
  <2>15. ASSUME UNCHANGED <<pending, stale, callVars>> PROVE IInv'
    BY <2>15 DEF callVars
  <2> QED
    BY <2>1, <2>2, <2>3, <2>4, <2>5, <2>6, <2>7, <2>8, <2>9, <2>10, <2>11,
       <2>12, <2>13, <2>14, <2>15
       DEF Next, Step, Lookup, AwaitFirst, PollRecord, ExpireRecord,
           ExpireReverse, vars, storeVars, callVars, histVars
<1>3. QED
  BY <1>1, <1>2, TypeCorrect, CallShapeCorrect, PTL DEF Spec

-----------------------------------------------------------------------------
\* Only the steps of MarkerAbandoned leave a marker without a call that will
\* remove it: the deferred Drop covers every other way out of ScheduleSandbox.
THEOREM MarkersKeepOwners == Spec => MarkerKeepsOwner
<1> DEFINE A == \A k \in Keys :
                   pending'[k] /\ (pending[k] => Owned(k)) => Owned(k)' \/ MarkerAbandoned
<1>1. TypeOK /\ CallShape /\ [Next]_vars => [A]_vars
  <2> SUFFICES ASSUME TypeOK, CallShape, Next, ~MarkerAbandoned,
                      NEW k \in Keys, pending'[k], pending[k] => Owned(k)
               PROVE  Owned(k)'
    OBVIOUS
  <2> USE DEF TypeOK, CallShape, OpenClaim, Owned
  <2>1. ASSUME NEW c \in Callers, NEW j \in Keys, StartCall(c, j) PROVE Owned(k)'
    BY <2>1, SentinelAssumption DEF StartCall, storeVars
  <2>2. ASSUME NEW c \in Callers, NEW miss, pc[c] \in {"lookup", "await", "poll"},
               GetSandboxID(c, miss), UNCHANGED pending
        PROVE  Owned(k)'
    BY <2>2 DEF GetSandboxID, Finish, Goto
  <2>3. ASSUME NEW c \in Callers, MarkPendingCreation(c) PROVE Owned(k)'
    BY <2>3 DEF MarkPendingCreation, Goto
  <2>4. ASSUME NEW c \in Callers, PollMarker(c) PROVE Owned(k)'
    BY <2>4 DEF PollMarker, Goto, storeVars
  <2>5. ASSUME NEW c \in Callers, ClaimTimeout(c) PROVE Owned(k)'
    <3>1. pending' = pending
      BY <2>5 DEF MarkerAbandoned
    <3> QED
      BY <2>5, <3>1 DEF ClaimTimeout, Finish, ClaimPhase
  <2>6. ASSUME NEW c \in Callers, NEW s \in Sandboxes, CreateSandbox(c, s) PROVE Owned(k)'
    BY <2>6 DEF CreateSandbox, Finish, storeVars
  <2>7. ASSUME NEW c \in Callers, CreateError(c) PROVE Owned(k)'
    BY <2>7 DEF CreateError, Finish, Goto, storeVars
  <2>8. ASSUME NEW c \in Callers, Complete(c) PROVE Owned(k)'
    BY <2>8 DEF Complete, CompletePendingCreation, Finish
  <2>9. ASSUME NEW c \in Callers, CompleteError(c) PROVE Owned(k)'
    BY <2>9 DEF CompleteError, CompletePendingCreation, Goto, storeVars
  <2>10. ASSUME NEW c \in Callers, Drop(c) PROVE Owned(k)'
    BY <2>10 DEF Drop, Finish
  <2>11. ASSUME NEW j \in Keys, ExpirePending(j) PROVE Owned(k)'
    BY <2>11 DEF ExpirePending, callVars
  <2>12. ASSUME UNCHANGED <<pending, callVars>> PROVE Owned(k)'
    BY <2>12 DEF callVars
  <2>13. \A c \in Callers : ~ClaimError(c) /\ ~DropError(c)
    BY DEF MarkerAbandoned
  <2>14. \A p \in Processes : ~Crash(p)
    BY DEF MarkerAbandoned
  <2> QED
    BY <2>1, <2>2, <2>3, <2>4, <2>5, <2>6, <2>7, <2>8, <2>9, <2>10, <2>11,
       <2>12, <2>13, <2>14
       DEF Next, Step, Lookup, AwaitFirst, PollRecord, ExpireRecord,
           ExpireReverse, storeVars, callVars
<1>2. QED
  BY <1>1, TypeCorrect, CallShapeCorrect, PTL DEF Spec, MarkerKeepsOwner

-----------------------------------------------------------------------------
\* No error path of ScheduleSandbox forgets a pod it created.
THEOREM SandboxesNotLeaked == Spec => []NoLeakedSandbox
<1>1. Init => NoLeakedSandbox
  BY DEF Init, NoLeakedSandbox
<1>2. TypeOK /\ CallShape /\ NoLeakedSandbox /\ [Next]_vars => NoLeakedSandbox'
  <2> SUFFICES ASSUME TypeOK, CallShape, NoLeakedSandbox, [Next]_vars,
                      NEW t \in Sandboxes, t \notin lost', createdFor'[t] # NoKey
               PROVE  \/ \E c \in Callers : sandbox'[c] = t
                      \/ \E k \in Keys : <<k, t>> \in delivered'
    BY DEF NoLeakedSandbox
  <2> DEFINE Safe == \/ \E c \in Callers : sandbox[c] = t
                     \/ \E k \in Keys : <<k, t>> \in delivered
             Goal == \/ \E c \in Callers : sandbox'[c] = t
                     \/ \E k \in Keys : <<k, t>> \in delivered'
  <2>0. t \notin lost /\ createdFor[t] # NoKey => Safe
    BY DEF NoLeakedSandbox
  <2> USE SentinelAssumption DEF TypeOK, CallShape
  <2>1. ASSUME NEW c \in Callers, NEW k \in Keys, StartCall(c, k) PROVE Goal
    BY <2>0, <2>1 DEF StartCall, histVars
  <2>2. ASSUME NEW c \in Callers, NEW miss, pc[c] \in {"lookup", "await", "poll"},
               GetSandboxID(c, miss), UNCHANGED <<createdFor, lost>>
        PROVE  Goal
    BY <2>0, <2>2 DEF GetSandboxID, Finish, Goto, Answer
  <2>3. ASSUME NEW c \in Callers, MarkPendingCreation(c) PROVE Goal
    BY <2>0, <2>3 DEF MarkPendingCreation, Goto, histVars
  <2>4. ASSUME NEW c \in Callers, PollMarker(c) \/ ClaimError(c) PROVE Goal
    BY <2>0, <2>4 DEF PollMarker, ClaimError, Goto, histVars
  <2>5. ASSUME NEW c \in Callers, ClaimTimeout(c) PROVE Goal
    BY <2>0, <2>5 DEF ClaimTimeout, Finish, histVars, ClaimPhase
  <2>6. ASSUME NEW c \in Callers, NEW s \in Sandboxes, CreateSandbox(c, s) PROVE Goal
    <3>1. key[c] \in Keys
      BY <2>6 DEF CreateSandbox
    <3>2. CASE claimed[c]
      BY <2>0, <2>6, <3>2, ZenonT(60) DEF CreateSandbox
    <3>3. CASE ~claimed[c]
      BY <2>0, <2>6, <3>1, <3>3 DEF CreateSandbox, Finish, Answer
    <3> QED
      BY <3>2, <3>3
  <2>7. ASSUME NEW c \in Callers, CreateError(c) PROVE Goal
    BY <2>0, <2>7 DEF CreateError, Finish, Goto
  <2>8. ASSUME NEW c \in Callers, Complete(c) \/ Drop(c) \/ DropError(c) PROVE Goal
    <3>1. key[c] \in Keys
      BY <2>8 DEF Complete, Drop, DropError
    <3> QED
      BY <2>0, <2>8, <3>1 DEF Complete, Drop, DropError, Finish, Answer
  <2>9. ASSUME NEW c \in Callers, CompleteError(c) PROVE Goal
    BY <2>0, <2>9 DEF CompleteError, Goto
  <2>10. ASSUME NEW p \in Processes, Crash(p) PROVE Goal
    BY <2>0, <2>10 DEF Crash, InProgress
  <2>11. ASSUME UNCHANGED <<sandbox, createdFor, delivered, lost>> PROVE Goal
    BY <2>0, <2>11
  <2>12. Goal
    <3> HIDE DEF Goal, TypeOK, CallShape
    <3> QED
      BY <2>1, <2>2, <2>3, <2>4, <2>5, <2>6, <2>7, <2>8, <2>9, <2>10, <2>11
         DEF Next, Step, Lookup, AwaitFirst, PollRecord, ExpirePending,
             ExpireRecord, ExpireReverse, vars, callVars, histVars
  <2> QED
    BY <2>12
<1>3. QED
  BY <1>1, <1>2, TypeCorrect, CallShapeCorrect, PTL DEF Spec

-----------------------------------------------------------------------------
\* Records and held ids agree with the key the pod was created for.
RecordedForKey ==
    /\ \A k \in Keys : idem[k] # NoSandbox => createdFor[idem[k]] = k
    /\ \A c \in Callers : sandbox[c] # NoSandbox => createdFor[sandbox[c]] = key[c]

\* No interleaving makes ScheduleSandbox answer one key with a sandbox that
\* was created for another.
THEOREM AnswersMatchKey == Spec => []DeliveredForKey
<1> DEFINE IInv == RecordedForKey /\ DeliveredForKey
<1>1. Init => IInv
  BY DEF Init, RecordedForKey, DeliveredForKey
<1>2. TypeOK /\ CallShape /\ IInv /\ [Next]_vars => IInv'
  <2> SUFFICES ASSUME TypeOK, CallShape, IInv, [Next]_vars PROVE IInv'
    OBVIOUS
  <2> USE SentinelAssumption DEF TypeOK, CallShape, RecordedForKey, DeliveredForKey
  <2>1. ASSUME NEW c \in Callers, NEW k \in Keys, StartCall(c, k) PROVE IInv'
    BY <2>1 DEF StartCall, storeVars, histVars
  <2>2. ASSUME NEW c \in Callers, NEW miss, pc[c] \in {"lookup", "await", "poll"},
               GetSandboxID(c, miss), UNCHANGED <<idem, createdFor>>
        PROVE  IInv'
    <3>1. key[c] \in Keys
      BY <2>2
    <3> QED
      BY <2>2, <3>1 DEF GetSandboxID, Finish, Goto, Answer
  <2>3. ASSUME NEW c \in Callers, MarkPendingCreation(c) PROVE IInv'
    BY <2>3 DEF MarkPendingCreation, Goto, histVars
  <2>4. ASSUME NEW c \in Callers, PollMarker(c) \/ ClaimError(c) PROVE IInv'
    BY <2>4 DEF PollMarker, ClaimError, Goto, storeVars, histVars
  <2>5. ASSUME NEW c \in Callers, ClaimTimeout(c) PROVE IInv'
    BY <2>5 DEF ClaimTimeout, Finish, histVars
  <2>6. ASSUME NEW c \in Callers, NEW s \in Sandboxes, CreateSandbox(c, s) PROVE IInv'
    <3>1. key[c] \in Keys /\ createdFor[s] = NoKey
      BY <2>6 DEF CreateSandbox, Fresh
    <3>2. CASE claimed[c]
      BY <2>6, <3>1, <3>2 DEF CreateSandbox, storeVars
    <3>3. CASE ~claimed[c]
      BY <2>6, <3>1, <3>3 DEF CreateSandbox, Finish, Answer, storeVars
    <3> QED
      BY <3>2, <3>3
  <2>7. ASSUME NEW c \in Callers, CreateError(c) PROVE IInv'
    <3>1. sandbox' = sandbox /\ idem' = idem /\ delivered' = delivered
      BY <2>7 DEF CreateError, Finish, Goto, storeVars
    <3>2. \A d \in Callers : sandbox[d] # NoSandbox => key'[d] = key[d]
      BY <2>7 DEF CreateError, Finish, Goto
    <3>3. \A s \in Sandboxes : createdFor[s] # NoKey => createdFor'[s] = createdFor[s]
      BY <2>7 DEF CreateError, Fresh
    <3>4. \A d \in Callers : sandbox[d] # NoSandbox => key[d] # NoKey
      OBVIOUS
    <3> QED
      BY <3>1, <3>2, <3>3, <3>4
  <2>8. ASSUME NEW c \in Callers, Complete(c) PROVE IInv'
    <3>1. key[c] \in Keys
      BY <2>8 DEF Complete
    <3> QED
      BY <2>8, <3>1 DEF Complete, CompletePendingCreation, Finish, Answer
  <2>9. ASSUME NEW c \in Callers, CompleteError(c) PROVE IInv'
    BY <2>9 DEF CompleteError, CompletePendingCreation, Goto, storeVars
  <2>10. ASSUME NEW c \in Callers, Drop(c) \/ DropError(c) PROVE IInv'
    BY <2>10 DEF Drop, DropError, Finish, Answer, storeVars
  <2>11. ASSUME NEW p \in Processes, Crash(p) PROVE IInv'
    BY <2>11 DEF Crash, storeVars
  <2>12. ASSUME NEW k \in Keys, ExpireRecord(k) PROVE IInv'
    BY <2>12 DEF ExpireRecord, callVars, histVars
  <2>13. ASSUME UNCHANGED <<idem, sandbox, key, createdFor, delivered>> PROVE IInv'
    BY <2>13
  <2>14. QED
    <3> HIDE DEF IInv, TypeOK, CallShape
    <3> QED
      BY <2>1, <2>2, <2>3, <2>4, <2>5, <2>6, <2>7, <2>8, <2>9, <2>10, <2>11,
         <2>12, <2>13
         DEF Next, Step, Lookup, AwaitFirst, PollRecord, ExpirePending,
             ExpireReverse, vars, storeVars, callVars, histVars
<1>3. QED
  BY <1>1, <1>2, TypeCorrect, CallShapeCorrect, PTL DEF Spec
=============================================================================
