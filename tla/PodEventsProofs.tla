-------------------------- MODULE PodEventsProofs --------------------------
(***************************************************************************)
(* What the watcher, the event processor and the cleanup job promise for   *)
(* any number of pods, any capacity of the channel and any size of a page. *)
(***************************************************************************)
EXTENDS PodEvents, SequenceTheorems, FiniteSetTheorems, TLAPS

\* The types without the Boolean flags.
DataOK ==
    /\ phase \in [Sandboxes -> Phases]
    /\ dying \subseteq Sandboxes /\ old \subseteq Sandboxes
    /\ troubled \subseteq Sandboxes /\ excused \subseteq Sandboxes
    /\ watch \in {"starting", "on", "ended", "done"}
    /\ stream \in Seq(Notices) /\ hand \in Notices \cup {NoNotice}
    /\ stop \in {"no", "cancelled", "closed"}
    /\ eventChan \in Seq(Sandboxes) /\ evt \in Sandboxes \cup {NoSandbox}
    /\ job \in {"wait", "first", "next", "release"}
    /\ cutoff \subseteq Sandboxes /\ rest \subseteq Sandboxes \cup Others
    /\ batch \subseteq Sandboxes /\ missed \subseteq Sandboxes

\* x is an element of the sequence q.
InSeq(x, q) == \E i \in 1..Len(q) : q[i] = x

\* Every place an event passes through names a pod that was in trouble.
CauseInv ==
    /\ \A s \in Sandboxes : phase[s] \in Trouble => s \in troubled
    /\ \A n \in Notices : n.phase \in Trouble /\ (n = hand \/ InSeq(n, stream))
                           => n.sandbox \in troubled
    /\ \A s \in Sandboxes : s = evt \/ InSeq(s, eventChan) => s \in troubled

\* The cleanup has only pods before it that were old when it began.
AgeInv == cutoff \subseteq old

\* A notice is in hand after StopWatchers began only if it was before.
LateInv == hand # NoNotice /\ stop # "no" => late

\* What the cleanup run set out to delete is deleted, failed, or still ahead.
JobInv ==
    /\ job = "wait" => cutoff = {}
    /\ job # "release" => batch = {}
    /\ batch \subseteq cutoff
    /\ \A s \in cutoff :
          /\ phase[s] # "none"
          /\ \/ job = "first" \/ s \in dying \cup missed \/ phase[s] = "gone"
             \/ s \in rest \cup batch

-----------------------------------------------------------------------------
(* Facts about notices and sequences                                        *)

\* The parts of a notice.
LEMMA NoticeFields ==
    ASSUME NEW n \in Notices
    PROVE  n.sandbox \in Sandboxes /\ n.phase \in Phases \ {"none", "gone"}
BY DEF Notices

\* A snapshot of the existing pods, in any order, is a sequence of notices.
LEMMA ListedNotices ==
    ASSUME NEW q, NEW now, now \subseteq Notices, IsFiniteSet(now),
           q \in [1..Cardinality(now) -> now]
    PROVE  /\ q \in Seq(Notices) /\ Len(q) = Cardinality(now)
           /\ \A i \in 1..Len(q) : q[i] \in now
<1>1. Cardinality(now) \in Nat
  BY FS_CardinalityType
<1>2. q \in Seq(now)
  BY <1>1
<1>3. q \in Seq(Notices)
  BY <1>2
<1>4. Len(q) = Cardinality(now)
  BY <1>1, <1>2
<1> QED
  BY <1>3, <1>4

\* The notices a new watch begins with are finitely many.
LEMMA ExistingFinite ==
    ASSUME DataOK
    PROVE  LET now == {[sandbox |-> s, phase |-> phase[s]] : s \in Existing} IN
           IsFiniteSet(now) /\ now \subseteq Notices
<1> DEFINE now == {[sandbox |-> s, phase |-> phase[s]] : s \in Existing}
<1>1. now \subseteq Notices
  BY DEF DataOK, Existing, Notices, Phases
<1>2. IsFiniteSet(Existing)
  <2>1. Existing \subseteq Sandboxes \cup Others
    BY DEF Existing
  <2> QED
    BY <2>1, EventsAssumption, FS_Subset
<1>3. IsFiniteSet(now)
  <2> DEFINE F == [s \in Existing |-> [sandbox |-> s, phase |-> phase[s]]]
  <2>1. F \in Surjection(Existing, now)
    BY DEF Surjection
  <2> QED
    BY <1>2, <2>1, FS_Surjection
<1> QED
  BY <1>1, <1>3

\* Notify appends a notice, or leaves the stream alone.
LEMMA Notified ==
    ASSUME DataOK, NEW s \in Sandboxes, NEW ph \in Phases \ {"none", "gone"},
           Notify(s, ph)
    PROVE  stream' \in Seq(Notices)
<1>1. [sandbox |-> s, phase |-> ph] \in Notices
  BY DEF Notices
<1> QED
  BY <1>1 DEF DataOK, Notify

-----------------------------------------------------------------------------
(* Types                                                                    *)

\* Every step keeps the types.
LEMMA DataStep == ASSUME DataOK, [Next]_vars PROVE DataOK'
<1> USE DEF podVars, watchVars, procVars, jobVars, waitVars, lifeVars
<1>1. ASSUME NEW s \in Sandboxes, NEW from, NEW to \in Phases \ {"none", "gone"},
             PodChanges(s, from, to)
      PROVE  DataOK'
  <2>1. stream' \in Seq(Notices)
    BY <1>1, Notified DEF PodChanges
  <2> QED
    BY <1>1, <2>1 DEF PodChanges, DataOK
<1>2. ASSUME NEW s \in Sandboxes, PodCreated(s) \/ PodMoves(s) PROVE DataOK'
  BY <1>1, <1>2 DEF PodCreated, PodMoves, Phases
<1>3. ASSUME NEW s \in Sandboxes, PodAges(s) PROVE DataOK'
  BY <1>3 DEF PodAges, DataOK
<1>4. ASSUME NEW s \in Sandboxes, PodGone(s) PROVE DataOK'
  <2>1. stream' \in Seq(Notices)
    BY <1>4, Notified DEF PodGone, Existing, DataOK
  <2> QED
    BY <1>4, <2>1 DEF PodGone, DataOK, Phases
<1>5. ASSUME NEW s \in Sandboxes, Deleted(s)
      PROVE  stream' \in Seq(Notices) /\ dying' \subseteq Sandboxes
  <2>1. stream' \in Seq(Notices)
    BY <1>5, Notified DEF Deleted, Existing, DataOK
  <2> QED
    BY <1>5, <2>1 DEF Deleted, DataOK
<1>6. ASSUME WatchOpens PROVE DataOK'
  <2>1. stream' \in Seq(Notices)
    BY <1>6, ExistingFinite, ListedNotices DEF WatchOpens
  <2> QED
    BY <1>6, <2>1 DEF WatchOpens, DataOK
<1>7. ASSUME WatchError \/ WatchEnds PROVE DataOK'
  BY <1>7 DEF WatchError, WatchEnds, DataOK
<1>8. ASSUME WatchReceive PROVE DataOK'
  <2>1. stream # <<>> /\ stream \in Seq(Notices)
    BY <1>8 DEF WatchReceive, DataOK
  <2>2. Head(stream) \in Notices /\ Tail(stream) \in Seq(Notices) /\ <<>> \in Seq(Notices)
    BY <2>1
  <2> QED
    BY <1>8, <2>2 DEF WatchReceive, DataOK
<1>9. ASSUME ProcessPodEvent PROVE DataOK'
  <2>1. hand.sandbox \in Sandboxes
    BY <1>9, NoticeFields DEF ProcessPodEvent, DataOK
  <2>2. eventChan' \in Seq(Sandboxes)
    BY <1>9, <2>1 DEF ProcessPodEvent, DataOK
  <2> QED
    BY <1>9, <2>1, <2>2 DEF ProcessPodEvent, DataOK
<1>10. ASSUME ReceiveEvent PROVE DataOK'
  <2>1. eventChan # <<>> /\ eventChan \in Seq(Sandboxes)
    BY <1>10 DEF ReceiveEvent, DataOK
  <2>2. Head(eventChan) \in Sandboxes /\ Tail(eventChan) \in Seq(Sandboxes)
    BY <2>1
  <2> QED
    BY <1>10, <2>2 DEF ReceiveEvent, DataOK
<1>11. ASSUME ProcessorExits PROVE DataOK'
  BY <1>11 DEF ProcessorExits, DataOK
<1>12. ASSUME HandlePodEvent PROVE DataOK'
  <2>1. evt \in Sandboxes
    BY <1>12 DEF HandlePodEvent, DataOK
  <2>2. CASE Deleted(evt) /\ UNCHANGED excused
    <3>1. stream' \in Seq(Notices) /\ dying' \subseteq Sandboxes
      BY <1>5, <2>1, <2>2
    <3> QED
      BY <1>12, <2>2, <3>1 DEF HandlePodEvent, Deleted, DataOK
  <2>3. CASE NotDeleted /\ excused' = excused \cup {evt}
    BY <1>12, <2>1, <2>3 DEF HandlePodEvent, NotDeleted, DataOK
  <2> QED
    BY <1>12, <2>2, <2>3 DEF HandlePodEvent
<1>13. ASSUME CleanupTick \/ ListError \/ CleanupNextPage \/ CleanupDone PROVE DataOK'
  BY <1>13 DEF CleanupTick, ListError, CleanupNextPage, CleanupDone, DataOK, Existing
<1>14. ASSUME ListPage PROVE DataOK'
  BY <1>14 DEF ListPage, DataOK, Existing
<1>15. ASSUME NEW s \in Sandboxes, CleanupRelease(s) PROVE DataOK'
  <2>1. CASE Deleted(s) /\ UNCHANGED missed
    <3>1. stream' \in Seq(Notices) /\ dying' \subseteq Sandboxes
      BY <1>5, <2>1
    <3> QED
      BY <1>15, <2>1, <3>1 DEF CleanupRelease, Deleted, DataOK
  <2>2. CASE NotDeleted /\ missed' = missed \cup {s}
    BY <1>15, <2>2 DEF CleanupRelease, NotDeleted, DataOK
  <2> QED
    BY <1>15, <2>1, <2>2 DEF CleanupRelease
<1>16. ASSUME WaitProceeds \/ WaitCancelled \/ (\E s \in Sandboxes : WaitForSandboxReady(s))
       PROVE  DataOK'
  BY <1>16 DEF WaitProceeds, WaitCancelled, WaitForSandboxReady, IsSandboxReady,
               IsSandboxGone, WaitError, WaitStep, DataOK
<1>17. ASSUME Close \/ StopWatchers \/ Restart PROVE DataOK'
  BY <1>17 DEF Close, StopWatchers, Restart, DataOK
<1>18. ASSUME Exit PROVE DataOK'
  BY <1>18 DEF Exit, DataOK
<1>19. CASE UNCHANGED vars
  BY <1>19 DEF vars, DataOK
<1> QED
  BY <1>2, <1>3, <1>4, <1>6, <1>7, <1>8, <1>9, <1>10, <1>11, <1>12, <1>13, <1>14,
     <1>15, <1>16, <1>17, <1>18, <1>19
     DEF Next, Watcher, Processor, Cleanup, Crash, Panic

\* The types that the other proofs rest on.
THEOREM DataTyped == Spec => []DataOK
<1>1. Init => DataOK
  BY DEF Init, DataOK, Phases
<1>2. QED
  BY <1>1, DataStep, PTL DEF Spec

-----------------------------------------------------------------------------
\* The rest of TypeOK: the flags, the wait, the counters and the channel's
\* capacity.
RestOK ==
    /\ late \in BOOLEAN /\ closing \in BOOLEAN /\ proc \in BOOLEAN /\ up \in BOOLEAN
    /\ wait \in {"none", "poll", "gone"} /\ target \in Sandboxes \cup {NoSandbox}
    /\ wait # "none" => target \in Sandboxes
    /\ errors \in Nat /\ restarts \in Nat

ChannelOK == Len(eventChan) <= Cap

\* The send of processPodEvent finds room or drops the event.
LEMMA ChannelBounded ==
    ASSUME DataOK, ChannelOK, [Next]_vars PROVE ChannelOK'
<1> USE DEF ChannelOK
<1>1. CASE ProcessPodEvent
  <2>1. eventChan \in Seq(Sandboxes) /\ Cap \in Nat
    BY EventsAssumption DEF DataOK
  <2>2. eventChan' = eventChan
        \/ (Len(eventChan) < Cap /\ eventChan' = Append(eventChan, hand.sandbox))
    BY <1>1 DEF ProcessPodEvent
  <2>3. hand.sandbox \in Sandboxes
    BY <1>1, NoticeFields DEF ProcessPodEvent, DataOK
  <2> QED
    BY <2>1, <2>2, <2>3
<1>2. CASE ReceiveEvent
  <2>1. eventChan \in Seq(Sandboxes) /\ eventChan # <<>> /\ eventChan' = Tail(eventChan)
        /\ Cap \in Nat
    BY <1>2, EventsAssumption DEF ReceiveEvent, DataOK
  <2> QED
    BY <2>1
<1>3. CASE Exit
  BY <1>3, EventsAssumption DEF Exit
<1>4. CASE UNCHANGED eventChan
  BY <1>4
<1> QED
  BY <1>1, <1>2, <1>3, <1>4 DEF Next, Watcher, Processor, Cleanup, Crash, Panic, vars,
     PodCreated, PodMoves, PodChanges, PodAges, PodGone, WatchOpens, WatchError, WatchEnds,
     WatchReceive, ProcessorExits, HandlePodEvent, CleanupTick, ListPage, ListError,
     CleanupRelease, CleanupNextPage, CleanupDone, WaitForSandboxReady, WaitProceeds,
     WaitCancelled, IsSandboxReady, IsSandboxGone, WaitError, WaitStep, Close,
     StopWatchers, Restart

\* Every step keeps the types of the flags and counters.
LEMMA RestStep == ASSUME DataOK, RestOK, [Next]_vars PROVE RestOK'
<1> USE DEF podVars, watchVars, procVars, jobVars, waitVars, lifeVars
<1>0. errors + 1 \in Nat /\ restarts + 1 \in Nat
  BY DEF RestOK
<1>1. ASSUME NEW s \in Sandboxes,
             PodCreated(s) \/ PodMoves(s) \/ PodAges(s) \/ PodGone(s)
      PROVE  RestOK'
  BY <1>1, Zenon DEF PodCreated, PodMoves, PodChanges, PodAges, PodGone, RestOK
<1>2. ASSUME WatchOpens \/ WatchError \/ WatchEnds \/ WatchReceive \/ ProcessPodEvent
      PROVE  RestOK'
  BY <1>0, <1>2, Zenon
     DEF WatchOpens, WatchError, WatchEnds, WatchReceive, ProcessPodEvent, RestOK
<1>3. ASSUME ReceiveEvent \/ ProcessorExits PROVE RestOK'
  BY <1>3, Zenon DEF ReceiveEvent, ProcessorExits, RestOK
<1>4. ASSUME HandlePodEvent PROVE RestOK'
  BY <1>0, <1>4, Zenon DEF HandlePodEvent, Deleted, NotDeleted, RestOK
<1>5. ASSUME CleanupTick \/ ListPage \/ ListError \/ CleanupNextPage \/ CleanupDone
      PROVE  RestOK'
  BY <1>0, <1>5, Zenon
     DEF CleanupTick, ListPage, ListError, CleanupNextPage, CleanupDone, RestOK
<1>6. ASSUME NEW s \in Sandboxes, CleanupRelease(s) PROVE RestOK'
  BY <1>0, <1>6, Zenon DEF CleanupRelease, Deleted, NotDeleted, RestOK
<1>7. ASSUME NEW s \in Sandboxes, WaitForSandboxReady(s) PROVE RestOK'
  BY <1>7, Zenon DEF WaitForSandboxReady, RestOK
<1>8. ASSUME NEW from \in {"poll", "gone"}, NEW to \in {"none", "poll", "gone"},
             WaitStep(from, to)
      PROVE  /\ late' \in BOOLEAN /\ closing' \in BOOLEAN /\ proc' \in BOOLEAN
             /\ up' \in BOOLEAN /\ restarts' \in Nat
             /\ wait' \in {"none", "poll", "gone"} /\ target' \in Sandboxes \cup {NoSandbox}
             /\ wait' # "none" => target' \in Sandboxes
  BY <1>8, Zenon DEF WaitStep, RestOK
<1>9. ASSUME WaitProceeds \/ WaitCancelled PROVE RestOK'
  <2>1. errors' \in Nat
    BY <1>0, <1>9, Zenon
       DEF WaitProceeds, WaitCancelled, IsSandboxReady, IsSandboxGone, WaitError, RestOK
  <2>2. \E from \in {"poll", "gone"}, to \in {"none", "poll", "gone"} : WaitStep(from, to)
    BY <1>9 DEF WaitProceeds, WaitCancelled, IsSandboxReady, IsSandboxGone, WaitError
  <2> QED
    BY <1>8, <2>1, <2>2, Zenon DEF RestOK
<1>10. ASSUME Close PROVE RestOK'
  BY <1>10, Zenon DEF Close, RestOK
<1>11. ASSUME StopWatchers PROVE RestOK'
  BY <1>11, Zenon DEF StopWatchers, RestOK
<1>12. ASSUME Restart PROVE RestOK'
  BY <1>12, Zenon DEF Restart, RestOK
<1>13. ASSUME Exit PROVE RestOK'
  BY <1>0, <1>13, Zenon DEF Exit, RestOK
<1>14. CASE UNCHANGED vars
  BY <1>14, Zenon DEF vars, RestOK
<1> QED
  BY <1>1, <1>2, <1>3, <1>4, <1>5, <1>6, <1>7, <1>9, <1>10, <1>11, <1>12, <1>13, <1>14
     DEF Next, Watcher, Processor, Cleanup, Crash, Panic

\* The watcher, the processor, the cleanup job and the wait keep their types,
\* and eventChan its capacity.
THEOREM TypeCorrect == Spec => []TypeOK
<1>1. Init => RestOK /\ ChannelOK
  <2> SUFFICES ASSUME Init PROVE RestOK /\ ChannelOK
    OBVIOUS
  <2>1. RestOK
    <3>1. 0 \in Nat
      OBVIOUS
    <3> QED
      BY <3>1, Zenon DEF Init, RestOK
  <2>2. ChannelOK
    BY EventsAssumption DEF Init, ChannelOK
  <2> QED
    BY <2>1, <2>2
<1>2. DataOK /\ RestOK /\ ChannelOK => TypeOK
  BY Zenon DEF DataOK, RestOK, ChannelOK, TypeOK
<1>3. QED
  BY <1>1, <1>2, DataTyped, RestStep, ChannelBounded, PTL DEF Spec

-----------------------------------------------------------------------------
(* Elements of the stream and of the channel                                *)

\* What Append adds to a sequence.
LEMMA InAppend ==
    ASSUME NEW S, NEW q \in Seq(S), NEW x, NEW y \in S
    PROVE  InSeq(x, Append(q, y)) <=> InSeq(x, q) \/ x = y
<1>1. /\ Len(Append(q, y)) = Len(q) + 1 /\ Len(q) \in Nat
      /\ Append(q, y)[Len(q) + 1] = y
      /\ \A i \in 1..Len(q) : Append(q, y)[i] = q[i]
  OBVIOUS
<1> QED
  BY <1>1 DEF InSeq

\* Head and Tail share out the elements of a sequence.
LEMMA InTail ==
    ASSUME NEW S, NEW q \in Seq(S), q # <<>>, NEW x
    PROVE  InSeq(x, q) <=> x = Head(q) \/ InSeq(x, Tail(q))
<1>1. /\ Len(q) \in Nat \ {0} /\ Len(Tail(q)) = Len(q) - 1 /\ Head(q) = q[1]
      /\ \A i \in 1..Len(Tail(q)) : Tail(q)[i] = q[i + 1]
  OBVIOUS
<1>2. ASSUME InSeq(x, q) PROVE x = Head(q) \/ InSeq(x, Tail(q))
  <2>1. PICK i \in 1..Len(q) : q[i] = x
    BY <1>2 DEF InSeq
  <2>2. CASE i = 1
    BY <1>1, <2>1, <2>2
  <2>3. CASE i # 1
    <3>1. i - 1 \in 1..Len(Tail(q)) /\ (i - 1) + 1 = i
      BY <1>1, <2>1, <2>3
    <3> QED
      BY <1>1, <2>1, <3>1 DEF InSeq
  <2> QED
    BY <2>2, <2>3
<1>3. ASSUME InSeq(x, Tail(q)) PROVE InSeq(x, q)
  <2>1. PICK i \in 1..Len(Tail(q)) : Tail(q)[i] = x
    BY <1>3 DEF InSeq
  <2>2. i + 1 \in 1..Len(q)
    BY <1>1, <2>1
  <2> QED
    BY <1>1, <2>1, <2>2 DEF InSeq
<1>4. x = Head(q) => InSeq(x, q)
  BY <1>1 DEF InSeq
<1> QED
  BY <1>2, <1>3, <1>4

\* The empty sequence has no elements.
LEMMA InEmpty == ASSUME NEW x PROVE ~InSeq(x, << >>)
BY DEF InSeq

\* What a notice of the API server adds to the stream.
LEMMA InNotified ==
    ASSUME DataOK, NEW s \in Sandboxes, NEW ph \in Phases \ {"none", "gone"},
           Notify(s, ph), NEW n
    PROVE  /\ InSeq(n, stream) => InSeq(n, stream')
           /\ InSeq(n, stream') => InSeq(n, stream) \/ n = [sandbox |-> s, phase |-> ph]
           /\ watch = "on" => InSeq([sandbox |-> s, phase |-> ph], stream')
<1> DEFINE m == [sandbox |-> s, phase |-> ph]
<1>1. m \in Notices /\ stream \in Seq(Notices)
  BY DEF Notices, DataOK
<1>2. CASE watch = "on"
  <2>1. stream' = Append(stream, m)
    BY <1>2 DEF Notify
  <2>2. \A x : InSeq(x, stream') <=> InSeq(x, stream) \/ x = m
    BY <1>1, <2>1, InAppend
  <2> QED
    BY <1>2, <2>2
<1>3. CASE watch # "on"
  BY <1>3 DEF Notify
<1> QED
  BY <1>2, <1>3

\* What a deletion does: the same for the event processor and the cleanup.
LEMMA InDeleted ==
    ASSUME DataOK, NEW s \in Sandboxes, Deleted(s), NEW n
    PROVE  /\ InSeq(n, stream) => InSeq(n, stream')
           /\ InSeq(n, stream') => InSeq(n, stream) \/ (s \in Existing /\ n = [sandbox |-> s, phase |-> phase[s]])
<1>1. CASE s \in Existing \ dying
  <2>1. phase[s] \in Phases \ {"none", "gone"} /\ Notify(s, phase[s])
    BY <1>1 DEF Deleted, Existing, DataOK
  <2> QED
    BY <1>1, <2>1, InNotified
<1>2. CASE s \notin Existing \ dying
  BY <1>2 DEF Deleted
<1> QED
  BY <1>1, <1>2

-----------------------------------------------------------------------------
(* What events are about                                                    *)

\* The steps that touch no pod and no event.
Aside ==
    \/ WatchError \/ WatchEnds \/ ProcessorExits
    \/ CleanupTick \/ ListPage \/ ListError \/ CleanupNextPage \/ CleanupDone
    \/ WaitProceeds \/ WaitCancelled \/ (\E s \in Sandboxes : WaitForSandboxReady(s))
    \/ Close \/ StopWatchers \/ UNCHANGED vars

\* What those steps leave alone.
LEMMA AsideFrame ==
    ASSUME Aside
    PROVE  UNCHANGED <<phase, dying, old, troubled, excused, hand, stream, evt, eventChan>>
BY DEF Aside, WatchError, WatchEnds, ProcessorExits, CleanupTick, ListPage, ListError,
       CleanupNextPage, CleanupDone, WaitProceeds, WaitCancelled, WaitForSandboxReady,
       IsSandboxReady, IsSandboxGone, WaitError, WaitStep, Close, StopWatchers,
       vars, podVars, watchVars, procVars, jobVars, waitVars, lifeVars

\* The steps one by one, with Aside for the rest.
LEMMA Steps ==
    ASSUME [Next]_vars
    PROVE  \/ \E s \in Sandboxes :
                 \/ PodCreated(s) \/ PodMoves(s) \/ PodAges(s) \/ PodGone(s)
                 \/ CleanupRelease(s)
           \/ WatchOpens \/ WatchReceive \/ ProcessPodEvent
           \/ ReceiveEvent \/ HandlePodEvent
           \/ Exit \/ Restart \/ Aside
BY DEF Next, Watcher, Processor, Cleanup, Crash, Panic, Aside

\* An event is passed on only from a place that had cause for it.
LEMMA CauseStep == ASSUME DataOK, CauseInv, [Next]_vars PROVE CauseInv'
<1> USE DEF podVars, watchVars, procVars, jobVars, waitVars, lifeVars
<1>0. CauseInv' = 
        /\ \A s \in Sandboxes : phase'[s] \in Trouble => s \in troubled'
        /\ \A n \in Notices : n.phase \in Trouble /\ (n = hand' \/ InSeq(n, stream'))
                           => n.sandbox \in troubled'
        /\ \A s \in Sandboxes : s = evt' \/ InSeq(s, eventChan') => s \in troubled'
  BY DEF CauseInv
<1>1. ASSUME NEW s \in Sandboxes, NEW from, NEW to \in Phases \ {"none", "gone"},
             PodChanges(s, from, to)
      PROVE  CauseInv'
  <2>1. /\ \A t \in Sandboxes : t # s => phase'[t] = phase[t]
        /\ phase'[s] = to
        /\ troubled \subseteq troubled' /\ (to \in Trouble => s \in troubled')
        /\ UNCHANGED <<hand, evt, eventChan>>
    BY <1>1 DEF PodChanges, DataOK
  <2>2. \A n : InSeq(n, stream') => InSeq(n, stream) \/ n = [sandbox |-> s, phase |-> to]
    BY <1>1, InNotified DEF PodChanges
  <2> QED
    BY <1>0, <2>1, <2>2 DEF CauseInv
<1>2. ASSUME NEW s \in Sandboxes, PodCreated(s) \/ PodMoves(s) PROVE CauseInv'
  BY <1>1, <1>2 DEF PodCreated, PodMoves, Phases
<1>3. ASSUME UNCHANGED <<phase, troubled, hand, stream, evt, eventChan>> PROVE CauseInv'
  BY <1>0, <1>3 DEF CauseInv
<1>4. ASSUME NEW s \in Sandboxes, PodGone(s) PROVE CauseInv'
  <2>1. phase[s] \in Phases \ {"none", "gone"} /\ Notify(s, phase[s])
    BY <1>4 DEF PodGone, Existing, DataOK
  <2>2. \A n : InSeq(n, stream') => InSeq(n, stream) \/ n = [sandbox |-> s, phase |-> phase[s]]
    BY <2>1, InNotified
  <2>3. /\ \A t \in Sandboxes : phase'[t] \in Trouble => phase[t] \in Trouble
        /\ UNCHANGED <<troubled, hand, evt, eventChan>>
    BY <1>4 DEF PodGone, DataOK, Trouble
  <2> QED
    BY <1>0, <2>2, <2>3 DEF CauseInv
<1>5. ASSUME NEW s \in Sandboxes, Deleted(s), evt' \in {evt, NoSandbox},
             UNCHANGED <<hand, eventChan>>
      PROVE  CauseInv'
  <2>1. \A n : InSeq(n, stream') => InSeq(n, stream) \/ n = [sandbox |-> s, phase |-> phase[s]]
    BY <1>5, InDeleted
  <2>2. UNCHANGED <<phase, troubled>>
    BY <1>5 DEF Deleted
  <2> QED
    BY <1>0, <1>5, <2>1, <2>2, EventsAssumption DEF CauseInv
<1>6. ASSUME UNCHANGED <<phase, troubled, hand, stream, eventChan>>, evt' = NoSandbox
      PROVE  CauseInv'
  BY <1>0, <1>6, EventsAssumption DEF CauseInv
<1>7. ASSUME HandlePodEvent PROVE CauseInv'
  <2>1. evt \in Sandboxes
    BY <1>7 DEF HandlePodEvent, DataOK
  <2> QED
    BY <1>5, <1>6, <1>7, <2>1 DEF HandlePodEvent, NotDeleted
<1>8. ASSUME NEW s \in Sandboxes, CleanupRelease(s) PROVE CauseInv'
  BY <1>3, <1>5, <1>8 DEF CleanupRelease, NotDeleted
<1>9. ASSUME WatchOpens PROVE CauseInv'
  <2> DEFINE now == {[sandbox |-> s, phase |-> phase[s]] : s \in Existing}
  <2>1. /\ stream' \in [1..Cardinality(now) -> now]
        /\ UNCHANGED <<phase, troubled, hand, evt, eventChan>>
    BY <1>9 DEF WatchOpens
  <2>2. \A i \in 1..Len(stream') : stream'[i] \in now
    BY <2>1, ExistingFinite, ListedNotices
  <2>3. \A n : InSeq(n, stream') => n \in now
    BY <2>2 DEF InSeq
  <2>4. \A n \in now : n.phase \in Trouble => n.sandbox \in troubled
    BY DEF CauseInv, Existing
  <2> QED
    BY <1>0, <2>1, <2>3, <2>4 DEF CauseInv
<1>10. ASSUME WatchReceive PROVE CauseInv'
  <2>1. stream \in Seq(Notices) /\ stream # <<>>
        /\ UNCHANGED <<phase, troubled, evt, eventChan>>
    BY <1>10 DEF WatchReceive, DataOK
  <2>2. CASE hand' = Head(stream) /\ stream' = Tail(stream)
    <3>1. \A n : n = hand' \/ InSeq(n, stream') => InSeq(n, stream)
      BY <2>1, <2>2, InTail
    <3> QED
      BY <1>0, <2>1, <3>1 DEF CauseInv
  <2>3. CASE stream' = <<>> /\ UNCHANGED hand
    BY <1>0, <2>1, <2>3, InEmpty DEF CauseInv
  <2> QED
    BY <1>10, <2>2, <2>3 DEF WatchReceive
<1>11. ASSUME ProcessPodEvent PROVE CauseInv'
  <2>1. hand \in Notices /\ hand' = NoNotice /\ UNCHANGED <<phase, troubled, stream, evt>>
        /\ eventChan \in Seq(Sandboxes) /\ hand.sandbox \in Sandboxes
    BY <1>11, NoticeFields DEF ProcessPodEvent, DataOK
  <2>2. \/ UNCHANGED eventChan
        \/ hand.phase \in Trouble /\ eventChan' = Append(eventChan, hand.sandbox)
    BY <1>11 DEF ProcessPodEvent, Significant, Trouble
  <2>3. \A s : InSeq(s, eventChan') =>
                  InSeq(s, eventChan) \/ (hand.phase \in Trouble /\ s = hand.sandbox)
    BY <2>1, <2>2, InAppend
  <2> QED
    BY <1>0, <2>1, <2>3, EventsAssumption DEF CauseInv
<1>12. ASSUME ReceiveEvent PROVE CauseInv'
  <2>1. eventChan \in Seq(Sandboxes) /\ eventChan # <<>>
        /\ evt' = Head(eventChan) /\ eventChan' = Tail(eventChan)
        /\ UNCHANGED <<phase, troubled, hand, stream>>
    BY <1>12 DEF ReceiveEvent, DataOK
  <2>2. \A s : s = evt' \/ InSeq(s, eventChan') => InSeq(s, eventChan)
    BY <2>1, InTail
  <2> QED
    BY <1>0, <2>1, <2>2 DEF CauseInv
<1>13. ASSUME Exit PROVE CauseInv'
  <2>1. UNCHANGED <<phase, troubled>> /\ hand' = NoNotice /\ evt' = NoSandbox
        /\ stream' = <<>> /\ eventChan' = <<>>
    BY <1>13 DEF Exit
  <2> QED
    BY <1>0, <2>1, InEmpty, EventsAssumption DEF CauseInv
<1>14. ASSUME (\E s \in Sandboxes : PodAges(s)) \/ Restart \/ Aside PROVE CauseInv'
  BY <1>3, <1>14, AsideFrame DEF PodAges, Restart
<1> QED
  BY Steps, <1>2, <1>4, <1>7, <1>8, <1>9, <1>10, <1>11, <1>12, <1>13, <1>14

-----------------------------------------------------------------------------
(* The cleanup job                                                          *)

\* The cutoff is fixed when a run begins.
LEMMA AgeStep == ASSUME AgeInv, [Next]_vars PROVE AgeInv'
<1> USE DEF AgeInv, podVars, watchVars, procVars, jobVars, waitVars, lifeVars
<1>1. CASE CleanupTick
  BY <1>1 DEF CleanupTick
<1>2. CASE cutoff' = {}
  BY <1>2
<1>3. CASE UNCHANGED cutoff /\ old \subseteq old'
  BY <1>3
<1>4. CASE Aside
  <2>1. UNCHANGED old
    BY <1>4, AsideFrame
  <2>2. CleanupTick \/ cutoff' = {} \/ UNCHANGED cutoff
    BY <1>4 DEF Aside, WatchError, WatchEnds, ProcessorExits, ListPage,
         ListError, CleanupNextPage, CleanupDone, WaitProceeds, WaitCancelled,
         WaitForSandboxReady, IsSandboxReady, IsSandboxGone, WaitError, WaitStep, Close,
         StopWatchers, vars
  <2> QED
    BY <1>1, <1>2, <1>3, <2>1, <2>2
<1> QED
  BY Steps, <1>2, <1>3, <1>4
     DEF PodCreated, PodMoves, PodChanges, PodAges, PodGone, WatchOpens, WatchReceive,
         ProcessPodEvent, ReceiveEvent, HandlePodEvent, CleanupRelease, Deleted, NotDeleted,
         Restart, Exit

\* Deletions are final, a pod that is gone stays so, and one that was created
\* does not become uncreated.
LEMMA PodsMoveOn ==
    ASSUME DataOK, [Next]_vars
    PROVE  /\ dying \subseteq dying'
           /\ \A s \in Sandboxes :
                 /\ phase[s] # "none" => phase'[s] # "none"
                 /\ phase[s] = "gone" => phase'[s] = "gone"
<1> USE DEF podVars, watchVars, procVars, jobVars, waitVars, lifeVars
<1>1. ASSUME NEW s \in Sandboxes, NEW from, NEW to \in Phases \ {"none", "gone"},
             "gone" \notin from, PodChanges(s, from, to)
      PROVE  /\ dying \subseteq dying'
             /\ \A t \in Sandboxes :
                   /\ phase[t] # "none" => phase'[t] # "none"
                   /\ phase[t] = "gone" => phase'[t] = "gone"
  BY <1>1 DEF PodChanges, DataOK
<1>3. CASE \E s \in Sandboxes : PodCreated(s) \/ PodMoves(s)
  BY <1>1, <1>3 DEF PodCreated, PodMoves, Phases
<1>4. CASE \E s \in Sandboxes : PodGone(s)
  BY <1>4 DEF PodGone, DataOK
<1>5. CASE UNCHANGED phase /\ dying \subseteq dying'
  BY <1>5
<1> QED
  BY Steps, <1>3, <1>4, <1>5, AsideFrame
     DEF PodAges, WatchOpens, WatchReceive, ProcessPodEvent, ReceiveEvent, HandlePodEvent,
         CleanupRelease, Deleted, NotDeleted, Restart, Exit

\* Every step of a cleanup run, and every step of others meanwhile, keeps
\* account of what the run has yet to delete.
LEMMA JobStep == ASSUME DataOK, JobInv, [Next]_vars PROVE JobInv'
<1> USE DEF JobInv, podVars, watchVars, procVars, jobVars, waitVars, lifeVars
<1>0. /\ dying \subseteq dying'
      /\ \A s \in Sandboxes :
            /\ phase[s] # "none" => phase'[s] # "none"
            /\ phase[s] = "gone" => phase'[s] = "gone"
      /\ cutoff \subseteq Sandboxes
  BY PodsMoveOn DEF DataOK
<1>1. CASE CleanupTick
  BY <1>1 DEF CleanupTick, Existing
<1>2. CASE ListPage
  <2>1. UNCHANGED <<phase, dying, missed, cutoff>> /\ job \in {"first", "next"}
        /\ job' = "release"
    BY <1>2 DEF ListPage
  <2>2. batch' \subseteq cutoff
    BY <1>2 DEF ListPage
  <2>3. ASSUME NEW s \in cutoff
        PROVE  s \in dying \cup missed \/ phase[s] = "gone" \/ s \in rest' \cup batch'
    <3>1. CASE job = "first"
      <4>1. phase[s] = "gone" \/ s \in Existing
        BY <1>0, <2>3 DEF Existing, DataOK
      <4>2. s \in Existing => s \in rest' \cup batch'
        BY <1>2, <2>3, <3>1 DEF ListPage
      <4> QED
        BY <4>1, <4>2
    <3>2. CASE job = "next"
      <4>1. s \in rest => s \in rest' \cup batch'
        BY <1>2, <2>3, <3>2 DEF ListPage
      <4> QED
        BY <2>3, <3>2, <4>1
    <3> QED
      BY <2>1, <3>1, <3>2
  <2> QED
    BY <2>1, <2>2, <2>3
<1>3. ASSUME NEW s \in Sandboxes, CleanupRelease(s) PROVE JobInv'
  <2>1. job = "release" /\ s \in batch /\ batch' = batch \ {s}
        /\ UNCHANGED <<job, cutoff, rest>>
    BY <1>3 DEF CleanupRelease
  <2>2. missed \subseteq missed' /\ UNCHANGED phase
    BY <1>3 DEF CleanupRelease, Deleted, NotDeleted
  <2>3. s \in dying' \cup missed' \/ phase[s] = "gone"
    <3>1. CASE Deleted(s)
      BY <2>1, <3>1 DEF Deleted, Existing
    <3>2. CASE missed' = missed \cup {s}
      BY <3>2
    <3> QED
      BY <1>3, <3>1, <3>2 DEF CleanupRelease
  <2> QED
    BY <1>0, <2>1, <2>2, <2>3
<1>4. CASE ListError \/ CleanupNextPage \/ CleanupDone
  BY <1>4 DEF ListError, CleanupNextPage, CleanupDone
<1>5. CASE Exit
  BY <1>5 DEF Exit
<1>6. CASE UNCHANGED jobVars
  BY <1>0, <1>6
<1>7. CASE Aside
  BY <1>1, <1>2, <1>4, <1>6, <1>7 DEF Aside, WatchError, WatchEnds, ProcessorExits,
         WaitProceeds, WaitCancelled,
         WaitForSandboxReady, IsSandboxReady, IsSandboxGone, WaitError, WaitStep, Close,
         StopWatchers, vars
<1> QED
  BY Steps, <1>3, <1>5, <1>6, <1>7
     DEF PodCreated, PodMoves, PodChanges, PodAges, PodGone, WatchOpens, WatchReceive,
         ProcessPodEvent, ReceiveEvent, HandlePodEvent, Restart

\* The account of the cleanup run is kept throughout.
LEMMA JobInvariant == Spec => []JobInv
<1>1. Init => JobInv
  BY DEF Init, JobInv
<1>2. QED
  BY <1>1, JobStep, DataTyped, PTL DEF Spec

\* A cleanup run that ends without an error has deleted whatever was too old
\* when it began, for any number of pods and any size of a page.
THEOREM CleanupIsComplete == Spec => CleanupComplete
<1>1. JobInv => (CleanupDone => \A s \in cutoff : s \in dying \cup missed \/ phase[s] = "gone")
  BY DEF JobInv, CleanupDone
<1>2. QED
  BY <1>1, JobInvariant, PTL DEF CleanupComplete, Spec

-----------------------------------------------------------------------------
(* Only pods that gave cause are released                                   *)

\* A pod that is not asked to be is released only if it was in trouble or is
\* older than the TTL, for any number of pods, pages and restarts.
THEOREM OnlyWithCause == Spec => []OnlyTroubledReleased
<1> DEFINE IInv == CauseInv /\ AgeInv /\ OnlyTroubledReleased
<1>1. Init => IInv
  BY InEmpty, EventsAssumption
     DEF Init, CauseInv, AgeInv, OnlyTroubledReleased, Trouble
<1>2. DataOK /\ JobInv /\ IInv /\ [Next]_vars => IInv'
  <2> SUFFICES ASSUME DataOK, JobInv, CauseInv, AgeInv, OnlyTroubledReleased, [Next]_vars
               PROVE  IInv'
    OBVIOUS
  <2> USE DEF OnlyTroubledReleased, podVars, watchVars, procVars, jobVars, waitVars, lifeVars
  <2>1. CauseInv' /\ AgeInv'
    BY CauseStep, AgeStep
  <2>2. CASE HandlePodEvent
    <3>1. evt \in troubled
      BY <2>2 DEF HandlePodEvent, DataOK, CauseInv
    <3> QED
      BY <2>1, <2>2, <3>1 DEF HandlePodEvent, Deleted, NotDeleted
  <2>3. ASSUME NEW s \in Sandboxes, CleanupRelease(s) PROVE IInv'
    <3>1. s \in old
      BY <2>3 DEF CleanupRelease, AgeInv, JobInv
    <3> QED
      BY <2>1, <2>3, <3>1 DEF CleanupRelease, Deleted, NotDeleted
  <2>4. CASE UNCHANGED dying /\ troubled \subseteq troubled' /\ old \subseteq old'
    BY <2>1, <2>4
  <2>5. CASE Aside \/ Restart \/ Exit
    BY <2>4, <2>5, AsideFrame DEF Restart, Exit
  <2> QED
    BY Steps, <2>2, <2>3, <2>4, <2>5
       DEF PodCreated, PodMoves, PodChanges, PodAges, PodGone, WatchOpens, WatchReceive,
           ProcessPodEvent, ReceiveEvent
<1>3. QED
  BY <1>1, <1>2, DataTyped, JobInvariant, PTL DEF Spec

-----------------------------------------------------------------------------
(* Shutdown                                                                 *)

\* A send on the closed channel happens only for a notice that was already in
\* the watcher's hands when StopWatchers began.
THEOREM PanicsAreLate == Spec => OnlyLateNoticePanics
<1>1. Init => LateInv
  BY DEF Init, LateInv
<1>2. LateInv /\ [Next]_vars => LateInv'
  <2> SUFFICES ASSUME LateInv, [Next]_vars PROVE LateInv'
    OBVIOUS
  <2> USE DEF LateInv, podVars, watchVars, procVars, jobVars, waitVars, lifeVars
  <2>1. CASE StopWatchers
    <3>1. UNCHANGED hand
      BY <2>1 DEF StopWatchers
    <3>2. CASE stop = "no" /\ late' = (hand # NoNotice)
      <4>1. ASSUME hand # NoNotice PROVE late'
        BY <3>2, <4>1, Zenon
      <4> QED
        BY <3>1, <4>1
    <3>3. CASE stop = "cancelled" /\ UNCHANGED late
      BY <3>1, <3>3
    <3> QED
      BY <2>1, <3>2, <3>3, Zenon DEF StopWatchers
  <2>2. CASE WatchReceive
    BY <2>2, Zenon DEF WatchReceive
  <2>3. CASE hand' = NoNotice
    BY <2>3
  <2>4. CASE UNCHANGED <<hand, stop, late>>
    BY <2>4
  <2>5. CASE \/ \E s \in Sandboxes :
                \/ PodCreated(s) \/ PodMoves(s) \/ PodAges(s) \/ PodGone(s)
                \/ CleanupRelease(s)
             \/ WatchOpens \/ ReceiveEvent \/ HandlePodEvent \/ Restart
    BY <2>4, <2>5 DEF PodCreated, PodMoves, PodChanges, PodAges, PodGone, CleanupRelease,
                      WatchOpens, ReceiveEvent, HandlePodEvent, Restart
  <2>6. CASE Aside
    <3>1. StopWatchers \/ UNCHANGED <<stop, late>>
      BY <2>6 DEF Aside, WatchError, WatchEnds, ProcessorExits, CleanupTick, ListPage,
           ListError, CleanupNextPage, CleanupDone, WaitProceeds, WaitCancelled,
           WaitForSandboxReady, IsSandboxReady, IsSandboxGone, WaitError, WaitStep, Close, vars
    <3> QED
      BY <2>1, <2>4, <2>6, <3>1, AsideFrame
  <2> QED
    BY Steps, <2>2, <2>3, <2>5, <2>6 DEF ProcessPodEvent, Exit
<1>3. LateInv => (Panic => late)
  BY DEF LateInv, Panic
<1>4. QED
  BY <1>1, <1>2, <1>3, PTL DEF Spec, OnlyLateNoticePanics

-----------------------------------------------------------------------------
(* No event is lost silently                                                *)

\* A notice n about s that calls for a release.
Calls(n, s) == n.sandbox = s /\ n.phase \in Trouble

\* OnItsWay, with the elements of stream and channel.
Way(s) ==
    \/ \E n \in Notices : Calls(n, s) /\ (n = hand \/ InSeq(n, stream))
    \/ s = evt \/ InSeq(s, eventChan)

WayInv ==
    \A s \in Sandboxes :
        watch = "on" /\ phase[s] \in Trouble => s \in dying \cup excused \/ Way(s)

\* The invariant is what TroubleOnItsWay says.
LEMMA WayImplements == DataOK /\ WayInv => TroubleOnItsWay
<1> SUFFICES ASSUME DataOK, WayInv, NEW s \in Sandboxes, watch = "on", phase[s] \in Trouble,
                    s \notin dying \cup excused
             PROVE  OnItsWay(s)
  BY DEF TroubleOnItsWay
<1>1. Way(s)
  BY DEF WayInv
<1>2. ASSUME NEW n \in Notices, Calls(n, s), n = hand \/ InSeq(n, stream) PROVE OnItsWay(s)
  BY <1>2, EventsAssumption DEF OnItsWay, InSeq, Calls
<1> QED
  BY <1>1, <1>2 DEF Way, OnItsWay, InSeq

\* The watcher's notices move from the stream to its hand to the channel, and
\* from there to the processor; at each hand-over one place takes up what the
\* other gives away.
LEMMA WayStep == ASSUME DataOK, WayInv, [Next]_vars PROVE WayInv'
<1> USE DEF podVars, watchVars, procVars, jobVars, waitVars, lifeVars
<1> SUFFICES ASSUME NEW t \in Sandboxes, watch' = "on", phase'[t] \in Trouble,
                    t \notin dying' \cup excused'
             PROVE  \/ \E n \in Notices : Calls(n, t) /\ (n = hand' \/ InSeq(n, stream'))
                    \/ t = evt' \/ InSeq(t, eventChan')
  BY DEF WayInv, Way
<1> DEFINE Goal == \/ \E n \in Notices : Calls(n, t) /\ (n = hand' \/ InSeq(n, stream'))
                   \/ t = evt' \/ InSeq(t, eventChan')
<1>1. watch = "on" /\ phase[t] \in Trouble /\ t \notin dying \cup excused => Way(t)
  BY DEF WayInv
<1>2. ASSUME NEW s \in Sandboxes, NEW from, NEW to \in Phases \ {"none", "gone"},
             PodChanges(s, from, to)
      PROVE  Goal
  <2>1. Notify(s, to) /\ UNCHANGED <<watch, hand, evt, eventChan, dying>>
    BY <1>2 DEF PodChanges
  <2>2. /\ \A n : InSeq(n, stream) => InSeq(n, stream')
        /\ InSeq([sandbox |-> s, phase |-> to], stream')
    BY <2>1, InNotified
  <2>3. CASE t = s
    <3>1. to \in Trouble
      BY <1>2, <2>3 DEF PodChanges, DataOK
    <3>2. [sandbox |-> s, phase |-> to] \in Notices /\ Calls([sandbox |-> s, phase |-> to], t)
      BY <2>3, <3>1 DEF Notices, Calls
    <3> QED
      BY <2>2, <3>2
  <2>4. CASE t # s
    <3>1. phase'[t] = phase[t] /\ (t \in excused => t \in excused')
      BY <1>2, <2>4 DEF PodChanges, DataOK
    <3> QED
      BY <1>1, <2>1, <2>2, <3>1 DEF Way
  <2> QED
    BY <2>3, <2>4
<1>3. ASSUME NEW s \in Sandboxes, PodCreated(s) \/ PodMoves(s) PROVE Goal
  BY <1>2, <1>3 DEF PodCreated, PodMoves, Phases
<1>4. ASSUME UNCHANGED <<watch, phase, hand, evt, eventChan>>,
             dying \subseteq dying', excused \subseteq excused',
             \A n : InSeq(n, stream) => InSeq(n, stream')
      PROVE  Goal
  BY <1>1, <1>4 DEF Way
<1>5. ASSUME NEW s \in Sandboxes, PodGone(s) PROVE Goal
  <2>1. phase[s] \in Phases \ {"none", "gone"} /\ Notify(s, phase[s])
        /\ UNCHANGED <<watch, hand, evt, eventChan, dying, excused>>
    BY <1>5 DEF PodGone, Existing, DataOK
  <2>2. \A n : InSeq(n, stream) => InSeq(n, stream')
    BY <2>1, InNotified
  <2>3. phase'[t] = phase[t]
    BY <1>5 DEF PodGone, DataOK, Trouble
  <2> QED
    BY <1>1, <2>1, <2>2, <2>3 DEF Way
<1>6. ASSUME NEW s \in Sandboxes, CleanupRelease(s) PROVE Goal
  <2>1. CASE Deleted(s)
    <3>1. \A n : InSeq(n, stream) => InSeq(n, stream')
      BY <2>1, InDeleted
    <3> QED
      BY <1>4, <1>6, <2>1, <3>1 DEF CleanupRelease, Deleted
  <2>2. CASE NotDeleted
    BY <1>4, <1>6, <2>2 DEF CleanupRelease, NotDeleted
  <2> QED
    BY <1>6, <2>1, <2>2 DEF CleanupRelease
<1>7. ASSUME HandlePodEvent PROVE Goal
  <2>1. evt \in Sandboxes /\ UNCHANGED <<watch, hand, eventChan>>
    BY <1>7 DEF HandlePodEvent, DataOK
  <2>2. CASE Deleted(evt) /\ UNCHANGED excused
    <3>1. \A n : InSeq(n, stream) => InSeq(n, stream')
      BY <2>1, <2>2, InDeleted
    <3>2. UNCHANGED phase /\ dying \subseteq dying' /\ t # evt
      BY <2>2 DEF Deleted, Existing, Trouble
    <3> QED
      BY <1>1, <2>1, <2>2, <3>1, <3>2 DEF Way
  <2>3. CASE NotDeleted /\ excused' = excused \cup {evt}
    BY <1>1, <2>1, <2>3 DEF NotDeleted, Way
  <2> QED
    BY <1>7, <2>2, <2>3 DEF HandlePodEvent
<1>8. ASSUME WatchOpens PROVE Goal
  <2> DEFINE now == {[sandbox |-> s, phase |-> phase[s]] : s \in Existing}
             m == [sandbox |-> t, phase |-> phase[t]]
  <2>1. /\ stream' \in [1..Cardinality(now) -> now]
        /\ \A n \in now : \E i \in DOMAIN stream' : stream'[i] = n
        /\ UNCHANGED phase
    BY <1>8 DEF WatchOpens
  <2>2. now \subseteq Notices /\ stream' \in Seq(Notices) /\ Len(stream') = Cardinality(now)
    BY <2>1, ExistingFinite, ListedNotices
  <2>3. m \in now /\ Calls(m, t)
    BY <2>1 DEF Existing, Trouble, Calls
  <2>4. InSeq(m, stream')
    BY <2>1, <2>2, <2>3 DEF InSeq
  <2> QED
    BY <2>2, <2>3, <2>4
<1>9. ASSUME WatchReceive PROVE Goal
  <2>1. stream \in Seq(Notices) /\ stream # <<>> /\ hand = NoNotice
        /\ hand' = Head(stream) /\ stream' = Tail(stream)
        /\ UNCHANGED <<watch, phase, dying, excused, evt, eventChan>>
    BY <1>9 DEF WatchReceive, DataOK
  <2>2. \A n \in Notices : n = hand \/ InSeq(n, stream) => n = hand' \/ InSeq(n, stream')
    <3>1. \A n : InSeq(n, stream) => n = Head(stream) \/ InSeq(n, Tail(stream))
      BY <2>1, InTail
    <3> QED
      BY <2>1, <3>1, EventsAssumption
  <2> QED
    BY <1>1, <2>1, <2>2 DEF Way
<1>10. ASSUME ProcessPodEvent PROVE Goal
  <2>1. hand \in Notices /\ hand.sandbox \in Sandboxes /\ eventChan \in Seq(Sandboxes)
        /\ UNCHANGED <<watch, phase, dying, stream, evt>>
    BY <1>10, NoticeFields DEF ProcessPodEvent, DataOK
  <2>2. \A s : InSeq(s, eventChan) => InSeq(s, eventChan')
    <3>1. UNCHANGED eventChan \/ eventChan' = Append(eventChan, hand.sandbox)
      BY <1>10 DEF ProcessPodEvent
    <3>2. \A s : InSeq(s, eventChan) => InSeq(s, Append(eventChan, hand.sandbox))
      BY <2>1, InAppend
    <3> QED
      BY <3>1, <3>2
  <2>3. excused \subseteq excused'
    BY <1>10 DEF ProcessPodEvent
  <2>4. Calls(hand, t) => InSeq(t, eventChan') \/ t \in excused'
    <3> SUFFICES ASSUME Calls(hand, t), t \notin excused' PROVE InSeq(t, eventChan')
      OBVIOUS
    <3>1. Significant(hand)
      BY DEF Calls, Significant, Trouble
    <3>2. ~(Len(eventChan) >= Cap)
      BY <1>10, <3>1 DEF ProcessPodEvent, Calls
    <3>3. Len(eventChan) < Cap
      BY <2>1, <3>2, EventsAssumption
    <3>4. eventChan' = Append(eventChan, t)
      BY <1>10, <3>1, <3>3 DEF ProcessPodEvent, Calls
    <3> QED
      BY <2>1, <3>4, InAppend
  <2> QED
    BY <1>1, <2>1, <2>2, <2>3, <2>4 DEF Way
<1>11. ASSUME ReceiveEvent PROVE Goal
  <2>1. eventChan \in Seq(Sandboxes) /\ eventChan # <<>> /\ evt = NoSandbox
        /\ evt' = Head(eventChan) /\ eventChan' = Tail(eventChan)
        /\ UNCHANGED <<watch, phase, dying, excused, hand, stream>>
    BY <1>11 DEF ReceiveEvent, DataOK
  <2>2. \A s \in Sandboxes : s = evt \/ InSeq(s, eventChan) => s = evt' \/ InSeq(s, eventChan')
    <3>1. \A s : InSeq(s, eventChan) => s = Head(eventChan) \/ InSeq(s, Tail(eventChan))
      BY <2>1, InTail
    <3> QED
      BY <2>1, <3>1, EventsAssumption
  <2> QED
    BY <1>1, <2>1, <2>2 DEF Way
<1>12. ASSUME Aside \/ \E s \in Sandboxes : PodAges(s) PROVE Goal
  <2>1. UNCHANGED <<phase, dying, excused, hand, stream, evt, eventChan>>
    BY <1>12, AsideFrame DEF PodAges
  <2>2. UNCHANGED watch
    BY <1>12 DEF Aside, WatchError, WatchEnds, ProcessorExits, CleanupTick, ListPage,
         ListError, CleanupNextPage, CleanupDone, WaitProceeds, WaitCancelled,
         WaitForSandboxReady, IsSandboxReady, IsSandboxGone, WaitError, WaitStep, Close,
         StopWatchers, vars, PodAges
  <2> QED
    BY <1>4, <2>1, <2>2
<1>13. ~Exit /\ ~Restart
  BY DEF Exit, Restart
<1> QED
  BY Steps, <1>3, <1>5, <1>6, <1>7, <1>8, <1>9, <1>10, <1>11, <1>12, <1>13

\* While the watch is open, the event of a pod in trouble is on its way unless
\* the full channel dropped it or a release failed, for any number of pods and
\* any capacity.
THEOREM EventsReachProcessor == Spec => []TroubleOnItsWay
<1>1. Init => WayInv
  BY DEF Init, WayInv
<1>2. QED
  BY <1>1, WayStep, WayImplements, DataTyped, PTL DEF Spec
=============================================================================
