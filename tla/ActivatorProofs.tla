-------------------------- MODULE ActivatorProofs --------------------------
(***************************************************************************)
(* What the activator promises for any number of retries and any backoff.  *)
(***************************************************************************)
EXTENDS Activator, TLAPS

\* The longest wait between two attempts.
Ceiling == IF InitialBackoff > MaxBackoff THEN InitialBackoff ELSE MaxBackoff

\* What reached the sandbox or may yet reach it, in either form.
AllCopies == Copies("whole") + Copies("cut")

\* The loop of doWithRetry sleeps only before an attempt it may still make.
RetryLeft == pc = "backoff" => attempt < MaxRetries

\* HandleRequest and doWithRetry keep the types, and there is never an attempt
\* beyond MaxRetries.
THEOREM TypeCorrect == Spec => [](TypeOK /\ RetryLeft)
<1>1. Init => TypeOK /\ RetryLeft
  <2> SUFFICES ASSUME Init PROVE TypeOK /\ RetryLeft
    OBVIOUS
  <2>1. /\ 0 \in 0..MaxRetries /\ InitialBackoff \in Nat /\ 0 \in Nat
        /\ [f \in Forms |-> 0] \in [Forms -> Nat]
    BY ActivatorAssumption
  <2>2. TypeOK
    BY <2>1, Zenon DEF Init, TypeOK
  <2>3. RetryLeft
    BY DEF Init, RetryLeft
  <2> QED
    BY <2>2, <2>3
<1>2. TypeOK /\ RetryLeft /\ [Next]_vars => (TypeOK /\ RetryLeft)'
  <2> SUFFICES ASSUME TypeOK, RetryLeft, [Next]_vars PROVE (TypeOK /\ RetryLeft)'
    OBVIOUS
  <2>0. /\ attempt \in 0..MaxRetries /\ backoff \in Nat /\ waited \in Nat
        /\ late \in [Forms -> Nat] /\ executed \in [Forms -> Nat]
    BY DEF TypeOK
  <2>1. CASE ReadHeader
    BY <2>1, Zenon DEF ReadHeader, Answer, TypeOK, RetryLeft
  <2>2. CASE GetSandbox
    BY <2>2, Zenon DEF GetSandbox, Answer, TypeOK, RetryLeft
  <2>3. CASE Send
    BY <2>3, Zenon DEF Send, CloseBody, TypeOK, RetryLeft, Forms
  <2>4. Abandon => late' \in [Forms -> Nat] /\ copy' = "none"
    BY <2>0 DEF Abandon
  <2>5. CASE ConnectError
    BY <2>5, Zenon DEF ConnectError, Failed, Answer, CloseBody, TypeOK, RetryLeft
  <2>6. CASE OtherError
    BY <2>4, <2>6, Zenon DEF OtherError, Failed, Answer, CloseBody, TypeOK, RetryLeft
  <2>7. CASE Broken
    BY <2>4, <2>7, Zenon DEF Broken, Failed, Answer, TypeOK, RetryLeft
  <2>8. CASE Respond
    BY <2>8, Zenon DEF Respond, Answer, TypeOK, RetryLeft
  <2>9. CASE Backoff
    <3>1. Longer \in Nat /\ waited + backoff \in Nat
      BY <2>0, ActivatorAssumption DEF Longer
    <3>2. attempt + 1 \in 0..MaxRetries
      <4>1. attempt < MaxRetries
        BY <2>9, Zenon DEF Backoff, RetryLeft
      <4> QED
        BY <2>0, <4>1, ActivatorAssumption
    <3> QED
      BY <2>9, <3>1, <3>2, Zenon DEF Backoff, Answer, TypeOK, RetryLeft
  <2>10. ASSUME NEW f \in Forms, Execute(f) PROVE (TypeOK /\ RetryLeft)'
    <3>1. late' \in [Forms -> Nat] /\ executed' \in [Forms -> Nat]
      BY <2>0, <2>10 DEF Execute
    <3>2. copy' \in Forms \cup {"none", "served"}
      BY <2>10, Zenon DEF Execute, TypeOK
    <3> QED
      BY <2>10, <3>1, <3>2, Zenon DEF Execute, TypeOK, RetryLeft
  <2>11. CASE ClientGone
    BY <2>11, Zenon DEF ClientGone, TypeOK, RetryLeft
  <2>12. CASE UNCHANGED vars
    BY <2>12, Zenon DEF vars, TypeOK, RetryLeft
  <2> QED
    BY <2>1, <2>2, <2>3, <2>5, <2>6, <2>7, <2>8, <2>9, <2>10, <2>11, <2>12
       DEF Next, HandleRequest
<1>3. QED
  BY <1>1, <1>2, PTL DEF Spec

-----------------------------------------------------------------------------
\* A body that is still unread was never sent, and one that was read is closed.
BodyInv ==
    hadBody => /\ body # "empty"
               /\ Copies("whole") <= 1
               /\ body = "unread" => Copies("whole") = 0

\* An attempt sends at most one copy, and an attempt that is yet to be made
\* none.
CopyInv ==
    /\ AllCopies <= attempt + 1
    /\ pc \in {"arrived", "schedule", "do"} => AllCopies <= attempt

\* Each retry so far waited no longer than the ceiling.
WaitInv ==
    /\ backoff <= Ceiling
    /\ waited <= attempt * Ceiling

\* What a step does to the copies of a form: Send adds one at most, if that is
\* what it sends, and every other step only moves a copy from the attempt to
\* the network or to the sandbox.
LEMMA CopiesCounted ==
    ASSUME TypeOK, [Next]_vars, NEW f \in Forms
    PROVE  /\ Copies(f) \in Nat /\ Copies(f)' \in Nat
           /\ Send => Copies(f)' <= Copies(f) + IF copy' = f THEN 1 ELSE 0
           /\ ~Send => Copies(f)' = Copies(f)
<1>0. late \in [Forms -> Nat] /\ executed \in [Forms -> Nat] /\ late[f] \in Nat
      /\ executed[f] \in Nat /\ "none" # f /\ "served" # f
  BY DEF TypeOK, Forms
<1>1. Copies(f) \in Nat
  BY <1>0 DEF Copies
<1>2. CASE Send
  <2>1. UNCHANGED <<executed, late>>
    BY <1>2, Zenon DEF Send
  <2> QED
    BY <1>0, <1>2, <2>1 DEF Copies
<1>3. CASE UNCHANGED <<executed, late, copy>> /\ ~Send
  BY <1>0, <1>1, <1>3 DEF Copies
<1>4. CASE OtherError \/ Broken
  <2>1. UNCHANGED executed /\ Abandon
    BY <1>4, Zenon DEF OtherError, Broken
  <2>2. ~Send
    BY <2>1 DEF Abandon, Send
  <2> QED
    BY <1>0, <2>1, <2>2 DEF Abandon, Copies
<1>5. ASSUME NEW g \in Forms, Execute(g)
      PROVE  Copies(f)' \in Nat /\ Copies(f)' = Copies(f) /\ ~Send
  <2>0. executed[g] \in Nat /\ late[g] \in Nat /\ "served" # g
    BY <1>0 DEF Forms
  <2>1. /\ \/ copy = g /\ copy' = "served" /\ UNCHANGED late
           \/ late[g] > 0 /\ late' = [late EXCEPT ![g] = @ - 1] /\ UNCHANGED copy
        /\ executed' = [executed EXCEPT ![g] = @ + 1]
    BY <1>5, Zenon DEF Execute
  <2>2. ~Send
    <3> SUFFICES ASSUME Send PROVE FALSE
      OBVIOUS
    <3>1. executed' = executed
      BY Zenon DEF Send
    <3> QED
      BY <1>0, <2>0, <2>1, <3>1
  <2>3. CASE f = g
    <3>1. executed'[f] = executed[f] + 1
      BY <1>0, <2>1, <2>3
    <3>2. CASE copy = g /\ copy' = "served" /\ late' = late
      BY <1>0, <2>0, <2>2, <2>3, <3>1, <3>2 DEF Copies
    <3>3. CASE late[g] > 0 /\ late' = [late EXCEPT ![g] = @ - 1] /\ copy' = copy
      <4>1. late'[f] = late[f] - 1 /\ late[f] > 0
        BY <1>0, <2>3, <3>3
      <4> QED
        BY <1>0, <2>2, <3>1, <3>3, <4>1 DEF Copies
    <3> QED
      BY <2>1, <3>2, <3>3
  <2>4. CASE f # g
    <3>1. executed'[f] = executed[f] /\ late'[f] = late[f] /\ (copy' = f <=> copy = f)
      BY <1>0, <2>1, <2>4
    <3> QED
      BY <1>0, <2>2, <3>1 DEF Copies
  <2> QED
    BY <1>1, <2>2, <2>3, <2>4
<1>6. ASSUME ReadHeader \/ GetSandbox \/ Respond \/ Backoff \/ ClientGone \/ ConnectError
             \/ UNCHANGED vars
      PROVE  UNCHANGED <<executed, late, copy>>
  BY <1>6, Zenon DEF ReadHeader, GetSandbox, Respond, Backoff, ClientGone, ConnectError, vars
<1>7. QED
  BY <1>1, <1>2, <1>3, <1>4, <1>5, <1>6 DEF Next, HandleRequest

\* However many retries the configuration allows, the body of a request reaches
\* the sandbox with at most one of them; the others arrive cut short.
THEOREM BodyDelivered == Spec => []BodyDeliveredOnce
<1> USE DEF Forms
<1>1. Init => BodyInv
  <2> SUFFICES ASSUME Init, hadBody PROVE BodyInv
    BY DEF BodyInv
  <2>1. /\ body = "unread" /\ copy = "none" /\ late = [f \in Forms |-> 0]
        /\ executed = [f \in Forms |-> 0]
    BY Zenon DEF Init
  <2> QED
    BY <2>1 DEF BodyInv, Copies
<1>2. TypeOK /\ BodyInv /\ [Next]_vars => BodyInv'
  <2> SUFFICES ASSUME TypeOK, BodyInv, [Next]_vars PROVE BodyInv'
    OBVIOUS
  <2>1. /\ Copies("whole") \in Nat /\ Copies("whole")' \in Nat
        /\ Send => Copies("whole")' <= Copies("whole") + IF copy' = "whole" THEN 1 ELSE 0
        /\ ~Send => Copies("whole")' = Copies("whole")
    BY CopiesCounted
  <2>2. UNCHANGED hadBody
    BY DEF Next, HandleRequest, ReadHeader, GetSandbox, Send, ConnectError, OtherError,
           Broken, Respond, Backoff, Execute, ClientGone, vars
  <2>3. body' = body \/ body' = IF body = "unread" THEN "closed" ELSE body
    BY DEF Next, HandleRequest, ReadHeader, GetSandbox, Send, ConnectError, OtherError,
           Broken, Respond, Backoff, Execute, ClientGone, vars, CloseBody
  <2>4. CASE Send
    <3>1. /\ body' = IF body = "unread" THEN "closed" ELSE body
          /\ body = "closed" => copy' = "cut"
      BY <2>4 DEF Send, CloseBody
    <3>2. body \in {"empty", "unread", "closed"}
      BY Zenon DEF TypeOK
    <3> QED
      BY <2>1, <2>2, <2>4, <3>1, <3>2 DEF BodyInv
  <2>5. CASE ~Send
    BY <2>1, <2>2, <2>3, <2>5 DEF BodyInv
  <2> QED
    BY <2>4, <2>5
<1>3. BodyInv => BodyDeliveredOnce
  BY DEF BodyInv, BodyDeliveredOnce
<1>4. QED
  BY <1>1, <1>2, <1>3, TypeCorrect, PTL DEF Spec

-----------------------------------------------------------------------------
\* The sandbox gets at most MaxRetries + 1 copies, and the client waits at most
\* MaxRetries ceilings between them, for every configuration.
THEOREM RetriesStayBounded == Spec => []RetriesBounded
<1> DEFINE IInv == CopyInv /\ WaitInv
<1>0. Ceiling \in Nat /\ InitialBackoff <= Ceiling /\ MaxBackoff <= Ceiling
  BY ActivatorAssumption DEF Ceiling
<1>1. Init => IInv
  <2>1. 0 * Ceiling = 0
    BY <1>0
  <2> QED
    <3> SUFFICES ASSUME Init PROVE IInv
      OBVIOUS
    <3>1. /\ attempt = 0 /\ backoff = InitialBackoff /\ copy = "none" /\ waited = 0
          /\ late = [f \in Forms |-> 0] /\ executed = [f \in Forms |-> 0]
      BY Zenon DEF Init
    <3>2. AllCopies = 0
      BY <3>1 DEF AllCopies, Copies, Forms
    <3> QED
      BY <1>0, <2>1, <3>1, <3>2 DEF CopyInv, WaitInv
<1>2. TypeOK /\ RetryLeft /\ IInv /\ [Next]_vars => IInv'
  <2> SUFFICES ASSUME TypeOK, RetryLeft, CopyInv, WaitInv, [Next]_vars
               PROVE  CopyInv' /\ WaitInv'
    OBVIOUS
  <2>0. Ceiling' = Ceiling
    BY DEF Ceiling
  <2>1. /\ AllCopies \in Nat /\ AllCopies' \in Nat
        /\ Send => AllCopies' <= AllCopies + 1
        /\ ~Send => AllCopies' = AllCopies
    <3>1. /\ Copies("whole") \in Nat /\ Copies("whole")' \in Nat
          /\ Send => Copies("whole")' <= Copies("whole") + IF copy' = "whole" THEN 1 ELSE 0
          /\ ~Send => Copies("whole")' = Copies("whole")
      BY CopiesCounted DEF Forms
    <3>2. /\ Copies("cut") \in Nat /\ Copies("cut")' \in Nat
          /\ Send => Copies("cut")' <= Copies("cut") + IF copy' = "cut" THEN 1 ELSE 0
          /\ ~Send => Copies("cut")' = Copies("cut")
      BY CopiesCounted DEF Forms
    <3> QED
      BY <3>1, <3>2 DEF AllCopies
  <2>2. attempt \in Nat /\ backoff \in Nat /\ waited \in Nat
    <3>1. attempt \in 0..MaxRetries /\ backoff \in Nat /\ waited \in Nat
      BY Zenon DEF TypeOK
    <3> QED
      BY <3>1, ActivatorAssumption
  <2>3. CASE Backoff /\ ~gone
    <3>1. /\ pc = "backoff" /\ pc' = "do"
          /\ attempt' = attempt + 1
          /\ waited' = waited + backoff
          /\ backoff' = Longer
      BY <2>3 DEF Backoff
    <3>2. ~Send
      BY <3>1 DEF Send
    <3>3. CopyInv'
      BY <2>1, <2>2, <3>1, <3>2 DEF CopyInv
    <3>4. (attempt + 1) * Ceiling = attempt * Ceiling + Ceiling /\ attempt * Ceiling \in Nat
      BY <1>0, <2>2
    <3>5. waited' <= attempt' * Ceiling
      BY <1>0, <2>2, <3>1, <3>4 DEF WaitInv
    <3>6. Longer <= Ceiling
      <4>1. backoff * BackoffFactor \in Nat
        BY <2>2, ActivatorAssumption
      <4> QED
        BY <1>0, <4>1, ActivatorAssumption DEF Longer
    <3> QED
      BY <2>0, <3>1, <3>3, <3>5, <3>6 DEF WaitInv
  <2>4. CASE ~(Backoff /\ ~gone)
    <3>1. UNCHANGED <<attempt, backoff, waited>>
      BY <2>4 DEF Next, HandleRequest, ReadHeader, GetSandbox, Send, ConnectError,
                  OtherError, Broken, Respond, Backoff, Execute, ClientGone, vars
    <3>0. WaitInv'
      BY <2>0, <3>1 DEF WaitInv
    <3>2. CASE Send
      <4>1. pc = "do" /\ pc' = "sent"
        BY <3>2, Zenon DEF Send
      <4> QED
        BY <2>1, <2>2, <3>0, <3>1, <3>2, <4>1 DEF CopyInv
    <3>3. CASE ~Send
      <4>1. pc' \in {"arrived", "schedule", "do"} => pc \in {"arrived", "schedule", "do"}
        BY <2>4, <3>3 DEF Next, HandleRequest, ReadHeader, GetSandbox, ConnectError,
                  OtherError, Broken, Respond, Backoff, Execute, ClientGone, vars,
                  Failed, Answer
      <4> QED
        BY <2>1, <2>2, <3>0, <3>1, <3>3, <4>1 DEF CopyInv
    <3> QED
      BY <3>2, <3>3
  <2> QED
    BY <2>3, <2>4
<1>3. TypeOK /\ IInv => RetriesBounded
  <2> SUFFICES ASSUME TypeOK, CopyInv, WaitInv PROVE RetriesBounded
    OBVIOUS
  <2>1. attempt \in Nat /\ attempt <= MaxRetries /\ MaxRetries \in Nat /\ waited \in Nat
    <3>1. attempt \in 0..MaxRetries /\ waited \in Nat
      BY Zenon DEF TypeOK
    <3> QED
      BY <3>1, ActivatorAssumption
  <2>2. AllCopies \in Nat
    <3>1. late \in [Forms -> Nat] /\ executed \in [Forms -> Nat]
      BY Zenon DEF TypeOK
    <3> QED
      BY <3>1 DEF AllCopies, Copies, Forms
  <2>3. attempt * Ceiling <= MaxRetries * Ceiling /\ attempt * Ceiling \in Nat
        /\ MaxRetries * Ceiling \in Nat
    BY <1>0, <2>1
  <2>4. waited <= MaxRetries * Ceiling
    BY <2>1, <2>3 DEF WaitInv
  <2>5. AllCopies <= MaxRetries + 1
    BY <2>1, <2>2 DEF CopyInv
  <2> QED
    BY <2>4, <2>5 DEF RetriesBounded, AllCopies, Ceiling
<1>4. QED
  BY <1>1, <1>2, <1>3, TypeCorrect, PTL DEF Spec
=============================================================================
