----------------------------- MODULE Activator -----------------------------
(***************************************************************************)
(* One request on its way through the activator: HandleRequest asks the    *)
(* scheduler for the project's sandbox and forwards the request to it,     *)
(* with retries.  Requests share no state, so that one is enough.          *)
(*                                                                         *)
(* The body of the request can be read once: http.Client.Do closes it,     *)
(* however the attempt ends.  A later attempt still sends the request line *)
(* and the headers, which net/http flushes before it reads the body, and   *)
(* breaks off there: the sandbox gets the request cut short.  What it does *)
(* with that is its own affair; a handler that does not need the body may  *)
(* execute it.  Of an attempt that breaks after the request was sent       *)
(* nobody knows whether the sandbox has executed it, or will.  What        *)
(* http.Transport itself repeats on a reused connection (a request without *)
(* a body) is part of one attempt.                                         *)
(***************************************************************************)
EXTENDS Naturals

CONSTANTS
    MaxRetries,
    InitialBackoff, MaxBackoff, BackoffFactor   \* in units of time

ASSUME ActivatorAssumption ==
    /\ MaxRetries \in Nat
    /\ InitialBackoff \in Nat /\ MaxBackoff \in Nat /\ BackoffFactor \in Nat

VARIABLES
    pc,         \* where HandleRequest is
    noisy,      \* the URL contains "dns" or "lookup"
    body,       \* "empty", "unread" or "closed"
    attempt,
    backoff,
    gone,       \* the client has gone away: ctx is done
    status,     \* what the client was told
    copy,       \* what this attempt sent: "none", a form, or "served"
    late,       \* what earlier attempts sent and the sandbox has yet to see
    executed,   \* history: how often the sandbox executed each form
    hadBody,    \* history: the request came with a body
    waited      \* history: time spent between attempts

vars == <<pc, noisy, body, attempt, backoff, gone, status, copy, late, executed,
          hadBody, waited>>

\* How a request reaches the sandbox: as the client sent it, or cut short.
Forms == {"whole", "cut"}

Init ==
    /\ pc = "arrived"
    /\ noisy \in BOOLEAN
    /\ body \in {"empty", "unread"} /\ hadBody = (body = "unread")
    /\ attempt = 0 /\ backoff = InitialBackoff
    /\ gone = FALSE /\ status = "none"
    /\ copy = "none" /\ waited = 0
    /\ late = [f \in Forms |-> 0] /\ executed = [f \in Forms |-> 0]

-----------------------------------------------------------------------------
Answer(s) ==
    /\ status' = s
    /\ pc' = "done"

\* Without a Project-Id header there is nothing to ask for.
ReadHeader ==
    /\ pc = "arrived"
    /\ Answer("bad request") \/ (pc' = "schedule" /\ UNCHANGED status)
    /\ UNCHANGED <<noisy, body, attempt, backoff, gone, copy, late, executed, hadBody, waited>>

\* GetSandbox of the scheduler client: an error, or a status that is not
\* ACTIVE, ends the request, and so does a URL that cannot be built.
GetSandbox ==
    /\ pc = "schedule"
    /\ Answer("failed") \/ (pc' = "do" /\ UNCHANGED status)
    /\ UNCHANGED <<noisy, body, attempt, backoff, gone, copy, late, executed, hadBody, waited>>

\* Mutant: a shadowed err makes the loop end with nil, nil, and the handler
\* panics.
FailedShadowed(retryable) ==
    IF (retryable \/ noisy) /\ attempt < MaxRetries
    THEN pc' = "backoff" /\ UNCHANGED status
    ELSE IF retryable \/ noisy
         THEN pc' = "done" /\ UNCHANGED status
         ELSE Answer("failed")

\* Mutant: one retry too many.
FailedOneMore(retryable) ==
    IF (retryable \/ noisy) /\ attempt <= MaxRetries
    THEN pc' = "backoff" /\ UNCHANGED status
    ELSE Answer("failed")

\* doWithRetry after a failed attempt.  isRetryableError searches the text of
\* the error, which contains the URL.
Failed(retryable) ==
    IF (retryable \/ noisy) /\ attempt < MaxRetries
    THEN pc' = "backoff" /\ UNCHANGED status
    ELSE Answer("failed")

\* Mutant: the body is kept, and sent again with a retry.
CloseBodyKeeps == body' = body

CloseBody == body' = IF body = "unread" THEN "closed" ELSE body

\* The attempt is over; what it sent may still arrive.
Abandon ==
    /\ late' = [f \in Forms |-> IF copy = f THEN late[f] + 1 ELSE late[f]]
    /\ copy' = "none"

\* Do sends the request, as much of it as there is, unless the client has gone.
Send ==
    /\ pc = "do" /\ ~gone
    /\ pc' = "sent"
    /\ copy' = IF body = "closed" THEN "cut" ELSE "whole"
    /\ CloseBody
    /\ UNCHANGED <<noisy, attempt, backoff, gone, status, late, executed, hadBody, waited>>

\* No connection: "no such host", "connection refused" and the like.
ConnectError ==
    /\ pc = "do"
    /\ Failed(TRUE)
    /\ CloseBody
    /\ UNCHANGED <<noisy, attempt, backoff, gone, copy, late, executed, hadBody, waited>>

\* "invalid Read on closed Body", "context canceled" and other errors.
OtherError ==
    /\ pc \in {"do", "sent"}
    /\ Failed(FALSE)
    /\ CloseBody
    /\ Abandon
    /\ UNCHANGED <<noisy, attempt, backoff, gone, executed, hadBody, waited>>

\* "connection reset", "i/o timeout", the Timeout of the HTTP client.
Broken ==
    /\ pc = "sent"
    /\ Failed(TRUE)
    /\ Abandon
    /\ UNCHANGED <<noisy, body, attempt, backoff, gone, executed, hadBody, waited>>

\* The sandbox executes what reached it, also after the activator gave up.
Execute(f) ==
    /\ \/ copy = f /\ copy' = "served" /\ UNCHANGED late
       \/ late[f] > 0 /\ late' = [late EXCEPT ![f] = @ - 1] /\ UNCHANGED copy
    /\ executed' = [executed EXCEPT ![f] = @ + 1]
    /\ UNCHANGED <<pc, noisy, body, attempt, backoff, gone, status, hadBody, waited>>

\* The answer of this attempt; status, header and body go to the client.  A
\* copy that breaks off cannot take the status back.
Respond ==
    /\ pc = "sent" /\ copy = "served"
    /\ Answer("sandbox")
    /\ UNCHANGED <<noisy, body, attempt, backoff, gone, copy, late, executed, hadBody, waited>>

\* Mutant: the backoff is not capped.
LongerUncapped == backoff * BackoffFactor

\* The backoff after the next.
Longer ==
    IF backoff * BackoffFactor > MaxBackoff THEN MaxBackoff ELSE backoff * BackoffFactor

Backoff ==
    /\ pc = "backoff"
    /\ IF gone
       THEN Answer("failed") /\ UNCHANGED <<attempt, backoff, waited>>
       ELSE /\ waited' = waited + backoff
            /\ backoff' = Longer
            /\ attempt' = attempt + 1
            /\ pc' = "do"
            /\ UNCHANGED status
    /\ UNCHANGED <<noisy, body, gone, copy, late, executed, hadBody>>

ClientGone ==
    /\ pc # "done" /\ ~gone
    /\ gone' = TRUE
    /\ UNCHANGED <<pc, noisy, body, attempt, backoff, status, copy, late, executed, hadBody, waited>>

-----------------------------------------------------------------------------
HandleRequest ==
    \/ ReadHeader \/ GetSandbox
    \/ Send \/ ConnectError \/ OtherError \/ Broken \/ Respond
    \/ Backoff

Next == HandleRequest \/ (\E f \in Forms : Execute(f)) \/ ClientGone

Spec == Init /\ [][Next]_vars

\* The scheduler answers in the end, and an attempt ends by the Timeout of
\* the HTTP client at the latest.
FairSpec == Spec /\ WF_vars(HandleRequest)

-----------------------------------------------------------------------------
TypeOK ==
    /\ pc \in {"arrived", "schedule", "do", "sent", "backoff", "done"}
    /\ noisy \in BOOLEAN /\ gone \in BOOLEAN /\ hadBody \in BOOLEAN
    /\ body \in {"empty", "unread", "closed"}
    /\ attempt \in 0..MaxRetries /\ backoff \in Nat
    /\ status \in {"none", "bad request", "failed", "sandbox"}
    /\ copy \in Forms \cup {"none", "served"}
    /\ late \in [Forms -> Nat] /\ executed \in [Forms -> Nat] /\ waited \in Nat

\* Copies of the request that the sandbox has executed or may yet execute.
Copies(f) == executed[f] + late[f] + IF copy = f THEN 1 ELSE 0

\* The body of a request reaches the sandbox with one attempt at most, whatever
\* is retried and however late the sandbox gets to it: what is repeated is
\* either a request without a body or one cut short.
BodyDeliveredOnce == hadBody => Copies("whole") <= 1

\* The sandbox sees a request at most once per attempt, cut short or not, and
\* between attempts the client waits no longer than the configuration says.
RetriesBounded ==
    /\ Copies("whole") + Copies("cut") <= MaxRetries + 1
    /\ waited <= MaxRetries * (IF InitialBackoff > MaxBackoff THEN InitialBackoff
                                                              ELSE MaxBackoff)

\* Every request is answered, though the retries of a request whose URL looks
\* like a DNS error never meet an error that ends them.
RequestAnswered == <>(pc = "done" /\ status # "none")
=============================================================================
