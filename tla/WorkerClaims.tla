---------------------------- MODULE WorkerClaims ----------------------------
(***************************************************************************)
(* What every binding's worker does with a claimed job: it keeps a copy of *)
(* the job's row, finds event, delivery and handler through it, and        *)
(* decides by it whether a failure was the last one allowed.               *)
(***************************************************************************)
EXTENDS KnockerInbox

CONSTANTS
  HandledKinds,  \* event types some registered handler accepts
  MaxAttempts    \* Knocker(max_attempts=...), and max_attempts of every job

ASSUME ClaimsAssumption == HandledKinds \subseteq Kinds /\ MaxAttempts \in Nat \ {0}

\* A claim is the worker's own copy of the job: id and attempts as claimed.
\* The payload is read through the id: it never changes.
Claim == [job : JobId, attempts : Nat]
NoClaim == [job |-> NoRef, attempts |-> 0]

EventOf(c) == job[c.job].event
DeliveryOf(c) == job[c.job].delivery

\* The event type a handler is looked up by: the delivery's, if the payload names one.
KindOf(c) == IF DeliveryOf(c) = NoRef THEN event[EventOf(c)].kind
                                      ELSE delivery[DeliveryOf(c)].kind

TerminalTooLate(c) == c.attempts > MaxAttempts   \* fault: off by one
Terminal(c) == c.attempts >= MaxAttempts
=============================================================================
