--------------------------- MODULE BindingReplay ---------------------------
(***************************************************************************)
(* replay and requeue as the bindings other than Python call them.         *)
(*                                                                         *)
(* Python runs knocker_replay inside a transaction.  The others run        *)
(* `SELECT knocker_replay(...)` in autocommit: the SELECT writes nothing   *)
(* itself, so SQLite opens no transaction for it, and each statement the   *)
(* function executes on the connection is committed when it ends.  A call  *)
(* is a status check, deletes, a reset and an enqueue, with any other      *)
(* process between two of them, and no way back once it has begun.         *)
(***************************************************************************)
EXTENDS BindingProperties

CONSTANT Callers   \* processes that call replay or requeue

VARIABLE call      \* caller -> what its call has done so far, and of which event

NoCall == [at |-> "none", event |-> NoRef]
CallAt == {"accepted", "cleared", "reset"}

ReplayInit == Init /\ call = [o \in Callers |-> NoCall]

\* The call moves on, or is over.
Reaches(o, at) == call' = [call EXCEPT ![o].at = at]
Returns(o) == call' = [call EXCEPT ![o] = NoCall]

-----------------------------------------------------------------------------
(* The statements of one call.                                             *)

\* event_status: of the two functions replay accepts more.
Accept(o, e) ==
  /\ call[o] = NoCall
  /\ event[e].status \in {"handled", "failed", "dead", "ignored"}
  /\ call' = [call EXCEPT ![o] = [at |-> "accepted", event |-> e]]
  /\ UNCHANGED vars

\* delete_live_jobs_for_event
ClearStale(o) ==
  /\ WriterFree
  /\ call[o].at = "accepted"
  /\ job' = WithoutLiveJobs({call[o].event}, "deleted")
  /\ Reaches(o, "cleared")
  /\ UNCHANGED <<endpoint, event, delivery, attempts, audit, workerVars>>

ResetEndsCall(o) ==   \* fault: the call returns without the enqueue
  /\ WriterFree
  /\ call[o].at = "cleared"
  /\ Exists(call[o].event)
  /\ event' = [event EXCEPT ![call[o].event] = ResetEvent(@)]
  /\ Returns(o)
  /\ UNCHANGED <<endpoint, delivery, attempts, audit, job, workerVars>>

\* reset_event
Reset(o) ==
  /\ WriterFree
  /\ call[o].at = "cleared"
  /\ Exists(call[o].event)
  /\ event' = [event EXCEPT ![call[o].event] = ResetEvent(@)]
  /\ Reaches(o, "reset")
  /\ UNCHANGED <<endpoint, delivery, attempts, audit, job, workerVars>>

\* The event was pruned since: ensure_event_updated raises.
ResetRefused(o) ==
  /\ WriterFree
  /\ call[o].at = "cleared"
  /\ ~Exists(call[o].event)
  /\ Returns(o)
  /\ UNCHANGED vars

\* enqueue_event
Enqueue(o) ==
  /\ WriterFree
  /\ call[o].at = "reset"
  /\ \E j \in JobId : NextJobId(j) /\ job' = Enqueued(job, j, call[o].event, NoRef)
  /\ Returns(o)
  /\ UNCHANGED <<endpoint, event, delivery, attempts, audit, workerVars>>

CallStep(o) ==
  \/ \E e \in EventId : Accept(o, e)
  \/ ClearStale(o)
  \/ Reset(o)
  \/ ResetRefused(o)
  \/ Enqueue(o)

\* The caller's process dies, or its next statement fails with SQLITE_BUSY.
CallDies(o) ==
  /\ faults < MaxFaults
  /\ call[o] # NoCall
  /\ Returns(o)
  /\ faults' = faults + 1
  /\ UNCHANGED <<inboxVars, pc, cur>>

-----------------------------------------------------------------------------
ReplayNext ==
  \/ Next /\ UNCHANGED call
  \/ \E o \in Callers : CallStep(o) \/ CallDies(o)

ReplaySpec == ReplayInit /\ [][ReplayNext]_<<vars, call>>

NobodyCalls == \A o \in Callers : call[o] = NoCall

EnqueuesNothing == \A e \in EventId : ~FreshJobFor(e)

\* What it takes for the calls to be safe: none dies, and between the statements of one
\* nobody else enqueues.  Ignores, prunes, workers and their faults still interleave.

SoloNext ==
  \/ Operator /\ (NobodyCalls \/ EnqueuesNothing) /\ UNCHANGED call
  \/ \E w \in Workers : (Step(w) \/ Crash(w)) /\ UNCHANGED call
  \/ \E j \in JobId : (LeaseExpires(j) \/ LeaseLapses(j)) /\ UNCHANGED call
  \/ \E o \in Callers : (\A p \in Callers \ {o} : call[p] = NoCall) /\ CallStep(o)

SoloSpec == ReplayInit /\ [][SoloNext]_<<vars, call>>

-----------------------------------------------------------------------------
(* Properties.                                                             *)

\* The operator runbook on `received`: "stored and waiting for a worker".  Unless a call
\* is under way, a received event has a job some worker can claim.
ReceivedWaits == NobodyCalls => ReceivedIsQueued
=============================================================================
