--------------------------- MODULE KnockerWorker ---------------------------
(***************************************************************************)
(* The Python worker (Knocker.run_worker, _dispatch_job, _fail_job) on top *)
(* of the inbox: any number of workers and operators on one database.      *)
(*                                                                         *)
(* A dispatch is one BEGIN IMMEDIATE transaction, so while a handler runs  *)
(* its worker is the only writer; but time passes, and the lease may run   *)
(* out under it.  A handler that raises rolls that transaction back, and   *)
(* the failure is recorded by a second one: between the two, any other     *)
(* writer may come first.                                                  *)
(***************************************************************************)
EXTENDS WorkerClaims

CONSTANTS
  BatchSize,  \* claim_batch_size of run_worker
  MaxFaults   \* bound: crashes, database errors, and leases that run out while held

ASSUME WorkerAssumption == BatchSize \in Nat \ {0} /\ MaxFaults \in Nat

VARIABLES
  pc,      \* worker -> where its loop is
  buffer,  \* worker -> claims of its last batch it has not dispatched yet
  cur,     \* worker -> the claim it is dispatching
  faults   \* faults so far

workerVars == <<pc, buffer, cur, faults>>
vars == <<endpoint, event, delivery, attempts, audit, job, pc, buffer, cur, faults>>

\* handling: inside the transaction, in the handler.  raised: rolled back, the
\* failure not recorded yet.  stopped: run_worker has re-raised.
WorkerPc == {"idle", "handling", "raised", "stopped"}

WorkerInit ==
  /\ pc = [w \in Workers |-> "idle"]
  /\ buffer = [w \in Workers |-> {}]
  /\ cur = [w \in Workers |-> NoClaim]
  /\ faults = 0

Init == InboxInit /\ WorkerInit

\* SQLite's write lock is free: nobody is inside a dispatch transaction.
WriterFree == \A w \in Workers : pc[w] # "handling"

Holds(w) == buffer[w] \cup {cur[w]}

-----------------------------------------------------------------------------
(* Claiming.                                                               *)

\* __anext__ on an empty buffer: claim_batch takes as many jobs as it may.
ClaimBatch(w) ==
  /\ WriterFree
  /\ pc[w] = "idle" /\ buffer[w] = {}
  /\ \E S \in SUBSET {j \in JobId : Claimable(j)} :
       /\ S # {}
       /\ \/ Cardinality(S) = BatchSize
          \/ Cardinality(S) < BatchSize /\ \A j \in JobId : Claimable(j) => j \in S
       /\ job' = [j \in JobId |-> IF j \in S THEN Claimed(job[j], w) ELSE job[j]]
       /\ buffer' = [buffer EXCEPT ![w] =
                       {[job |-> j, attempts |-> job[j].attempts + 1] : j \in S}]
  /\ UNCHANGED <<endpoint, event, delivery, attempts, audit, pc, cur, faults>>

-----------------------------------------------------------------------------
(* One dispatch of the claim c: the decisions _dispatch_job takes before   *)
(* the handler runs.                                                       *)

Ready(w, c) == WriterFree /\ pc[w] = "idle" /\ c \in buffer[w]

OnlyMissingShortCircuits(c) == ~Exists(EventOf(c))   \* fault: ignored is not looked at

\* The event is gone, or an operator has ignored it: nothing to run.
ShortCircuits(c) == ~Exists(EventOf(c)) \/ event[EventOf(c)].status = "ignored"

\* The delivery the payload names is stored and linked to the payload's event.
DeliveryUsable(c) ==
  DeliveryOf(c) # NoRef => Stored(DeliveryOf(c)) /\ delivery[DeliveryOf(c)].event = EventOf(c)

StopsKeepingClaim(w) ==   \* fault: the claim being dispatched outlives the loop
  /\ pc' = [pc EXCEPT ![w] = "stopped"]
  /\ buffer' = [buffer EXCEPT ![w] = {}]
  /\ UNCHANGED cur

\* The loop ends with the exception; its iterator and buffer go with it.
Stops(w) ==
  /\ pc' = [pc EXCEPT ![w] = "stopped"]
  /\ buffer' = [buffer EXCEPT ![w] = {}]
  /\ cur' = [cur EXCEPT ![w] = NoClaim]

\* Best-effort ack: the claim is drained whether or not its lease still holds.
Drain(w, c) ==
  /\ Ready(w, c)
  /\ ShortCircuits(c)
  /\ job' = IF HoldsLease(w, c.job) THEN Acked(job, c.job) ELSE job
  /\ buffer' = [buffer EXCEPT ![w] = @ \ {c}]
  /\ UNCHANGED <<endpoint, event, delivery, attempts, audit, pc, cur, faults>>

NoHandler(w, c) ==
  Ready(w, c) /\ ~ShortCircuits(c) /\ DeliveryUsable(c) /\ KindOf(c) \notin HandledKinds

\* No handler: dead at once, whatever the attempts.
DeadLetter(w, c) ==
  /\ NoHandler(w, c)
  /\ HoldsLease(w, c.job)
  /\ event' = [event EXCEPT ![EventOf(c)] = MarkFailed(@, c.attempts, TRUE)]
  /\ attempts' = WithAttempt(EventOf(c), "dead")
  /\ job' = Failed(job, c.job)
  /\ buffer' = [buffer EXCEPT ![w] = @ \ {c}]
  /\ UNCHANGED <<endpoint, delivery, audit, pc, cur, faults>>

DeadLetterRefused(w, c) ==
  /\ NoHandler(w, c)
  /\ ~HoldsLease(w, c.job)
  /\ Stops(w)
  /\ UNCHANGED <<inboxVars, faults>>

\* The transaction is open and the handler has been called, or the payload's
\* delivery was unusable and the dispatch is about to raise.
BeginHandling(w, c) ==
  /\ Ready(w, c)
  /\ ~ShortCircuits(c)
  /\ DeliveryUsable(c) => KindOf(c) \in HandledKinds
  /\ pc' = [pc EXCEPT ![w] = "handling"]
  /\ cur' = [cur EXCEPT ![w] = c]
  /\ buffer' = [buffer EXCEPT ![w] = @ \ {c}]
  /\ UNCHANGED <<inboxVars, faults>>

-----------------------------------------------------------------------------
(* The end of the dispatch transaction.                                    *)

HandlerReturns(w) == pc[w] = "handling" /\ DeliveryUsable(cur[w])

CommitUnchecked(w) ==     \* fault: the result of the ack is not looked at
  /\ HandlerReturns(w)
  /\ event' = [event EXCEPT ![EventOf(cur[w])] =
                 MarkHandled(MarkProcessing(@, cur[w].attempts))]
  /\ attempts' = WithAttempt(EventOf(cur[w]), "handled")
  /\ job' = IF HoldsLease(w, cur[w].job) THEN Acked(job, cur[w].job) ELSE job
  /\ pc' = [pc EXCEPT ![w] = "idle"]
  /\ cur' = [cur EXCEPT ![w] = NoClaim]
  /\ UNCHANGED <<endpoint, delivery, audit, buffer, faults>>

\* COMMIT: the handler's writes, the handled transition and the ack at once.
CommitHandled(w) ==
  /\ HandlerReturns(w)
  /\ HoldsLease(w, cur[w].job)
  /\ event' = [event EXCEPT ![EventOf(cur[w])] =
                 MarkHandled(MarkProcessing(@, cur[w].attempts))]
  /\ attempts' = WithAttempt(EventOf(cur[w]), "handled")
  /\ job' = Acked(job, cur[w].job)
  /\ pc' = [pc EXCEPT ![w] = "idle"]
  /\ cur' = [cur EXCEPT ![w] = NoClaim]
  /\ UNCHANGED <<endpoint, delivery, audit, buffer, faults>>

\* The ack is refused: everything the transaction did is rolled back.
AckRefused(w) ==
  /\ HandlerReturns(w)
  /\ ~HoldsLease(w, cur[w].job)
  /\ Stops(w)
  /\ UNCHANGED <<inboxVars, faults>>

\* The handler raises, or a statement or the COMMIT after it does: roll back, and keep
\* the claim for _fail_job.
HandlerRaises(w) ==
  /\ pc[w] = "handling"
  /\ pc' = [pc EXCEPT ![w] = "raised"]
  /\ UNCHANGED <<inboxVars, buffer, cur, faults>>

-----------------------------------------------------------------------------
(* _fail_job: a second transaction records the failure.                    *)

FailUnchecked(w) == Exists(EventOf(cur[w]))      \* fault: a refused retry is not noticed

\* mark_failed finds the event and Honker accepts the retry or the failure.
FailAccepted(w) == Exists(EventOf(cur[w])) /\ HoldsLease(w, cur[w].job)

FailJobNeverRetries(w) ==   \* fault: honker_fail where honker_retry is due
  LET c == cur[w] IN
  /\ WriterFree
  /\ pc[w] = "raised"
  /\ FailAccepted(w)
  /\ event' = [event EXCEPT ![EventOf(c)] = MarkFailed(@, c.attempts, Terminal(c))]
  /\ attempts' = WithAttempt(EventOf(c), FailedOutcome(Terminal(c)))
  /\ job' = Failed(job, c.job)
  /\ pc' = [pc EXCEPT ![w] = "idle"]
  /\ cur' = [cur EXCEPT ![w] = NoClaim]
  /\ UNCHANGED <<endpoint, delivery, audit, buffer, faults>>

FailJob(w) ==
  LET c == cur[w] IN
  /\ WriterFree
  /\ pc[w] = "raised"
  /\ FailAccepted(w)
  /\ event' = [event EXCEPT ![EventOf(c)] = MarkFailed(@, c.attempts, Terminal(c))]
  /\ attempts' = WithAttempt(EventOf(c), FailedOutcome(Terminal(c)))
  /\ job' = IF Terminal(c) THEN Failed(job, c.job) ELSE Retried(job, c.job)
  /\ pc' = [pc EXCEPT ![w] = "idle"]
  /\ cur' = [cur EXCEPT ![w] = NoClaim]
  /\ UNCHANGED <<endpoint, delivery, audit, buffer, faults>>

FailRefused(w) ==
  /\ WriterFree
  /\ pc[w] = "raised"
  /\ ~FailAccepted(w)
  /\ Stops(w)
  /\ UNCHANGED <<inboxVars, faults>>

-----------------------------------------------------------------------------
(* The environment.                                                        *)

\* The process dies: SQLite rolls an open transaction back, memory is lost.
Crash(w) ==
  /\ faults < MaxFaults
  /\ pc[w] \in {"handling", "raised"} \/ buffer[w] # {}
  /\ Stops(w)
  /\ faults' = faults + 1
  /\ UNCHANGED inboxVars

\* The database refuses the claim, or the BEGIN or COMMIT of _fail_job: nothing is
\* written, and the exception ends the loop with its lease still held.
LoopErrs(w) ==
  /\ faults < MaxFaults
  /\ pc[w] = "raised" \/ (pc[w] = "idle" /\ buffer[w] = {})
  /\ Stops(w)
  /\ faults' = faults + 1
  /\ UNCHANGED inboxVars

\* The database refuses a dispatch before its handler has run, or the COMMIT of a dispatch
\* that runs none: it is a failed run, whatever the event is by now.
DispatchErrs(w) ==
  /\ faults < MaxFaults
  /\ pc[w] = "idle"
  /\ \E c \in buffer[w] :
       /\ cur' = [cur EXCEPT ![w] = c]
       /\ buffer' = [buffer EXCEPT ![w] = @ \ {c}]
  /\ pc' = [pc EXCEPT ![w] = "raised"]
  /\ faults' = faults + 1
  /\ UNCHANGED inboxVars

\* A supervisor starts run_worker again, under a fresh state.
Restart(w) ==
  /\ pc[w] = "stopped"
  /\ pc' = [pc EXCEPT ![w] = "idle"]
  /\ UNCHANGED <<inboxVars, buffer, cur, faults>>

\* The claim of job j is no longer in its worker's hands.
Abandoned(j) ==
  job[j].state = "claimed" /\ \A c \in Holds(job[j].worker) : c.job # j

\* visibility_timeout_s passes.  A lease still in use runs out only under a slow
\* worker, which is a fault; an abandoned one surely does.
LeaseExpires(j) ==
  /\ job[j].state = "claimed" /\ ~job[j].expired
  /\ job' = [job EXCEPT ![j].expired = TRUE]
  /\ \/ Abandoned(j) /\ UNCHANGED faults
     \/ ~Abandoned(j) /\ faults < MaxFaults /\ faults' = faults + 1
  /\ UNCHANGED <<endpoint, event, delivery, attempts, audit, pc, buffer, cur>>

-----------------------------------------------------------------------------
Operator == WriterFree /\ InboxNext /\ UNCHANGED workerVars

Dispatch(w) ==
  \E c \in buffer[w] :
    \/ Drain(w, c)
    \/ DeadLetter(w, c)
    \/ DeadLetterRefused(w, c)
    \/ BeginHandling(w, c)

Step(w) ==
  \/ ClaimBatch(w)
  \/ Dispatch(w)
  \/ CommitHandled(w)
  \/ AckRefused(w)
  \/ HandlerRaises(w)
  \/ FailJob(w)
  \/ FailRefused(w)
  \/ Restart(w)

Fault(w) == Crash(w) \/ LoopErrs(w) \/ DispatchErrs(w)

Next ==
  \/ Operator
  \/ \E w \in Workers : Step(w) \/ Fault(w)
  \/ \E j \in JobId : LeaseExpires(j)

Spec == Init /\ [][Next]_vars

\* A running worker keeps taking steps, a dead one is restarted, and the lease of
\* an abandoned claim runs out.  Nothing makes providers or operators act.
Fairness ==
  /\ \A w \in Workers : WF_vars(Step(w))
  /\ \A j \in JobId : WF_vars(Abandoned(j) /\ LeaseExpires(j))

FairSpec == Spec /\ Fairness
=============================================================================
