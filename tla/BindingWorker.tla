--------------------------- MODULE BindingWorker ---------------------------
(***************************************************************************)
(* The workers of the other bindings (run_worker_once of Node, Bun, Go,    *)
(* Ruby and Elixir) on top of the same inbox.                              *)
(*                                                                         *)
(* They claim one job at a time, outside any transaction; read event and   *)
(* delivery outside it too; and never look at the event's status.  Only    *)
(* Node looks at the result of honker_ack, and none at the results of      *)
(* honker_retry and honker_fail.  What a worker reads before its           *)
(* transaction (endpoint, event type) never changes while the rows are     *)
(* there, so the reads are part of the step that uses them.                *)
(*                                                                         *)
(* The bindings' operator calls guard and do the same as Python's, so the  *)
(* operator actions are those of KnockerInbox.  Their replay and requeue   *)
(* are not one transaction: see BindingReplay.                             *)
(***************************************************************************)
EXTENDS WorkerClaims

CONSTANTS
  ChecksAck,  \* the workers whose binding looks at the result of honker_ack
  MaxFaults   \* bound: worker crashes, and leases that run out while held

ASSUME BindingAssumption == ChecksAck \subseteq Workers /\ MaxFaults \in Nat

VARIABLES
  pc,      \* worker -> where its run_worker_once is
  cur,     \* worker -> the claim it is working on
  faults   \* faults so far

workerVars == <<pc, cur, faults>>
vars == <<endpoint, event, delivery, attempts, audit, job, pc, cur, faults>>

\* claimed: before the transaction.  handling: inside it, in the handler.  raised:
\* rolled back, the failure not recorded yet.
WorkerPc == {"idle", "claimed", "handling", "raised"}

WorkerInit ==
  /\ pc = [w \in Workers |-> "idle"]
  /\ cur = [w \in Workers |-> NoClaim]
  /\ faults = 0

Init == InboxInit /\ WorkerInit

\* SQLite's write lock is free: nobody is inside a handler's transaction.
WriterFree == \A w \in Workers : pc[w] # "handling"

EndsKeepingClaim(w) == pc' = [pc EXCEPT ![w] = "idle"] /\ UNCHANGED cur   \* fault

\* run_worker_once returns or raises; what it claimed is forgotten.
Ends(w) ==
  /\ pc' = [pc EXCEPT ![w] = "idle"]
  /\ cur' = [cur EXCEPT ![w] = NoClaim]

-----------------------------------------------------------------------------
(* Claiming, and what precedes the handler.                                *)

\* Bound on the claims of one job.  Only a job whose event is gone reaches it: nothing
\* ever takes such a job out of the queue, and every worker that claims it raises.
MaxClaims == MaxAttempts + MaxFaults

\* honker_claim_batch(queue, worker, 1, 60), in autocommit.
ClaimOne(w) ==
  /\ WriterFree
  /\ pc[w] = "idle"
  /\ \E j \in JobId :
       /\ Claimable(j) /\ job[j].attempts < MaxClaims
       /\ job' = [job EXCEPT ![j] = Claimed(@, w)]
       /\ cur' = [cur EXCEPT ![w] = [job |-> j, attempts |-> job[j].attempts + 1]]
  /\ pc' = [pc EXCEPT ![w] = "claimed"]
  /\ UNCHANGED <<endpoint, event, delivery, attempts, audit, faults>>

\* The rows the payload names are there to be read.
Readable(c) == Exists(EventOf(c)) /\ (DeliveryOf(c) # NoRef => Stored(DeliveryOf(c)))

\* They are gone: the read, or the first UPDATE of the transaction, raises, and the
\* bookkeeping of the failure raises too.
Unreadable(w) ==
  /\ pc[w] = "claimed"
  /\ ~Readable(cur[w])
  /\ Ends(w)
  /\ UNCHANGED <<inboxVars, faults>>

\* No handler: dead at once.  The result of honker_fail is not looked at.
DeadLetter(w) ==
  LET c == cur[w] IN
  /\ WriterFree
  /\ pc[w] = "claimed"
  /\ Readable(c) /\ KindOf(c) \notin HandledKinds
  /\ event' = [event EXCEPT ![EventOf(c)] = MarkFailed(@, c.attempts, TRUE)]
  /\ attempts' = WithAttempt(EventOf(c), "dead")
  /\ job' = IF HoldsLease(w, c.job) THEN Failed(job, c.job) ELSE job
  /\ Ends(w)
  /\ UNCHANGED <<endpoint, delivery, audit, faults>>

\* BEGIN IMMEDIATE, mark_processing, and the handler is called.
BeginHandling(w) ==
  /\ WriterFree
  /\ pc[w] = "claimed"
  /\ Readable(cur[w]) /\ KindOf(cur[w]) \in HandledKinds
  /\ pc' = [pc EXCEPT ![w] = "handling"]
  /\ UNCHANGED <<inboxVars, cur, faults>>

-----------------------------------------------------------------------------
(* The end of the handler's transaction.                                   *)

CommitUnchecked(w) ==     \* fault: assertTransition is missing
  LET c == cur[w] IN
  /\ pc[w] = "handling"
  /\ event' = [event EXCEPT ![EventOf(c)] = MarkHandled(MarkProcessing(@, c.attempts))]
  /\ attempts' = WithAttempt(EventOf(c), "handled")
  /\ job' = IF HoldsLease(w, c.job) THEN Acked(job, c.job) ELSE job
  /\ Ends(w)
  /\ UNCHANGED <<endpoint, delivery, audit, faults>>

CommitForgettingAck(w) == \* fault: honker_ack is not called
  LET c == cur[w] IN
  /\ pc[w] = "handling"
  /\ event' = [event EXCEPT ![EventOf(c)] = MarkHandled(MarkProcessing(@, c.attempts))]
  /\ attempts' = WithAttempt(EventOf(c), "handled")
  /\ Ends(w)
  /\ UNCHANGED <<endpoint, delivery, audit, job, faults>>

\* COMMIT of the handler's writes and the handled transition; of the ack too, if the
\* claim still stands.  A binding that does not check commits without it.
Commit(w) ==
  LET c == cur[w] IN
  /\ pc[w] = "handling"
  /\ w \in ChecksAck => HoldsLease(w, c.job)
  /\ event' = [event EXCEPT ![EventOf(c)] = MarkHandled(MarkProcessing(@, c.attempts))]
  /\ attempts' = WithAttempt(EventOf(c), "handled")
  /\ job' = IF HoldsLease(w, c.job) THEN Acked(job, c.job) ELSE job
  /\ Ends(w)
  /\ UNCHANGED <<endpoint, delivery, audit, faults>>

\* The handler raises, or assertTransition does because the ack was refused: roll
\* back.  Both take the same way into #recordFailedClaim.
RollBack(w) ==
  /\ pc[w] = "handling"
  /\ pc' = [pc EXCEPT ![w] = "raised"]
  /\ UNCHANGED <<inboxVars, cur, faults>>

RecordAcking(w) ==        \* fault: honker_ack where honker_retry or honker_fail is due
  LET c == cur[w] IN
  /\ WriterFree
  /\ pc[w] = "raised"
  /\ Exists(EventOf(c))
  /\ event' = [event EXCEPT ![EventOf(c)] = MarkFailed(@, c.attempts, Terminal(c))]
  /\ attempts' = WithAttempt(EventOf(c), FailedOutcome(Terminal(c)))
  /\ job' = IF HoldsLease(w, c.job) THEN Acked(job, c.job) ELSE job
  /\ Ends(w)
  /\ UNCHANGED <<endpoint, delivery, audit, faults>>

\* #recordFailedClaim: a transaction of its own.  The results of honker_fail and
\* honker_retry are not looked at.
RecordFailure(w) ==
  LET c == cur[w] IN
  /\ WriterFree
  /\ pc[w] = "raised"
  /\ Exists(EventOf(c))
  /\ event' = [event EXCEPT ![EventOf(c)] = MarkFailed(@, c.attempts, Terminal(c))]
  /\ attempts' = WithAttempt(EventOf(c), FailedOutcome(Terminal(c)))
  /\ job' = IF ~HoldsLease(w, c.job) THEN job
            ELSE IF Terminal(c) THEN Failed(job, c.job) ELSE Retried(job, c.job)
  /\ Ends(w)
  /\ UNCHANGED <<endpoint, delivery, audit, faults>>

\* The event is gone: mark_failed raises.
RecordRefused(w) ==
  /\ WriterFree
  /\ pc[w] = "raised"
  /\ ~Exists(EventOf(cur[w]))
  /\ Ends(w)
  /\ UNCHANGED <<inboxVars, faults>>

-----------------------------------------------------------------------------
(* The environment.                                                        *)

\* The process dies and is started again, or BEGIN IMMEDIATE gives up waiting.
Crash(w) ==
  /\ faults < MaxFaults
  /\ pc[w] # "idle"
  /\ Ends(w)
  /\ faults' = faults + 1
  /\ UNCHANGED inboxVars

\* The claim of job j is no longer in its worker's hands.
Abandoned(j) == job[j].state = "claimed" /\ cur[job[j].worker].job # j

Expire(j) ==
  /\ job[j].state = "claimed" /\ ~job[j].expired
  /\ job' = [job EXCEPT ![j].expired = TRUE]
  /\ UNCHANGED <<endpoint, event, delivery, attempts, audit, pc, cur>>

\* visibility_timeout_s passes after the claim was given up...
LeaseExpires(j) == Abandoned(j) /\ Expire(j) /\ UNCHANGED faults

\* ...or while the worker is still at it: a slow handler, a suspended process.
LeaseLapses(j) ==
  ~Abandoned(j) /\ Expire(j) /\ faults < MaxFaults /\ faults' = faults + 1

-----------------------------------------------------------------------------
Operator == WriterFree /\ InboxNext /\ UNCHANGED workerVars

Step(w) ==
  \/ ClaimOne(w)
  \/ Unreadable(w)
  \/ DeadLetter(w)
  \/ BeginHandling(w)
  \/ Commit(w)
  \/ RollBack(w)
  \/ RecordFailure(w)
  \/ RecordRefused(w)

Next ==
  \/ Operator
  \/ \E w \in Workers : Step(w) \/ Crash(w)
  \/ \E j \in JobId : LeaseExpires(j) \/ LeaseLapses(j)

Spec == Init /\ [][Next]_vars

\* Workers keep taking steps, and the lease of an abandoned claim runs out.
Fairness ==
  /\ \A w \in Workers : WF_vars(Step(w))
  /\ \A j \in JobId : WF_vars(LeaseExpires(j))

FairSpec == Spec /\ Fairness

-----------------------------------------------------------------------------
(* The conditions the bindings without checks rely on: no lease lapses     *)
(* while its worker is at work, and operators neither ignore nor           *)
(* reactivate the event of a claimed job.  Crashes and prunes may happen.  *)
(* Like Spec, it takes a replay or a requeue as one step; BindingReplay    *)
(* has the statements of the two calls one by one.                         *)

LeavesAlone(c) ==
  /\ event'[EventOf(c)] = event[EventOf(c)]
  /\ job'[c.job] = job[c.job]

Prunes(c) == event'[EventOf(c)].status = "pruned"

ElsewhereOnly == \A w \in Workers : cur[w] # NoClaim => LeavesAlone(cur[w]) \/ Prunes(cur[w])

UndisturbedNext ==
  \/ Operator /\ ElsewhereOnly
  \/ \E w \in Workers : Step(w) \/ Crash(w)
  \/ \E j \in JobId : LeaseExpires(j)

UndisturbedSpec == Init /\ [][UndisturbedNext]_vars /\ Fairness
=============================================================================
