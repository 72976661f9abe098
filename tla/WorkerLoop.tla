----------------------------- MODULE WorkerLoop -----------------------------
(***************************************************************************)
(* Knocker.run_worker as a loop over the queue: several calls, in one      *)
(* process or more, with and without a stop event.  A dispatch is one step *)
(* with any of its outcomes; KnockerWorker looks inside it.                *)
(***************************************************************************)
EXTENDS ClaimLoop

CONSTANT MaxAttempts   \* Knocker(max_attempts=...)

ASSUME MaxAttemptsAssumption == MaxAttempts \in Nat \ {0}

vars == <<job, loopVars>>

Init == LoopInit

-----------------------------------------------------------------------------
(* _dispatch_job(job).                                                     *)

InHand(w) == phase[w] = "running" /\ hand[w] # NoRef

\* Back to the head of the loop.
DoneWith(w) ==
  /\ hand' = [hand EXCEPT ![w] = NoRef]
  /\ UNCHANGED <<phase, task, buffer, stop, faults>>

\* The handler's transaction commits with the ack, or there was nothing to run.
Handled(w) ==
  /\ InHand(w) /\ HoldsLease(w, hand[w])
  /\ job' = Acked(job, hand[w])
  /\ DoneWith(w)

\* The event is gone or ignored: a best-effort ack, also without the lease.
Drained(w) ==
  /\ InHand(w) /\ ~HoldsLease(w, hand[w])
  /\ DoneWith(w)
  /\ UNCHANGED job

\* _fail_job: dead at the limit, or at once without a handler; another try else.
Failure(w) ==
  /\ InHand(w) /\ HoldsLease(w, hand[w])
  /\ \/ job' = Failed(job, hand[w])
     \/ job[hand[w]].attempts < MaxAttempts /\ job' = Retried(job, hand[w])
  /\ DoneWith(w)

\* _QueueTransitionError: the claim was taken away.
Refused(w) ==
  /\ InHand(w) /\ ~HoldsLease(w, hand[w])
  /\ phase' = [phase EXCEPT ![w] = "reporting"]
  /\ UNCHANGED <<job, task, hand, buffer, stop, faults>>

\* The database fails under _fail_job.
DispatchRaises(w) ==
  /\ InHand(w) /\ HoldsLease(w, hand[w])
  /\ Fault
  /\ phase' = [phase EXCEPT ![w] = "reporting"]
  /\ UNCHANGED <<job, task, hand, buffer, stop>>

Dispatch(w) == Handled(w) \/ Drained(w) \/ Failure(w) \/ Refused(w)

-----------------------------------------------------------------------------
\* Somebody enqueues: an ingest, a replay.
Arrive ==
  /\ \E j \in JobId : NextJobId(j) /\ job' = Enqueued(job, j, NoRef, NoRef)
  /\ UNCHANGED loopVars

Next ==
  \/ \E w \in Workers :
       CallStep(w) \/ TaskStep(w) \/ Dispatch(w) \/ DispatchRaises(w) \/ Crash(w)
  \/ Disturb
  \/ Arrive

Spec == Init /\ [][Next]_vars

\* The event loop runs every task that can run, timers fire, handlers end, and the
\* lease of a claim nobody keeps runs out.
Fairness ==
  /\ \A w \in Workers : WF_vars(CallStep(w) \/ Dispatch(w)) /\ WF_vars(TaskStep(w))
  /\ \A j \in JobId : WF_vars(Stranded(j) /\ LeaseExpires(j))

FairSpec == Spec /\ Fairness

-----------------------------------------------------------------------------
(* Properties.                                                             *)

\* Nothing is claimed for a call that has returned, failed or died: its claim task is
\* over before the call is.  (A call cancelled inside asyncio.wait leaves its claim
\* task behind.)
NoClaimAfterEnd ==
  [][\A j \in JobId : job[j] # job'[j] /\ job'[j].state = "claimed" /\ ~job'[j].expired =>
       phase[job'[j].worker] \notin {"returned", "failed", "dead"}]_vars
=============================================================================
