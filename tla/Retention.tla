----------------------------- MODULE Retention -----------------------------
(***************************************************************************)
(* Knocker.run_retention in several processes on one database: each call   *)
(* runs a Honker scheduler in a task of its own, one of which holds the    *)
(* scheduler lock and enqueues a job per interval, and a claim loop over   *)
(* the retention queue whose jobs are one retention pass each.             *)
(*                                                                         *)
(* The queue here is the retention queue.  Which rows a pass prunes is     *)
(* left out: the passes are counted (KnockerInbox has what prunes do).     *)
(* The scheduler is Honker's, so its lock and its intervals are modelled   *)
(* from the calls.                                                         *)
(***************************************************************************)
EXTENDS ClaimLoop

ASSUME RetentionAssumption ==
  Stoppable = Workers /\ BatchSize = 1 /\ IsFiniteSet(Workers)

VARIABLES
  sched,    \* call -> its scheduler task
  due,      \* an interval of the schedule has passed and no job was enqueued for it
  ticks,    \* intervals that have passed
  passes    \* retention passes committed, each with its audit rows

scheduleVars == <<sched, due, ticks, passes>>
vars == <<job, loopVars, scheduleVars>>

\* trying: runs without the lock, or sleeps after LockHeld.  leading: holds the lock.
\* raised: ended by an exception.  off: returned, cancelled, or gone with its process.
Scheduler == {"trying", "leading", "raised", "off"}
Alive(w) == sched[w] \in {"trying", "leading"}

Init ==
  /\ LoopInit
  /\ sched = [w \in Workers |-> "trying"]
  /\ due = FALSE
  /\ ticks = 0
  /\ passes = 0

-----------------------------------------------------------------------------
(* _run_retention_scheduler and Honker's Scheduler.run.                    *)

LeadOrGiveUp(w) ==   \* fault: LockHeld ends the task instead of being tried again
  /\ sched[w] = "trying"
  /\ sched' = [sched EXCEPT ![w] = IF \E v \in Workers : sched[v] = "leading"
                                     THEN "off" ELSE "leading"]
  /\ UNCHANGED <<job, loopVars, due, ticks, passes>>

\* scheduler.run takes the lock; while another process has it, LockHeld and a new try.
Lead(w) ==
  /\ sched[w] = "trying"
  /\ \A v \in Workers : sched[v] # "leading"
  /\ sched' = [sched EXCEPT ![w] = "leading"]
  /\ UNCHANGED <<job, loopVars, due, ticks, passes>>

\* The leader enqueues the due job, and the schedule moves on with it.
Fire(w) ==
  /\ sched[w] = "leading" /\ due
  /\ \E j \in JobId : NextJobId(j) /\ job' = Enqueued(job, j, NoRef, NoRef)
  /\ due' = FALSE
  /\ UNCHANGED <<loopVars, sched, ticks, passes>>

SchedulerStops(w) ==
  /\ stop[w] /\ Alive(w)
  /\ sched' = [sched EXCEPT ![w] = "off"]
  /\ UNCHANGED <<job, loopVars, due, ticks, passes>>

\* Any exception but LockHeld ends the task, and nobody looks at it until the end.
SchedulerDies(w) ==
  /\ Alive(w)
  /\ Fault
  /\ sched' = [sched EXCEPT ![w] = "raised"]
  /\ UNCHANGED <<job, phase, task, hand, buffer, stop, due, ticks, passes>>

\* An interval passes.  Jobs for intervals that pass before it is served are one.
Tick ==
  /\ ticks < MaxJobs
  /\ ticks' = ticks + 1
  /\ due' = TRUE
  /\ UNCHANGED <<job, loopVars, sched, passes>>

-----------------------------------------------------------------------------
(* _run_retention_job.                                                     *)

InHand(w) == phase[w] = "running" /\ hand[w] # NoRef

Raises(w) ==
  /\ phase' = [phase EXCEPT ![w] = "reporting"]
  /\ UNCHANGED <<task, hand, buffer, stop>>

PassUnchecked(w) ==   \* fault: the pass commits whether or not the ack was accepted
  /\ InHand(w)
  /\ passes' = passes + 1
  /\ job' = IF HoldsLease(w, hand[w]) THEN Acked(job, hand[w]) ELSE job
  /\ hand' = [hand EXCEPT ![w] = NoRef]
  /\ UNCHANGED <<phase, task, buffer, stop, faults, sched, due, ticks>>

\* knocker_run_retention_pass and the ack, in one transaction.
Pass(w) ==
  /\ InHand(w) /\ HoldsLease(w, hand[w])
  /\ passes' = passes + 1
  /\ job' = Acked(job, hand[w])
  /\ hand' = [hand EXCEPT ![w] = NoRef]
  /\ UNCHANGED <<phase, task, buffer, stop, faults, sched, due, ticks>>

\* The ack is refused: the pass is rolled back, and the fail() after it does nothing.
PassRefused(w) ==
  /\ InHand(w) /\ ~HoldsLease(w, hand[w])
  /\ Raises(w)
  /\ UNCHANGED <<job, faults, scheduleVars>>

PassGivenUp(w) ==     \* fault: the exception is not raised again
  /\ InHand(w) /\ HoldsLease(w, hand[w])
  /\ Fault
  /\ job' = Failed(job, hand[w])
  /\ hand' = [hand EXCEPT ![w] = NoRef]
  /\ UNCHANGED <<phase, task, buffer, stop, scheduleVars>>

\* The pass raises: rolled back, and the job is dead at its first failure, unless
\* fail() raises as well.
PassRaises(w) ==
  /\ InHand(w) /\ HoldsLease(w, hand[w])
  /\ Fault
  /\ job' \in {Failed(job, hand[w]), job}
  /\ Raises(w)
  /\ UNCHANGED scheduleVars

-----------------------------------------------------------------------------
FinallyWaitsFirst(w) ==   \* fault: waits for the scheduler task before it stops it
  /\ phase[w] \in {"returned", "failed", "cancelled"}
  /\ ~stop[w] /\ ~Alive(w)
  /\ stop' = [stop EXCEPT ![w] = TRUE]
  /\ UNCHANGED <<job, phase, task, hand, buffer, faults, scheduleVars>>

\* The finally block: stop_event.set(), scheduler_task.cancel() and the wait for it.
\* It comes after every end of the loop but the death of the process, and sets the
\* event of the caller.
Finally(w) ==
  /\ phase[w] \in {"returned", "failed", "cancelled"}
  /\ ~stop[w] \/ Alive(w)
  /\ stop' = [stop EXCEPT ![w] = TRUE]
  /\ sched' = [sched EXCEPT ![w] = "off"]
  /\ UNCHANGED <<job, phase, task, hand, buffer, faults, due, ticks, passes>>

\* A process that dies takes its scheduler along; the lock lapses.
ProcessDies(w) ==
  /\ Crash(w)
  /\ sched' = [sched EXCEPT ![w] = "off"]
  /\ UNCHANGED <<due, ticks, passes>>

CallRuns(w) == CallStep(w) /\ UNCHANGED scheduleVars
TaskRuns(w) == TaskStep(w) /\ UNCHANGED scheduleVars
Dispatch(w) == Pass(w) \/ PassRefused(w)
SchedulerRuns(w) == Lead(w) \/ Fire(w) \/ SchedulerStops(w)

Next ==
  \/ \E w \in Workers :
       \/ CallRuns(w) \/ TaskRuns(w) \/ Dispatch(w) \/ PassRaises(w)
       \/ SchedulerRuns(w) \/ SchedulerDies(w)
       \/ Finally(w) \/ ProcessDies(w)
  \/ Disturb /\ UNCHANGED scheduleVars
  \/ Tick

Spec == Init /\ [][Next]_vars

\* Every task that can run does, and the lease of a claim nobody keeps runs out.
\* Nothing makes intervals pass.
Fairness ==
  /\ \A w \in Workers :
       /\ WF_vars(CallRuns(w) \/ Dispatch(w)) /\ WF_vars(TaskRuns(w))
       /\ WF_vars(SchedulerRuns(w)) /\ WF_vars(Finally(w))
  /\ \A j \in JobId : WF_vars(Stranded(j) /\ LeaseExpires(j) /\ UNCHANGED scheduleVars)

FairSpec == Spec /\ Fairness

-----------------------------------------------------------------------------
(* Properties.                                                             *)

\* Every variable keeps its type.
RetentionTypeOK ==
  /\ LoopTypeOK
  /\ sched \in [Workers -> Scheduler]
  /\ due \in BOOLEAN /\ ticks \in 0..MaxJobs /\ passes \in Nat

\* "Multiple processes may run retention workers against the same SQLite file without
\* duplicate prune runs": however leadership moves, leases run out and processes die,
\* there are never more passes than intervals.
NoDuplicateRuns == passes <= ticks

\* A retention job that was given up is the doing of a call that ended with its
\* exception, or died with it: no pass is lost while every call goes on.
LostPassesAreSeen ==
  Cardinality({j \in JobId : job[j].state = "dead"})
    <= Cardinality({w \in Workers : phase[w] \in {"reporting", "failed", "cancelled", "dead"}})

\* A call that is over leaves no scheduler behind that would keep enqueuing jobs.
NoOrphanScheduler == \A w \in Workers : phase[w] \in Ended ~> ~Alive(w)

\* An interval that has passed gets its job while a call is up that was not told to stop
\* and whose scheduler task has not died of an exception: whoever had the lock.
IntervalsServed ==
  due ~> ~due \/ \A w \in Workers : phase[w] \in Ended \/ stop[w] \/ sched[w] = "raised"
=============================================================================
