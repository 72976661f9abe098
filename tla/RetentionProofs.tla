-------------------------- MODULE RetentionProofs --------------------------
(***************************************************************************)
(* Retention for every number of processes, jobs, intervals and faults:    *)
(* never more passes than intervals, and no pass lost unseen.              *)
(*                                                                         *)
(* Both are counted along the queue.  A pass stands for an acked job, an   *)
(* acked job for an enqueued one, and an enqueued one for an interval that *)
(* is not due any more; a dead job stands for a call that has ended.       *)
(***************************************************************************)
EXTENDS Retention, ClaimLoopProofs, FiniteSetTheorems

UsedJobs == {j \in JobId : job[j].state # "unused"}
AckedJobs == {j \in JobId : job[j].state = "acked"}
DeadJobs == {j \in JobId : job[j].state = "dead"}
Over == {"reporting", "failed", "cancelled", "dead"}
OverCalls == {w \in Workers : phase[w] \in Over}

Counted ==
  /\ passes <= Cardinality(AckedJobs)
  /\ Cardinality(UsedJobs) + (IF due THEN 1 ELSE 0) <= ticks
  /\ Cardinality(DeadJobs) <= Cardinality(OverCalls)

ScheduleTypeOK ==
  /\ sched \in [Workers -> Scheduler]
  /\ due \in BOOLEAN /\ ticks \in 0..MaxJobs /\ passes \in Nat

RetentionInv == LoopInv /\ ScheduleTypeOK /\ Counted

\* Sets of jobs and of workers can be counted.
LEMMA CountsAreNumbers ==
  /\ \A S \in SUBSET JobId : IsFiniteSet(S) /\ Cardinality(S) \in Nat
  /\ \A S \in SUBSET Workers : IsFiniteSet(S) /\ Cardinality(S) \in Nat
<1>1. IsFiniteSet(JobId)
  BY MaxJobsAssumption, FS_Interval DEF JobId
<1>2. IsFiniteSet(Workers)
  BY RetentionAssumption
<1>3. QED
  BY <1>1, <1>2, FS_Subset, FS_CardinalityType

\* A step that neither uses, acknowledges nor kills a job, and reopens no call.
Quiet ==
  /\ \A j \in JobId : \A s \in {"unused", "acked", "dead"} :
       job'[j].state = s <=> job[j].state = s
  /\ \A w \in Workers : phase[w] \in Over => phase'[w] \in Over

\* Where nothing is counted, the sums stay right.
LEMMA CountedIfQuiet ==
  ASSUME ScheduleTypeOK, Counted, Quiet, passes' = passes,
         (due' = due /\ ticks' = ticks) \/ Tick
  PROVE  Counted'
<1>1. UsedJobs' = UsedJobs /\ AckedJobs' = AckedJobs /\ DeadJobs' = DeadJobs
  BY DEF Quiet, UsedJobs, AckedJobs, DeadJobs
<1>2. OverCalls \subseteq OverCalls' /\ OverCalls' \subseteq Workers
  BY DEF Quiet, OverCalls
<1>3. Cardinality(OverCalls) <= Cardinality(OverCalls')
  BY <1>2, CountsAreNumbers, FS_Subset
<1>4. /\ Cardinality(UsedJobs) \in Nat /\ Cardinality(DeadJobs) \in Nat
      /\ Cardinality(OverCalls) \in Nat /\ Cardinality(OverCalls') \in Nat
  BY <1>2, CountsAreNumbers DEF UsedJobs, DeadJobs, OverCalls
<1>5. Cardinality(UsedJobs) + (IF due' THEN 1 ELSE 0) <= ticks'
  BY <1>4 DEF ScheduleTypeOK, Counted, Tick
<1>6. QED
  BY <1>1, <1>3, <1>4, <1>5 DEF Counted

-----------------------------------------------------------------------------
(* The steps that count.                                                   *)

\* A job enqueued on schedule keeps the invariant,
LEMMA FireStep ==
  ASSUME RetentionInv, NEW w \in Workers, Fire(w)
  PROVE  RetentionInv'
<1>1. PICK j \in JobId : NextJobId(j) /\ job' = Enqueued(job, j, NoRef, NoRef)
  BY DEF Fire
<1>2. /\ job[j].state = "unused" /\ job'[j].state = "pending"
      /\ \A i \in JobId \ {j} : job'[i] = job[i]
  BY <1>1, EnqueuedRow DEF NextJobId, RetentionInv, LoopInv, LoopTypeOK
<1>3. UsedJobs' = UsedJobs \cup {j} /\ AckedJobs' = AckedJobs /\ DeadJobs' = DeadJobs
  BY <1>2 DEF UsedJobs, AckedJobs, DeadJobs
<1>4. Cardinality(UsedJobs') = Cardinality(UsedJobs) + 1 /\ Cardinality(UsedJobs) \in Nat
  <2>1. j \notin UsedJobs /\ UsedJobs \subseteq JobId
    BY <1>2 DEF UsedJobs
  <2>2. QED
    BY <1>3, <2>1, CountsAreNumbers, FS_AddElement
<1>5. due /\ ~due' /\ UNCHANGED <<phase, ticks, passes, sched>>
  BY DEF Fire, loopVars
<1>6. OverCalls' = OverCalls
  BY <1>5 DEF OverCalls
<1>7. Counted'
  BY <1>3, <1>4, <1>5, <1>6 DEF RetentionInv, Counted, ScheduleTypeOK
<1>8. LoopInv'
  BY <1>1, LoopEnqueues DEF Fire, RetentionInv
<1>9. ScheduleTypeOK'
  BY <1>5 DEF Fire, RetentionInv, ScheduleTypeOK
<1>10. QED
  BY <1>7, <1>8, <1>9 DEF RetentionInv

\* and so does a pass.
LEMMA PassStep ==
  ASSUME RetentionInv, NEW w \in Workers, Pass(w)
  PROVE  RetentionInv'
<1>a. /\ phase[w] = "running" /\ hand[w] # NoRef /\ hand[w] \in JobId
      /\ job \in [JobId -> JobRow] /\ hand \in [Workers -> JobId \cup {NoRef}]
      /\ phase \in [Workers -> Phase] /\ faults \in Nat
  BY DEF Pass, InHand, RetentionInv, LoopInv, LoopTypeOK
<1>1. Retired(job[hand[w]], "acked") \in JobRow /\ Retired(job[hand[w]], "acked").state = "acked"
  BY <1>a, RetiredRow DEF GoneState
<1>2. /\ job' \in [JobId -> JobRow] /\ job'[hand[w]].state = "acked"
      /\ \A i \in JobId \ {hand[w]} : job'[i] = job[i]
  BY <1>a, <1>1 DEF Pass, Acked
<1>3. /\ job[hand[w]].state = "claimed"
      /\ UNCHANGED <<phase, due, ticks, sched>> /\ passes' = passes + 1
  BY DEF Pass, HoldsLease
<1>4. /\ UsedJobs' = UsedJobs /\ AckedJobs' = AckedJobs \cup {hand[w]}
      /\ DeadJobs' = DeadJobs /\ OverCalls' = OverCalls
  BY <1>a, <1>2, <1>3 DEF UsedJobs, AckedJobs, DeadJobs, OverCalls
<1>5. Cardinality(AckedJobs') = Cardinality(AckedJobs) + 1 /\ Cardinality(AckedJobs) \in Nat
  <2>1. hand[w] \notin AckedJobs /\ AckedJobs \subseteq JobId
    BY <1>3 DEF AckedJobs
  <2>2. QED
    BY <1>4, <2>1, CountsAreNumbers, FS_AddElement
<1>6. Counted'
  BY <1>3, <1>4, <1>5 DEF RetentionInv, Counted, ScheduleTypeOK
<1>7. LoopInv'
  <2>1. [hand EXCEPT ![w] = NoRef] # hand /\ [phase EXCEPT ![w] = "running"] = phase
    BY <1>a
  <2>2. QED
    BY <1>a, <1>2, <2>1, LoopSettles DEF Pass, RetentionInv
<1>8. ScheduleTypeOK'
  BY <1>3 DEF RetentionInv, ScheduleTypeOK
<1>9. QED
  BY <1>6, <1>7, <1>8 DEF RetentionInv

\* A pass that raises kills at most its job, and ends its call.
LEMMA PassEnds ==
  ASSUME RetentionInv, NEW w \in Workers, PassRaises(w) \/ PassRefused(w)
  PROVE  RetentionInv'
<1>a. /\ phase[w] = "running" /\ hand[w] # NoRef /\ hand[w] \in JobId
      /\ job \in [JobId -> JobRow] /\ hand \in [Workers -> JobId \cup {NoRef}]
      /\ phase \in [Workers -> Phase] /\ faults \in Nat
  BY DEF PassRaises, PassRefused, InHand, RetentionInv, LoopInv, LoopTypeOK
<1>b. /\ phase' = [phase EXCEPT ![w] = "reporting"] /\ UNCHANGED <<task, hand, buffer, stop>>
      /\ UNCHANGED scheduleVars /\ faults' \in Nat
  BY <1>a DEF PassRaises, PassRefused, Raises, Fault
<1>c. w \notin OverCalls /\ OverCalls' = OverCalls \cup {w} /\ OverCalls \subseteq Workers
  BY <1>a, <1>b DEF OverCalls, Over
<1>d. /\ Cardinality(OverCalls') = Cardinality(OverCalls) + 1
      /\ Cardinality(OverCalls) \in Nat /\ Cardinality(DeadJobs) \in Nat
  BY <1>c, CountsAreNumbers, FS_AddElement DEF DeadJobs
<1>e. ScheduleTypeOK'
  BY <1>b DEF RetentionInv, ScheduleTypeOK, scheduleVars
<1>1. CASE job' = job
  <2>1. UsedJobs' = UsedJobs /\ AckedJobs' = AckedJobs /\ DeadJobs' = DeadJobs
    BY <1>1 DEF UsedJobs, AckedJobs, DeadJobs
  <2>2. Counted'
    BY <1>b, <1>d, <2>1 DEF RetentionInv, Counted, scheduleVars
  <2>3. LoopInv'
    BY <1>1, <1>a, <1>b, LoopSettles DEF RetentionInv
  <2>4. QED
    BY <1>e, <2>2, <2>3 DEF RetentionInv
<1>2. CASE job' = Failed(job, hand[w]) /\ HoldsLease(w, hand[w])
  <2>1. Retired(job[hand[w]], "dead") \in JobRow /\ Retired(job[hand[w]], "dead").state = "dead"
    BY <1>a, RetiredRow DEF GoneState
  <2>2. /\ job' \in [JobId -> JobRow] /\ job'[hand[w]].state = "dead"
        /\ \A i \in JobId \ {hand[w]} : job'[i] = job[i]
    BY <1>2, <1>a, <2>1 DEF Failed
  <2>3. job[hand[w]].state = "claimed"
    BY <1>2 DEF HoldsLease
  <2>4. /\ UsedJobs' = UsedJobs /\ AckedJobs' = AckedJobs /\ DeadJobs' = DeadJobs \cup {hand[w]}
        /\ hand[w] \notin DeadJobs
    BY <1>a, <2>2, <2>3 DEF UsedJobs, AckedJobs, DeadJobs
  <2>5. Cardinality(DeadJobs') = Cardinality(DeadJobs) + 1
    BY <2>4, CountsAreNumbers, FS_AddElement DEF DeadJobs
  <2>6. Counted'
    BY <1>b, <1>d, <2>4, <2>5 DEF RetentionInv, Counted, scheduleVars
  <2>7. LoopInv'
    BY <1>a, <1>b, <2>2, LoopSettles DEF RetentionInv
  <2>8. QED
    BY <1>e, <2>6, <2>7 DEF RetentionInv
<1>3. QED
  BY <1>1, <1>2 DEF PassRaises, PassRefused

-----------------------------------------------------------------------------
(* The steps that do not.                                                  *)

\* Leaving run_retention runs nothing,
LEMMA LeavingIsQuiet ==
  ASSUME LoopInv, NEW w \in Workers, NEW how, NEW t, Leaves(w, how, t), UNCHANGED job,
         phase[w] \in Over => how \in Over
  PROVE  Quiet
BY DEF Leaves, Quiet, LoopInv, LoopTypeOK

\* neither does calling it,
LEMMA CallIsQuiet ==
  ASSUME LoopInv, NEW w \in Workers, CallStep(w) \/ Crash(w) \/ Cancel(w)
  PROVE  Quiet
<1>1. UNCHANGED job
  BY DEF CallStep, Crash, Cancel, Return, TakeBuffered, StartWaiting, TakeClaim, ClaimFailed,
         HonourStop, ClaimCancelled, Report
<1>2. CASE TakeBuffered(w)
  BY <1>1, <1>2 DEF TakeBuffered, Quiet
<1>3. CASE StartWaiting(w) \/ TakeClaim(w)
  <2>1. phase[w] \notin Over /\ \A v \in Workers \ {w} : phase'[v] = phase[v]
    BY <1>3 DEF StartWaiting, TakeClaim, AtHead, Over, LoopInv, LoopTypeOK
  <2>2. QED
    BY <1>1, <2>1 DEF Quiet
<1>4. CASE Return(w) \/ HonourStop(w) \/ ClaimCancelled(w)
  <2>1. phase[w] \notin Over
    BY <1>4 DEF Return, HonourStop, ClaimCancelled, AtHead, StopWins, Over
  <2>2. QED
    BY <1>1, <1>4, <2>1, LeavingIsQuiet DEF Return, HonourStop, ClaimCancelled
<1>5. CASE ClaimFailed(w) \/ Report(w)
  BY <1>1, <1>5, LeavingIsQuiet DEF ClaimFailed, Report, Over
<1>6. CASE Crash(w) \/ Cancel(w)
  BY <1>1, <1>6, LeavingIsQuiet DEF Crash, Cancel, Over
<1>7. QED
  BY <1>2, <1>3, <1>4, <1>5, <1>6 DEF CallStep

\* nor what its tasks do between passes,
LEMMA TaskIsQuiet ==
  ASSUME LoopInv, NEW w \in Workers, TaskStep(w)
  PROVE  Quiet
<1>1. CASE ClaimSome(w)
  <2>1. PICK S \in SUBSET {j \in JobId : Claimable(j)} :
          job' = [j \in JobId |-> IF j \in S THEN Claimed(job[j], w) ELSE job[j]]
    BY <1>1 DEF ClaimSome
  <2>2. \A j \in S : job'[j].state = "claimed" /\ job[j].state \in {"pending", "claimed"}
    BY <2>1, ClaimedRow DEF Claimable, LoopInv, LoopTypeOK
  <2>3. \A j \in JobId \ S : job'[j] = job[j]
    BY <2>1
  <2>4. QED
    BY <1>1, <2>2, <2>3 DEF ClaimSome, Quiet
<1>2. CASE ClaimNone(w) \/ Wake(w)
  BY <1>2 DEF ClaimNone, Wake, Quiet
<1>3. QED
  BY <1>1, <1>2 DEF TaskStep

\* nor what happens around it.
LEMMA DisturbanceIsQuiet ==
  ASSUME LoopInv, Disturb
  PROVE  Quiet
<1>1. ASSUME NEW w \in Workers, SetStop(w) \/ ClaimRaises(w)
      PROVE  Quiet
  BY <1>1 DEF SetStop, ClaimRaises, Quiet
<1>2. ASSUME NEW w \in Workers, Cancel(w)
      PROVE  Quiet
  BY <1>2, CallIsQuiet
<1>3. ASSUME NEW j \in JobId, LeaseExpires(j)
      PROVE  Quiet
  <2>1. job'[j].state = job[j].state /\ \A i \in JobId \ {j} : job'[i] = job[i]
    BY <1>3 DEF LeaseExpires, LoopInv, LoopTypeOK, JobRow
  <2>2. QED
    BY <1>3, <2>1 DEF LeaseExpires, Quiet
<1>4. QED
  BY <1>1, <1>2, <1>3 DEF Disturb

\* A quiet step keeps the invariant when it keeps the loops' and the types.
LEMMA QuietKeeps ==
  ASSUME RetentionInv, Quiet, LoopInv', UNCHANGED <<due, ticks, passes>>,
         sched' \in [Workers -> Scheduler]
  PROVE  RetentionInv'
<1>1. ScheduleTypeOK'
  BY DEF RetentionInv, ScheduleTypeOK
<1>2. QED
  BY <1>1, CountedIfQuiet DEF RetentionInv

\* A step of the scheduler keeps the invariant,
LEMMA SchedulerStep ==
  ASSUME RetentionInv,
         NEW w \in Workers, SchedulerRuns(w) \/ SchedulerDies(w) \/ Finally(w)
  PROVE  RetentionInv'
<1>a. /\ sched \in [Workers -> Scheduler] /\ stop \in [Workers -> BOOLEAN] /\ faults \in Nat
      /\ job \in [JobId -> JobRow]
      /\ {"leading", "off", "raised"} \subseteq Scheduler
  BY DEF RetentionInv, ScheduleTypeOK, LoopInv, LoopTypeOK, Scheduler
<1>1. CASE Fire(w)
  BY <1>1, FireStep
<1>2. CASE Lead(w) \/ SchedulerStops(w) \/ SchedulerDies(w) \/ Finally(w)
  <2>1. /\ UNCHANGED <<job, phase, task, hand, buffer, due, ticks, passes>>
        /\ stop' \in [Workers -> BOOLEAN] /\ faults' \in Nat
        /\ sched' \in [Workers -> Scheduler]
    <3>1. CASE Lead(w) \/ SchedulerStops(w)
      BY <1>a, <3>1 DEF Lead, SchedulerStops, loopVars
    <3>2. CASE SchedulerDies(w)
      BY <1>a, <3>2 DEF SchedulerDies, Fault
    <3>3. CASE Finally(w)
      BY <1>a, <3>3 DEF Finally
    <3>4. QED
      BY <1>2, <3>1, <3>2, <3>3
  <2>2. Quiet
    BY <2>1 DEF Quiet
  <2>3. LoopInv'
    BY <1>a, <2>1, LoopStays DEF RetentionInv
  <2>4. QED
    BY <2>1, <2>2, <2>3, QuietKeeps
<1>3. QED
  BY <1>1, <1>2 DEF SchedulerRuns

\* and so does the clock.
LEMMA TickStep ==
  ASSUME RetentionInv, Tick
  PROVE  RetentionInv'
<1>1. UNCHANGED <<job, loopVars, sched, passes>> /\ due' /\ ticks < MaxJobs /\ ticks' = ticks + 1
  BY DEF Tick
<1>2. LoopInv'
  BY <1>1, LoopUnchanged DEF RetentionInv
<1>3. ScheduleTypeOK'
  BY <1>1, MaxJobsAssumption DEF Tick, RetentionInv, ScheduleTypeOK
<1>4. Counted'
  <2>1. Quiet
    BY <1>1 DEF Quiet, loopVars
  <2>2. QED
    BY <1>1, <2>1, CountedIfQuiet DEF RetentionInv
<1>5. QED
  BY <1>2, <1>3, <1>4 DEF RetentionInv

\* The invariant holds at first.
LEMMA RetentionStart ==
  ASSUME Init
  PROVE  RetentionInv
<1>1. LoopInv
  BY LoopStart DEF Init
<1>2. ScheduleTypeOK
  <2>1. 0 \in 0..MaxJobs /\ 0 \in Nat /\ "trying" \in Scheduler
    BY MaxJobsAssumption DEF Scheduler
  <2>2. QED
    BY <2>1 DEF Init, ScheduleTypeOK
<1>3. UsedJobs = {} /\ AckedJobs = {} /\ DeadJobs = {} /\ OverCalls = {}
  BY DEF Init, LoopInit, QueueInit, UnusedJob, UsedJobs, AckedJobs, DeadJobs, OverCalls, Over
<1>4. Counted
  BY <1>3, FS_EmptySet DEF Init, Counted
<1>5. QED
  BY <1>1, <1>2, <1>4 DEF RetentionInv

\* Every step keeps it.
LEMMA RetentionStep ==
  ASSUME RetentionInv, [Next]_vars
  PROVE  RetentionInv'
<1>a. LoopInv /\ sched \in [Workers -> Scheduler] /\ "off" \in Scheduler
  BY DEF RetentionInv, ScheduleTypeOK, Scheduler
<1>1. ASSUME NEW w \in Workers, CallRuns(w) \/ TaskRuns(w)
      PROVE  RetentionInv'
  <2>1. Quiet /\ LoopInv'
    BY <1>1, <1>a, CallIsQuiet, TaskIsQuiet, LoopCall, LoopTask DEF CallRuns, TaskRuns
  <2>2. UNCHANGED <<due, ticks, passes, sched>>
    BY <1>1 DEF CallRuns, TaskRuns, scheduleVars
  <2>3. QED
    BY <1>a, <2>1, <2>2, QuietKeeps
<1>2. ASSUME NEW w \in Workers, Dispatch(w) \/ PassRaises(w)
      PROVE  RetentionInv'
  BY <1>2, PassStep, PassEnds DEF Dispatch
<1>3. ASSUME NEW w \in Workers, SchedulerRuns(w) \/ SchedulerDies(w) \/ Finally(w)
      PROVE  RetentionInv'
  BY <1>3, SchedulerStep
<1>4. ASSUME NEW w \in Workers, ProcessDies(w)
      PROVE  RetentionInv'
  <2>1. Crash(w) /\ sched' = [sched EXCEPT ![w] = "off"] /\ UNCHANGED <<due, ticks, passes>>
    BY <1>4 DEF ProcessDies
  <2>2. Quiet /\ LoopInv' /\ sched' \in [Workers -> Scheduler]
    BY <1>a, <2>1, CallIsQuiet, LoopCrash
  <2>3. QED
    BY <2>1, <2>2, QuietKeeps
<1>5. CASE Disturb /\ UNCHANGED scheduleVars
  <2>1. Quiet /\ LoopInv'
    BY <1>5, <1>a, DisturbanceIsQuiet, LoopDisturbed
  <2>2. QED
    BY <1>5, <1>a, <2>1, QuietKeeps DEF scheduleVars
<1>6. CASE Tick
  BY <1>6, TickStep
<1>7. CASE UNCHANGED vars
  <2>1. Quiet /\ LoopInv'
    BY <1>7, <1>a, LoopUnchanged DEF vars, loopVars, Quiet
  <2>2. QED
    BY <1>7, <1>a, <2>1, QuietKeeps DEF vars, scheduleVars
<1>8. QED
  BY <1>1, <1>2, <1>3, <1>4, <1>5, <1>6, <1>7 DEF Next

\* It holds throughout.
LEMMA RetentionInvariant == Spec => []RetentionInv
<1>1. Init => RetentionInv
  BY RetentionStart
<1>2. RetentionInv /\ [Next]_vars => RetentionInv'
  BY RetentionStep
<1>3. QED
  BY <1>1, <1>2, PTL DEF Spec

-----------------------------------------------------------------------------
\* run_retention: types, in every process.
THEOREM RetentionTypes == Spec => []RetentionTypeOK
<1>1. RetentionInv => RetentionTypeOK
  BY DEF RetentionInv, LoopInv, ScheduleTypeOK, RetentionTypeOK
<1>2. QED
  BY <1>1, RetentionInvariant, PTL

\* However many processes run it: never more passes than intervals.
THEOREM NoPassTwice == Spec => []NoDuplicateRuns
<1>1. ASSUME RetentionInv
      PROVE  NoDuplicateRuns
  <2>1. AckedJobs \subseteq UsedJobs /\ UsedJobs \subseteq JobId
    BY DEF AckedJobs, UsedJobs
  <2>2. /\ Cardinality(AckedJobs) <= Cardinality(UsedJobs)
        /\ Cardinality(AckedJobs) \in Nat /\ Cardinality(UsedJobs) \in Nat
    BY <2>1, CountsAreNumbers, FS_Subset
  <2>3. QED
    BY <1>1, <2>2 DEF RetentionInv, ScheduleTypeOK, Counted, NoDuplicateRuns
<1>2. QED
  BY <1>1, RetentionInvariant, PTL

\* A retention job is given up only by a call that ends with the exception.
THEOREM NoPassLostUnseen == Spec => []LostPassesAreSeen
<1>1. RetentionInv => LostPassesAreSeen
  BY DEF RetentionInv, Counted, LostPassesAreSeen, DeadJobs, OverCalls, Over
<1>2. QED
  BY <1>1, RetentionInvariant, PTL
=============================================================================
