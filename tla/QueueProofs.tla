---------------------------- MODULE QueueProofs ----------------------------
(***************************************************************************)
(* The Python worker and the inbox it serves, for every number of workers, *)
(* events, deliveries, jobs, attempts and faults.                          *)
(*                                                                         *)
(* Types; the agreement of queue and inbox: an event has at most one live  *)
(* job, has one while it is unfinished, and has none once it is settled;   *)
(* and the links between deliveries, events and jobs.                      *)
(*                                                                         *)
(* None of the three parts of the agreement is inductive alone.  That      *)
(* acking a job leaves its event without a live one needs OneLiveJob; that *)
(* a fresh job is the only one needs FinishedIsNotQueued for an id not     *)
(* used before; and a worker may settle an event because a live job's      *)
(* event exists.  Their conjunction with TypeOK is inductive.              *)
(*                                                                         *)
(* DedupeConverges rests on two facts: a linked delivery agrees with its   *)
(* event on endpoint and key, and stored events differ in one of the two   *)
(* (OneEventPerKey, what the unique index is for).  ReplayTargetStored     *)
(* needs the agreement of queue and inbox: a prune may take a delivery     *)
(* because it takes the live job that names it as well.                    *)
(***************************************************************************)
EXTENDS WorkerProperties, InboxLemmas

-----------------------------------------------------------------------------
(* Type correctness.                                                       *)

\* The empty database and idle workers have their types (bootstrap, Knocker.__init__).
LEMMA TypeInit == Init => TypeOK
<1>1. SUFFICES ASSUME Init PROVE TypeOK
  OBVIOUS
<1>2. QueueTypeOK /\ InboxTypeOK
  BY <1>1, TablesInit DEF Init, TablesOK
<1>3. WorkerTypeOK /\ \A w \in Workers : cur[w] = NoClaim <=> pc[w] \in {"idle", "stopped"}
  BY <1>1 DEF Init, WorkerInit, WorkerTypeOK, WorkerPc, Claim, NoClaim
<1>4. QED
  BY <1>2, <1>3 DEF TypeOK

\* What a dispatch may read of a claim it holds: the job exists, and so do its attempts.
LEMMA ClaimTypes ==
  ASSUME TypeOK, NEW w \in Workers
  PROVE  /\ \A c \in buffer[w] : c \in Claim /\ c # NoClaim
         /\ pc[w] \in {"handling", "raised"} => cur[w] \in Claim
         /\ \A c \in Claim : c.job \in JobId /\ c.attempts \in Nat /\ EventOf(c) \in Nat
BY DEF TypeOK, WorkerTypeOK, QueueTypeOK, Claim, NoClaim, JobId, NoRef, EventOf, JobRow

\* What a worker writes when a dispatch ends has its type.
LEMMA DispatchTypes ==
  ASSUME TypeOK, NEW c \in Claim
  PROVE  /\ Acked(job, c.job) \in [JobId -> JobRow]
         /\ Failed(job, c.job) \in [JobId -> JobRow]
         /\ Retried(job, c.job) \in [JobId -> JobRow]
         /\ [event EXCEPT ![EventOf(c)] = MarkHandled(MarkProcessing(@, c.attempts))]
              \in [EventId -> EventRow]
         /\ \A t \in BOOLEAN : [event EXCEPT ![EventOf(c)] = MarkFailed(@, c.attempts, t)]
              \in [EventId -> EventRow]
         /\ \A o \in Outcome : WithAttempt(EventOf(c), o) \in [EventId -> [Outcome -> Nat]]
<1>1. c.job \in JobId /\ c.attempts \in Nat /\ TablesOK
  BY DEF Claim, TypeOK, TablesOK
<1>2. QED
  BY <1>1, OutcomeTypes

\* The worker's own variables, and how its claim goes with where it is.
WorkerOK ==
  WorkerTypeOK /\ \A w \in Workers : cur[w] = NoClaim <=> pc[w] \in {"idle", "stopped"}

\* Ending the loop leaves the worker's variables with their types (run_worker's except).
LEMMA StopTypes ==
  ASSUME WorkerOK, NEW w \in Workers, Stops(w), faults' \in Nat
  PROVE  WorkerOK'
BY DEF WorkerOK, WorkerTypeOK, Stops, WorkerPc

\* Going back for the next claim leaves the worker's variables with their types.
LEMMA IdleTypes ==
  ASSUME WorkerOK, NEW w \in Workers, UNCHANGED <<buffer, faults>>,
         pc' = [pc EXCEPT ![w] = "idle"], cur' = [cur EXCEPT ![w] = NoClaim]
  PROVE  WorkerOK'
BY DEF WorkerOK, WorkerTypeOK, WorkerPc

\* A worker's step keeps all types, one case per action of run_worker and _dispatch_job.
LEMMA StepTypes ==
  ASSUME TypeOK, NEW w \in Workers, Step(w) \/ Fault(w)
  PROVE  TypeOK'
<1> USE DEF TypeOK
<1>a. TablesOK /\ WorkerOK
  BY DEF TablesOK, WorkerOK
<1>b. SUFFICES TablesOK' /\ WorkerOK'
  BY DEF TablesOK, WorkerOK
<1>c. UNCHANGED inboxVars => TablesOK'
  BY <1>a DEF inboxVars, TablesOK, QueueTypeOK, InboxTypeOK
<1>1. CASE ClaimBatch(w)
  <2>1. PICK S \in SUBSET JobId :
          /\ job' = [j \in JobId |-> IF j \in S THEN Claimed(job[j], w) ELSE job[j]]
          /\ buffer' = [buffer EXCEPT ![w] =
                          {[job |-> j, attempts |-> job[j].attempts + 1] : j \in S}]
    BY <1>1 DEF ClaimBatch
  <2>2. \A row \in JobRow : Claimed(row, w) \in JobRow
    BY JobRowTypes DEF GoneState
  <2>3. QueueTypeOK'
    BY <2>1, <2>2 DEF QueueTypeOK
  <2>4. \A j \in S : job[j].attempts + 1 \in Nat
    BY DEF QueueTypeOK, JobRow
  <2>5. {[job |-> j, attempts |-> job[j].attempts + 1] : j \in S} \in SUBSET Claim
    BY <2>4 DEF Claim
  <2>6. WorkerOK'
    BY <1>1, <1>a, <2>1, <2>5 DEF ClaimBatch, WorkerOK, WorkerTypeOK
  <2>7. QED
    BY <1>1, <1>a, <2>3, <2>6 DEF ClaimBatch, TablesOK, InboxTypeOK
<1>2. ASSUME NEW c \in buffer[w], Drain(w, c)
      PROVE  TablesOK' /\ WorkerOK'
  <2>1. job' \in [JobId -> JobRow]
    BY <1>2, ClaimTypes, DispatchTypes DEF Drain, QueueTypeOK
  <2>2. WorkerOK'
    BY <1>2, <1>a DEF Drain, WorkerOK, WorkerTypeOK
  <2>3. QED
    BY <1>2, <1>a, <2>1, <2>2 DEF Drain, TablesOK, QueueTypeOK, InboxTypeOK
<1>3. ASSUME NEW c \in buffer[w], DeadLetter(w, c)
      PROVE  TablesOK' /\ WorkerOK'
  <2>1. c \in Claim
    BY ClaimTypes
  <2>2. /\ job' \in [JobId -> JobRow]
        /\ event' \in [EventId -> EventRow]
        /\ attempts' \in [EventId -> [Outcome -> Nat]]
    BY <1>3, <2>1, DispatchTypes DEF DeadLetter, Outcome
  <2>3. WorkerOK'
    BY <1>3, <1>a DEF DeadLetter, WorkerOK, WorkerTypeOK
  <2>4. QED
    BY <1>3, <1>a, <2>2, <2>3 DEF DeadLetter, TablesOK, QueueTypeOK, InboxTypeOK
<1>4. ASSUME NEW c \in buffer[w], DeadLetterRefused(w, c)
      PROVE  TablesOK' /\ WorkerOK'
  BY <1>4, <1>a, <1>c, StopTypes DEF DeadLetterRefused, WorkerTypeOK
<1>5. ASSUME NEW c \in buffer[w], BeginHandling(w, c)
      PROVE  TablesOK' /\ WorkerOK'
  <2>1. c \in Claim /\ c # NoClaim
    BY ClaimTypes
  <2>2. WorkerOK'
    BY <1>5, <1>a, <2>1 DEF BeginHandling, WorkerOK, WorkerTypeOK, WorkerPc
  <2>3. QED
    BY <1>5, <1>c, <2>2 DEF BeginHandling
<1>6. CASE CommitHandled(w)
  <2>1. cur[w] \in Claim
    BY <1>6, ClaimTypes DEF CommitHandled, HandlerReturns
  <2>2. /\ job' \in [JobId -> JobRow]
        /\ event' \in [EventId -> EventRow]
        /\ attempts' \in [EventId -> [Outcome -> Nat]]
    BY <1>6, <2>1, DispatchTypes DEF CommitHandled, Outcome
  <2>3. WorkerOK'
    BY <1>6, <1>a, IdleTypes DEF CommitHandled
  <2>4. QED
    BY <1>6, <1>a, <2>2, <2>3 DEF CommitHandled, TablesOK, QueueTypeOK, InboxTypeOK
<1>7. CASE AckRefused(w)
  BY <1>7, <1>a, <1>c, StopTypes DEF AckRefused, WorkerTypeOK
<1>8. CASE HandlerRaises(w)
  BY <1>8, <1>a, <1>c DEF HandlerRaises, WorkerOK, WorkerTypeOK, WorkerPc
<1>9. CASE FailJob(w)
  <2>1. cur[w] \in Claim
    BY <1>9, ClaimTypes DEF FailJob
  <2>2. Terminal(cur[w]) \in BOOLEAN
    BY DEF Terminal
  <2>3. FailedOutcome(Terminal(cur[w])) \in Outcome
    BY DEF FailedOutcome, Outcome
  <2>4. event' \in [EventId -> EventRow]
    BY <1>9, <2>1, <2>2, DispatchTypes DEF FailJob
  <2>5. attempts' \in [EventId -> [Outcome -> Nat]]
    BY <1>9, <2>1, <2>3, DispatchTypes DEF FailJob
  <2>6. job' \in [JobId -> JobRow]
    BY <1>9, <2>1, DispatchTypes DEF FailJob
  <2>7. WorkerOK'
    BY <1>9, <1>a, IdleTypes DEF FailJob
  <2>8. QED
    BY <1>9, <1>a, <2>4, <2>5, <2>6, <2>7 DEF FailJob, TablesOK, QueueTypeOK, InboxTypeOK
<1>10. CASE FailRefused(w)
  BY <1>10, <1>a, <1>c, StopTypes DEF FailRefused, WorkerTypeOK
<1>11. CASE Restart(w)
  BY <1>11, <1>a, <1>c DEF Restart, WorkerOK, WorkerTypeOK, WorkerPc
<1>12. CASE Crash(w) \/ LoopErrs(w)
  <2>1. faults' \in Nat
    BY <1>12 DEF Crash, LoopErrs, WorkerTypeOK
  <2>2. QED
    BY <1>12, <1>a, <1>c, <2>1, StopTypes DEF Crash, LoopErrs
<1>13. CASE DispatchErrs(w)
  <2>1. PICK c \in buffer[w] : /\ cur' = [cur EXCEPT ![w] = c]
                              /\ buffer' = [buffer EXCEPT ![w] = @ \ {c}]
    BY <1>13 DEF DispatchErrs
  <2>2. c \in Claim /\ c # NoClaim
    BY ClaimTypes
  <2>3. WorkerOK'
    BY <1>13, <1>a, <2>1, <2>2 DEF DispatchErrs, WorkerOK, WorkerTypeOK, WorkerPc
  <2>4. QED
    BY <1>13, <1>c, <2>3 DEF DispatchErrs
<1>14. QED
  BY <1>1, <1>2, <1>3, <1>4, <1>5, <1>6, <1>7, <1>8, <1>9, <1>10, <1>11, <1>12, <1>13
     DEF Step, Fault, Dispatch

\* Every step keeps all types.
LEMMA TypeStep ==
  ASSUME TypeOK, [Next]_vars
  PROVE  TypeOK'
<1>a. TypeOK <=> TablesOK /\ WorkerOK
  BY DEF TypeOK, TablesOK, WorkerOK
<1>1. CASE Operator
  <2>1. TablesOK'
    BY <1>1, <1>a, OperatorTypes DEF Operator
  <2>2. WorkerOK'
    BY <1>1, <1>a DEF Operator, workerVars, WorkerOK, WorkerTypeOK
  <2>3. QED
    BY <2>1, <2>2 DEF TypeOK, TablesOK, WorkerOK
<1>2. CASE \E w \in Workers : Step(w) \/ Fault(w)
  BY <1>2, StepTypes
<1>3. ASSUME NEW j \in JobId, LeaseExpires(j)
      PROVE  TypeOK'
  <2>1. QueueTypeOK'
    BY <1>3 DEF LeaseExpires, TypeOK, QueueTypeOK, JobRow
  <2>2. faults' \in Nat
    BY <1>3 DEF LeaseExpires, TypeOK, WorkerTypeOK
  <2>3. QED
    BY <1>3, <2>1, <2>2 DEF LeaseExpires, TypeOK, InboxTypeOK, WorkerTypeOK
<1>4. CASE UNCHANGED vars
  BY <1>4 DEF vars, TypeOK, QueueTypeOK, InboxTypeOK, WorkerTypeOK
<1>5. QED
  BY <1>1, <1>2, <1>3, <1>4 DEF Next

\* Every variable keeps its type, and a worker has a current claim exactly between the
\* start of a dispatch and its end.
THEOREM TypeCorrect == Spec => []TypeOK
<1>1. Init => TypeOK
  BY TypeInit
<1>2. TypeOK /\ [Next]_vars => TypeOK'
  BY TypeStep
<1>3. QED
  BY <1>1, <1>2, PTL DEF Spec

-----------------------------------------------------------------------------
(* Queue and inbox.                                                        *)

Agreement == TypeOK /\ QueueAgrees

\* The empty inbox agrees with the empty queue.
LEMMA AgreementInit == Init => Agreement
BY TypeInit, AgreesInit DEF Agreement, Init

\* What the lemmas on the inbox ask for.
LEMMA AgreementOfTables == Agreement => TablesAgree
BY DEF Agreement, TypeOK, TablesAgree, TablesOK

\* What is stored is no absent row: a live job names one that is.
LEMMA LiveJobsOfStored ==
  ASSUME Agreement, NEW j \in JobId, Live(j)
  PROVE  job[j].event \in EventId /\ Exists(job[j].event)
BY LiveIsStored DEF Agreement

\* A worker's step keeps queue and inbox in agreement.
LEMMA StepAgrees ==
  ASSUME Agreement, NEW w \in Workers, Step(w) \/ Fault(w)
  PROVE  QueueAgrees'
<1>a. QueueTypeOK /\ event \in [EventId -> EventRow] /\ TypeOK /\ QueueAgrees /\ TablesAgree
  BY AgreementOfTables DEF Agreement, TypeOK, InboxTypeOK
<1>b. UNCHANGED inboxVars => QueueAgrees'
  BY <1>a, AgreesIfKept DEF inboxVars, KeepsJobs, SameEvents, Live
<1>1. CASE ClaimBatch(w)
  <2>1. PICK S \in SUBSET JobId :
          /\ \A j \in S : Claimable(j)
          /\ job' = [j \in JobId |-> IF j \in S THEN Claimed(job[j], w) ELSE job[j]]
    BY <1>1 DEF ClaimBatch
  <2>2. KeepsJobs
    BY <1>a, <2>1, ClaimEffect
  <2>3. QED
    BY <1>1, <1>a, <2>2, AgreesIfKept DEF ClaimBatch
<1>2. ASSUME NEW c \in buffer[w], Drain(w, c)
      PROVE  QueueAgrees'
  <2>1. c.job \in JobId
    BY <1>a, ClaimTypes
  <2>2. CASE HoldsLease(w, c.job)
    <3>1. Live(c.job)
      BY <2>2, HeldIsLive
    <3>2. SettlesJob(c.job)
      BY <1>2, <1>a, <2>1, <2>2, <3>1, SettleEffect DEF Drain
    <3>3. event[EventOf(c)].status = "ignored"
      BY <1>2, <2>1, <3>1, LiveJobsOfStored DEF Drain, ShortCircuits, EventOf
    <3>4. QED
      BY <1>2, <1>a, <2>1, <3>2, <3>3, AgreesIfSettled DEF Drain, OnlyChanges, EventOf
  <2>3. CASE ~HoldsLease(w, c.job)
    BY <1>2, <1>b, <2>3 DEF Drain, inboxVars
  <2>4. QED
    BY <2>2, <2>3
<1>3. ASSUME NEW c \in buffer[w], DeadLetter(w, c)
      PROVE  QueueAgrees'
  <2>1. c.job \in JobId /\ c.attempts \in Nat /\ Live(c.job)
    BY <1>3, <1>a, ClaimTypes, HeldIsLive DEF DeadLetter
  <2>2. event[EventOf(c)] \in EventRow
    BY <1>a, <2>1, LiveIsStored DEF EventOf
  <2>3. MarkFailed(event[EventOf(c)], c.attempts, TRUE).status = "dead"
    BY <2>1, <2>2, OutcomeStatus DEF FailedOutcome
  <2>4. event' = [event EXCEPT ![job[c.job].event] =
                    MarkFailed(event[EventOf(c)], c.attempts, TRUE)]
    BY <1>3 DEF DeadLetter, EventOf
  <2>5. QED
    BY <1>3, <1>a, <2>1, <2>3, <2>4, SettleAgrees DEF DeadLetter
<1>4. ASSUME NEW c \in buffer[w], DeadLetterRefused(w, c) \/ BeginHandling(w, c)
      PROVE  QueueAgrees'
  BY <1>4, <1>b DEF DeadLetterRefused, BeginHandling
<1>5. CASE CommitHandled(w)
  <2> DEFINE c == cur[w]
             row == MarkHandled(MarkProcessing(event[EventOf(c)], c.attempts))
  <2>1. c.job \in JobId /\ c.attempts \in Nat /\ Live(c.job)
    BY <1>5, <1>a, ClaimTypes, HeldIsLive DEF CommitHandled, HandlerReturns
  <2>2. event[EventOf(c)] \in EventRow
    BY <1>a, <2>1, LiveIsStored DEF EventOf
  <2>3. row.status = "handled"
    BY <2>1, <2>2, OutcomeStatus
  <2>4. event' = [event EXCEPT ![job[c.job].event] = row] /\ job' = Acked(job, c.job)
    BY <1>5 DEF CommitHandled, EventOf
  <2> HIDE DEF c, row
  <2>5. QED
    BY <1>a, <2>1, <2>3, <2>4, SettleAgrees
<1>6. CASE FailJob(w)
  <2> DEFINE c == cur[w]
             t == Terminal(c)
             row == MarkFailed(event[EventOf(c)], c.attempts, t)
  <2>1. c.job \in JobId /\ c.attempts \in Nat /\ Live(c.job)
    BY <1>6, <1>a, ClaimTypes, HeldIsLive DEF FailJob, FailAccepted
  <2>2. event[EventOf(c)] \in EventRow /\ t \in BOOLEAN
    BY <1>a, <2>1, LiveIsStored DEF EventOf, Terminal
  <2>3. row.status = FailedOutcome(t)
    BY <2>1, <2>2, OutcomeStatus
  <2>4. /\ event' = [event EXCEPT ![job[c.job].event] = row]
        /\ job' = IF t THEN Failed(job, c.job) ELSE Retried(job, c.job)
    BY <1>6 DEF FailJob, EventOf
  <2> HIDE DEF c, t, row
  <2>5. CASE t
    BY <1>a, <2>1, <2>3, <2>4, <2>5, SettleAgrees DEF FailedOutcome
  <2>6. CASE ~t
    BY <1>a, <2>1, <2>3, <2>4, <2>6, RetryAgrees DEF FailedOutcome
  <2>7. QED
    BY <2>5, <2>6
<1>7. CASE AckRefused(w) \/ HandlerRaises(w) \/ FailRefused(w) \/ Restart(w) \/ Fault(w)
  BY <1>7, <1>b DEF AckRefused, HandlerRaises, FailRefused, Restart, Fault, Crash, LoopErrs,
                    DispatchErrs
<1>8. QED
  BY <1>1, <1>2, <1>3, <1>4, <1>5, <1>6, <1>7 DEF Step, Dispatch

\* Every step keeps types and agreement.
LEMMA AgreementStep ==
  ASSUME Agreement, [Next]_vars
  PROVE  Agreement'
<1>a. TypeOK' /\ TypeOK /\ QueueAgrees
  BY TypeStep DEF Agreement
<1>b. SUFFICES QueueAgrees'
  BY <1>a DEF Agreement
<1>1. CASE Operator
  BY <1>1, OperatorAgrees, AgreementOfTables DEF Operator
<1>2. CASE \E w \in Workers : Step(w) \/ Fault(w)
  BY <1>2, StepAgrees
<1>3. ASSUME NEW j \in JobId, LeaseExpires(j)
      PROVE  QueueAgrees'
  <2>1. KeepsJobs
    BY <1>3, <1>a, AgeIfExpired DEF LeaseExpires, TypeOK
  <2>2. QED
    BY <1>3, <1>a, <2>1, AgreesIfKept DEF LeaseExpires
<1>4. CASE UNCHANGED vars
  BY <1>4, <1>a, AgreesIfKept DEF vars, KeepsJobs, SameEvents, Live
<1>5. QED
  BY <1>1, <1>2, <1>3, <1>4 DEF Next

\* Types, and the agreement of queue and inbox, hold throughout.
THEOREM AgreementInvariant == Spec => []Agreement
<1>1. Init => Agreement
  BY AgreementInit
<1>2. Agreement /\ [Next]_vars => Agreement'
  BY AgreementStep
<1>3. QED
  BY <1>1, <1>2, PTL DEF Spec

\* Replays, requeues, retries and stale claims never put a second live job of an event
\* into the queue (delete_live_jobs_for_event runs before every enqueue of replay,
\* requeue and replay_delivery).
THEOREM NoSecondJob == Spec => []OneLiveJob
<1>1. Agreement => OneLiveJob
  BY DEF Agreement, QueueAgrees
<1>2. QED
  BY <1>1, AgreementInvariant, PTL

\* No event that still has to be handled is stranded without a job (ingest, replay and
\* _fail_job change event and queue in one transaction).
THEOREM NothingStranded == Spec => []UnfinishedIsQueued
<1>1. Agreement => UnfinishedIsQueued
  BY DEF Agreement, QueueAgrees
<1>2. QED
  BY <1>1, AgreementInvariant, PTL

\* No handled, dead or pruned event has a live job (the ack commits with the handled row,
\* honker_fail with the dead one, and a prune deletes the jobs of what it prunes).
THEOREM NothingLeftOver == Spec => []FinishedIsNotQueued
<1>1. Agreement => FinishedIsNotQueued
  BY DEF Agreement, QueueAgrees
<1>2. QED
  BY <1>1, AgreementInvariant, PTL

-----------------------------------------------------------------------------
\* A step that ends a worker, no crash and no database error, finds a claim that is lost.
LEMMA StopStep ==
  ASSUME Agreement, [Next]_vars, NEW w \in Workers,
         pc[w] # "stopped", pc'[w] = "stopped", faults' = faults
  PROVE  \E c \in Holds(w) : c # NoClaim /\ ~HoldsLease(w, c.job)
<1>a. /\ TypeOK /\ pc \in [Workers -> WorkerPc] /\ faults \in Nat
      /\ NoClaim \notin Claim
  BY DEF Agreement, TypeOK, WorkerTypeOK, Claim, NoClaim, JobId, NoRef
<1>1. pc' # pc
  OBVIOUS
<1>2. ~Operator /\ ~UNCHANGED vars
  BY <1>1 DEF Operator, workerVars, vars
<1>3. ASSUME NEW j \in JobId, LeaseExpires(j)
      PROVE  FALSE
  BY <1>1, <1>3 DEF LeaseExpires
<1>4. ASSUME NEW v \in Workers, Fault(v)
      PROVE  FALSE
  BY <1>a, <1>4 DEF Fault, Crash, LoopErrs, DispatchErrs
<1>5. ASSUME NEW v \in Workers, \/ ClaimBatch(v)
                                \/ \E c \in buffer[v] : Drain(v, c) \/ DeadLetter(v, c)
      PROVE  FALSE
  BY <1>1, <1>5 DEF ClaimBatch, Drain, DeadLetter
<1>6. ASSUME NEW v \in Workers,
             \/ \E c \in buffer[v] : BeginHandling(v, c)
             \/ CommitHandled(v) \/ HandlerRaises(v) \/ FailJob(v) \/ Restart(v)
      PROVE  FALSE
  BY <1>a, <1>6 DEF BeginHandling, CommitHandled, HandlerRaises, FailJob, Restart
<1>7. ASSUME NEW v \in Workers, NEW c \in buffer[v], DeadLetterRefused(v, c)
      PROVE  v = w /\ c \in Claim /\ ~HoldsLease(w, c.job)
  BY <1>a, <1>7, ClaimTypes DEF DeadLetterRefused, Stops
<1>8. ASSUME NEW v \in Workers, AckRefused(v)
      PROVE  v = w /\ cur[w] \in Claim /\ ~HoldsLease(w, cur[w].job)
  BY <1>a, <1>8, ClaimTypes DEF AckRefused, HandlerReturns, Stops
<1>9. ASSUME NEW v \in Workers, FailRefused(v)
      PROVE  v = w /\ cur[w] \in Claim /\ ~HoldsLease(w, cur[w].job)
  <2>1. v = w /\ cur[w] \in Claim /\ ~FailAccepted(w)
    BY <1>a, <1>9, ClaimTypes DEF FailRefused, Stops
  <2>2. HoldsLease(w, cur[w].job) => Exists(EventOf(cur[w]))
    BY <2>1, HeldIsLive, LiveJobsOfStored DEF EventOf, Claim
  <2>3. QED
    BY <2>1, <2>2 DEF FailAccepted
<1>10. QED
  BY <1>a, <1>2, <1>3, <1>4, <1>5, <1>6, <1>7, <1>8, <1>9 DEF Next, Step, Dispatch, Holds

\* Crashes and database errors apart, run_worker ends only when an ack, a retry or a
\* failure was refused because the claim was gone: while its lease runs, the event of its
\* job is stored, whatever is pruned, so that mark_failed finds it.
THEOREM OnlyRefusalsStop == Spec => OnlyLostClaimsStopWorkers
<1>1. Agreement /\ [Next]_vars =>
        [\A w \in Workers :
           pc[w] # "stopped" /\ pc'[w] = "stopped" /\ faults' = faults =>
             \E c \in Holds(w) : c # NoClaim /\ ~HoldsLease(w, c.job)]_vars
  BY StopStep
<1>2. QED
  BY <1>1, AgreementInvariant, PTL DEF Spec, OnlyLostClaimsStopWorkers

-----------------------------------------------------------------------------
(* Links.                                                                  *)

InboxInv == Agreement /\ LinksOK /\ AuditAccounts

\* The invariant says of the tables what the lemmas about the inbox ask.
LEMMA InboxInvLinks == InboxInv => LinkInv
BY LiveIsStored DEF InboxInv, LinkInv, LiveNamed, Agreement, TypeOK, TablesOK, Exists, NoRow

\* A worker ends a dispatch: it writes to the event of a job it holds the lease of.
LEMMA OutcomeKeeps ==
  ASSUME InboxInv, NEW w \in Workers, NEW c \in Claim, HoldsLease(w, c.job), NEW t \in BOOLEAN,
         \/ event' = [event EXCEPT ![EventOf(c)] = MarkHandled(MarkProcessing(@, c.attempts))]
         \/ event' = [event EXCEPT ![EventOf(c)] = MarkFailed(@, c.attempts, t)],
         NEW o, attempts' = WithAttempt(EventOf(c), o),
         job' = Acked(job, c.job) \/ job' = Failed(job, c.job) \/ job' = Retried(job, c.job),
         UNCHANGED <<delivery, audit>>
  PROVE  Kept
<1>a. QueueTypeOK /\ event \in [EventId -> EventRow]
  BY DEF InboxInv, Agreement, TypeOK, InboxTypeOK
<1>1. c.job \in JobId /\ c.attempts \in Nat /\ Live(c.job)
  BY HeldIsLive DEF Claim
<1>2. EventOf(c) \in EventId /\ Exists(EventOf(c))
  BY <1>1, LiveJobsOfStored DEF InboxInv, EventOf
<1>3. TargetsFit /\ NoJobPruned
  BY <1>a, <1>1, PayloadsIfSettled, StayingFit
<1>4. QED
  BY <1>1, <1>2, <1>3, InboxInvLinks, KeptIfOutcome

\* A worker's step keeps the links.
LEMMA StepKeeps ==
  ASSUME InboxInv, NEW w \in Workers, Step(w) \/ Fault(w)
  PROVE  Kept
<1>a. QueueTypeOK /\ TypeOK /\ LinkInv
  BY InboxInvLinks DEF InboxInv, Agreement, TypeOK
<1>b. UNCHANGED <<event, delivery, attempts, audit>> => RowsStay
  BY DEF RowsStay, IdentitiesStay, AttemptsOfPrunedStay
<1>c. UNCHANGED job => TargetsFit /\ NoJobPruned
  BY StayingFit DEF PayloadsStay, NoJobPruned, Live
<1>d. UNCHANGED inboxVars => Kept
  BY <1>a, <1>b, <1>c, KeptIfRowsStay DEF inboxVars
<1>1. CASE ClaimBatch(w)
  <2>1. PICK S \in SUBSET JobId :
          /\ \A j \in S : Claimable(j)
          /\ job' = [j \in JobId |-> IF j \in S THEN Claimed(job[j], w) ELSE job[j]]
    BY <1>1 DEF ClaimBatch
  <2>2. TargetsFit /\ NoJobPruned
    BY <1>a, <2>1, PayloadsIfClaimed, StayingFit
  <2>3. QED
    BY <1>1, <1>a, <1>b, <2>2, KeptIfRowsStay DEF ClaimBatch
<1>2. ASSUME NEW c \in buffer[w], Drain(w, c)
      PROVE  Kept
  <2>1. c.job \in JobId
    BY <1>a, ClaimTypes
  <2>2. TargetsFit /\ NoJobPruned
    BY <1>2, <1>a, <1>c, <2>1, HeldIsLive, PayloadsIfSettled, StayingFit DEF Drain
  <2>3. QED
    BY <1>2, <1>a, <1>b, <2>2, KeptIfRowsStay DEF Drain
<1>3. ASSUME NEW c \in buffer[w], DeadLetter(w, c)
      PROVE  Kept
  BY <1>3, <1>a, ClaimTypes, OutcomeKeeps DEF DeadLetter
<1>4. ASSUME NEW c \in buffer[w], DeadLetterRefused(w, c) \/ BeginHandling(w, c)
      PROVE  Kept
  BY <1>4, <1>d DEF DeadLetterRefused, BeginHandling
<1>5. CASE CommitHandled(w)
  BY <1>5, <1>a, ClaimTypes, OutcomeKeeps DEF CommitHandled, HandlerReturns
<1>6. CASE FailJob(w)
  <2>1. cur[w] \in Claim /\ HoldsLease(w, cur[w].job) /\ Terminal(cur[w]) \in BOOLEAN
    BY <1>6, <1>a, ClaimTypes DEF FailJob, FailAccepted, Terminal
  <2>2. /\ event' = [event EXCEPT ![EventOf(cur[w])] =
                       MarkFailed(@, cur[w].attempts, Terminal(cur[w]))]
        /\ attempts' = WithAttempt(EventOf(cur[w]), FailedOutcome(Terminal(cur[w])))
        /\ job' = Failed(job, cur[w].job) \/ job' = Retried(job, cur[w].job)
        /\ UNCHANGED <<delivery, audit>>
    BY <1>6 DEF FailJob
  <2>3. QED
    BY <2>1, <2>2, OutcomeKeeps
<1>7. CASE AckRefused(w) \/ HandlerRaises(w) \/ FailRefused(w) \/ Restart(w) \/ Fault(w)
  BY <1>7, <1>d DEF AckRefused, HandlerRaises, FailRefused, Restart, Fault, Crash, LoopErrs,
                    DispatchErrs
<1>8. QED
  BY <1>1, <1>2, <1>3, <1>4, <1>5, <1>6, <1>7 DEF Step, Dispatch

\* Every step keeps the links and the agreement.
LEMMA InboxStep ==
  ASSUME InboxInv, [Next]_vars
  PROVE  InboxInv'
<1>1. Agreement' /\ LinkInv
  BY AgreementStep, InboxInvLinks DEF InboxInv
<1>2. CASE Operator
  BY <1>1, <1>2, OperatorKeeps DEF Operator, Kept, InboxInv
<1>3. CASE \E w \in Workers : Step(w) \/ Fault(w)
  BY <1>1, <1>3, StepKeeps DEF Kept, InboxInv
<1>4. ASSUME NEW j \in JobId, LeaseExpires(j)
      PROVE  InboxInv'
  <2>1. PayloadsStay /\ NoJobPruned
    BY <1>4 DEF LeaseExpires, InboxInv, Agreement, TypeOK, QueueTypeOK, JobRow, PayloadsStay,
                NoJobPruned, Live
  <2>2. RowsStay
    BY <1>4 DEF LeaseExpires, RowsStay, IdentitiesStay, AttemptsOfPrunedStay
  <2>3. QED
    BY <1>1, <2>1, <2>2, StayingFit, KeptIfRowsStay DEF Kept, InboxInv
<1>5. CASE UNCHANGED vars
  <2>1. RowsStay /\ PayloadsStay /\ NoJobPruned
    BY <1>5 DEF vars, RowsStay, IdentitiesStay, AttemptsOfPrunedStay, PayloadsStay, NoJobPruned,
                Live
  <2>2. QED
    BY <1>1, <2>1, StayingFit, KeptIfRowsStay DEF Kept, InboxInv
<1>6. QED
  BY <1>2, <1>3, <1>4, <1>5 DEF Next

\* They hold of the empty inbox.
LEMMA InboxInvInit == Init => InboxInv
BY AgreementInit, LinksInit DEF Init, InboxInv

\* They hold throughout.
LEMMA InboxInvariant == Spec => []InboxInv
<1>1. InboxInv /\ [Next]_vars => InboxInv'
  BY InboxStep
<1>2. QED
  BY <1>1, InboxInvInit, PTL DEF Spec

-----------------------------------------------------------------------------
\* A linked delivery belongs to a stored event of its own endpoint and key, whatever is
\* redelivered, replayed and pruned (knocker_ingest, the prunes).
THEOREM LinksHold == Spec => []DeliveryLinkage
<1>1. InboxInv => DeliveryLinkage
  BY DEF InboxInv, LinksOK
<1>2. QED
  BY <1>1, InboxInvariant, PTL

\* Linked deliveries of one endpoint and key are of one event, also after events with
\* that key were pruned (find_existing_event and the unique index behind it).
THEOREM RedeliveriesMeet == Spec => []DedupeConverges
<1>1. InboxInv => DedupeConverges
  BY LinksConverge DEF InboxInv
<1>2. QED
  BY <1>1, InboxInvariant, PTL

\* No prune, of events or of orphans, leaves a stored event without a delivery.
THEOREM ArrivalsStay == Spec => []EventsKeepDeliveries
<1>1. InboxInv => EventsKeepDeliveries
  BY DEF InboxInv, LinksOK
<1>2. QED
  BY <1>1, InboxInvariant, PTL

\* The delivery a live replay_delivery job names is stored and linked to the job's event:
\* the prune that would take it takes the job as well.
THEOREM TargetsStay == Spec => []ReplayTargetStored
<1>1. InboxInv => ReplayTargetStored
  BY DEF InboxInv, LinksOK
<1>2. QED
  BY <1>1, InboxInvariant, PTL

\* The audit rows count every pruned event, delivery, attempt and live job once, those a
\* cascade takes included (knocker_prune_events and knocker_prune_orphan_deliveries).
THEOREM AuditsAddUp == Spec => []AuditAccounts
<1>1. InboxInv => AuditAccounts
  BY DEF InboxInv
<1>2. QED
  BY <1>1, InboxInvariant, PTL
=============================================================================
