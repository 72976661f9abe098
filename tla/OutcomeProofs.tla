--------------------------- MODULE OutcomeProofs ---------------------------
(***************************************************************************)
(* What an event's row and attempts say, for every value of the constants: *)
(* columns and status agree, attempts stay in their budget, every commit   *)
(* is paid for by an acked job, and only operators reopen settled events.  *)
(*                                                                         *)
(* Beyond the agreement of queue and inbox, the invariant says of every    *)
(* claim a worker holds that its job has been enqueued, so that its id is  *)
(* not handed out again, and that a job still live has used at least the   *)
(* attempts the claim remembers.                                           *)
(*                                                                         *)
(* The mapping to the event lifecycle needs one fact more: the event a     *)
(* handler runs for is not ignored when its transaction commits.  It was   *)
(* not when the transaction began, and nobody else has written since.      *)
(***************************************************************************)
EXTENDS QueueProofs

\* A claim in a worker's hands, against the queue as it is now.
ClaimsFit ==
  \A w \in Workers : \A c \in Holds(w) : c.job \in JobId =>
    /\ job[c.job].state # "unused"
    /\ Live(c.job) => c.attempts <= job[c.job].attempts

\* What AttemptBudget and ColumnsAgree say of one row, and of one event's jobs.
RowOK(row) ==
  /\ row.status = "failed" => row.attempt_count < MaxAttempts
  /\ row.handled_at <=> row.status = "handled"
  /\ row.last_error <=> row.status \in {"failed", "dead"}

BudgetFits(e) ==
  \A j \in JobId : Live(j) /\ job[j].event = e => event[e].attempt_count <= job[j].attempts

RowsOK == \A e \in EventId : RowOK(event[e]) /\ BudgetFits(e)

-----------------------------------------------------------------------------
(* Jobs.                                                                   *)

\* Every step ages the jobs.
LEMMA AgeStep ==
  ASSUME Agreement, [Next]_vars
  PROVE  JobsAge
<1>a. QueueTypeOK /\ TypeOK
  BY DEF Agreement, TypeOK
<1>b. UNCHANGED job => JobsAge
  BY <1>a, AgeIfSame
<1>1. CASE Operator
  BY <1>1, <1>a, OperatorAges DEF Operator
<1>2. ASSUME NEW w \in Workers, Step(w) \/ Fault(w)
      PROVE  JobsAge
  <2>1. CASE ClaimBatch(w)
    <3>1. PICK S \in SUBSET JobId :
            /\ \A j \in S : Claimable(j)
            /\ job' = [j \in JobId |-> IF j \in S THEN Claimed(job[j], w) ELSE job[j]]
      BY <2>1 DEF ClaimBatch
    <3>2. QED
      BY <3>1, <1>a, AgeIfClaimed
  <2>2. ASSUME NEW c \in buffer[w], Drain(w, c) \/ DeadLetter(w, c)
        PROVE  JobsAge
    <3>1. c.job \in JobId
      BY <1>a, ClaimTypes
    <3>2. CASE HoldsLease(w, c.job)
      BY <2>2, <1>a, <3>1, <3>2, HeldIsLive, AgeIfSettled DEF Drain, DeadLetter
    <3>3. CASE ~HoldsLease(w, c.job)
      BY <2>2, <1>b, <3>3 DEF Drain, DeadLetter
    <3>4. QED
      BY <3>2, <3>3
  <2>3. ASSUME NEW c \in buffer[w], DeadLetterRefused(w, c) \/ BeginHandling(w, c)
        PROVE  JobsAge
    BY <2>3, <1>b DEF DeadLetterRefused, BeginHandling, inboxVars
  <2>4. CASE CommitHandled(w) \/ FailJob(w)
    <3>1. cur[w].job \in JobId /\ Live(cur[w].job)
      BY <2>4, <1>a, ClaimTypes, HeldIsLive
         DEF CommitHandled, HandlerReturns, FailJob, FailAccepted, Claim
    <3>2. QED
      BY <2>4, <1>a, <3>1, AgeIfSettled DEF CommitHandled, FailJob
  <2>5. CASE AckRefused(w) \/ HandlerRaises(w) \/ FailRefused(w) \/ Restart(w) \/ Fault(w)
    BY <2>5, <1>b DEF AckRefused, HandlerRaises, FailRefused, Restart, Fault, Crash, LoopErrs,
                      DispatchErrs, inboxVars
  <2>6. QED
    BY <1>2, <2>1, <2>2, <2>3, <2>4, <2>5 DEF Step, Dispatch
<1>3. ASSUME NEW j \in JobId, LeaseExpires(j)
      PROVE  JobsAge
  BY <1>3, <1>a, AgeIfExpired DEF LeaseExpires
<1>4. CASE UNCHANGED vars
  BY <1>4, <1>b DEF vars
<1>5. QED
  BY <1>1, <1>2, <1>3, <1>4 DEF Next

-----------------------------------------------------------------------------
(* Claims.                                                                 *)

\* Every step keeps what workers know of their jobs true.
LEMMA ClaimsStep ==
  ASSUME Agreement, ClaimsFit, [Next]_vars
  PROVE  ClaimsFit'
<1>a. QueueTypeOK /\ TypeOK /\ JobsAge
  BY AgeStep DEF Agreement, TypeOK
<1>b. /\ buffer \in [Workers -> SUBSET Claim] /\ cur \in [Workers -> Claim \cup {NoClaim}]
      /\ \A w \in Workers : \A c \in Holds(w) : c.attempts \in Nat
      /\ \A j \in JobId : job[j].attempts \in Nat
  BY <1>a DEF TypeOK, WorkerTypeOK, Holds, Claim, NoClaim, QueueTypeOK, JobRow
<1>c. \A j \in JobId : job'[j].attempts \in Nat
  BY TypeStep DEF Agreement, TypeOK, QueueTypeOK, JobRow
<1>1. ASSUME NEW w \in Workers, ClaimBatch(w)
      PROVE  ClaimsFit'
  <2>1. PICK S \in SUBSET JobId :
          /\ job' = [j \in JobId |-> IF j \in S THEN Claimed(job[j], w) ELSE job[j]]
          /\ buffer' = [buffer EXCEPT ![w] =
                          {[job |-> j, attempts |-> job[j].attempts + 1] : j \in S}]
          /\ cur' = cur
    BY <1>1 DEF ClaimBatch
  <2>2. ASSUME NEW v \in Workers, NEW c \in buffer'[v] \cup {cur'[v]}, c.job \in JobId
        PROVE  job'[c.job].state # "unused" /\ (Live(c.job)' => c.attempts <= job'[c.job].attempts)
    <3>1. CASE c \in Holds(v)
      BY <1>a, <1>b, <1>c, <2>2, <3>1 DEF ClaimsFit, JobsAge
    <3>2. CASE c \notin Holds(v)
      <4>1. PICK j \in S : c = [job |-> j, attempts |-> job[j].attempts + 1]
        BY <1>b, <2>1, <2>2, <3>2 DEF Holds
      <4>2. job'[j].state = "claimed" /\ job'[j].attempts = job[j].attempts + 1
        BY <1>a, <2>1 DEF QueueTypeOK, JobRow, Claimed
      <4>3. QED
        BY <1>b, <4>1, <4>2
    <3>3. QED
      BY <3>1, <3>2
  <2>3. QED
    BY <2>2 DEF ClaimsFit, Holds
<1>2. CASE \A v \in Workers : buffer'[v] \cup {cur'[v]} \subseteq Holds(v) \cup {NoClaim}
  <2>1. ASSUME NEW v \in Workers, NEW c \in buffer'[v] \cup {cur'[v]}, c.job \in JobId
        PROVE  job'[c.job].state # "unused" /\ (Live(c.job)' => c.attempts <= job'[c.job].attempts)
    <3>1. c \in Holds(v)
      BY <1>2, <2>1 DEF NoClaim, NoRef, JobId
    <3>2. QED
      BY <1>a, <1>b, <1>c, <2>1, <3>1 DEF ClaimsFit, JobsAge
  <2>2. QED
    BY <2>1 DEF ClaimsFit, Holds
<1>3. ASSUME NEW w \in Workers, Dispatch(w) \/ CommitHandled(w) \/ AckRefused(w)
        \/ HandlerRaises(w) \/ FailJob(w) \/ FailRefused(w) \/ Restart(w) \/ Fault(w)
      PROVE  ClaimsFit'
  <2>1. /\ \A v \in Workers \ {w} : buffer'[v] = buffer[v] /\ cur'[v] = cur[v]
        /\ buffer'[w] \subseteq buffer[w] /\ cur'[w] \in Holds(w) \cup {NoClaim}
    <3>1. CASE \E c \in buffer[w] : Drain(w, c) \/ DeadLetter(w, c)
      BY <3>1, <1>b DEF Drain, DeadLetter, Holds
    <3>2. CASE \E c \in buffer[w] : DeadLetterRefused(w, c) \/ BeginHandling(w, c)
      BY <3>2, <1>b DEF DeadLetterRefused, BeginHandling, Stops, Holds
    <3>3. CASE CommitHandled(w) \/ FailJob(w) \/ HandlerRaises(w) \/ Restart(w)
      BY <3>3, <1>b DEF CommitHandled, FailJob, HandlerRaises, Restart, Holds
    <3>4. CASE AckRefused(w) \/ FailRefused(w) \/ Crash(w) \/ LoopErrs(w)
      BY <3>4, <1>b DEF AckRefused, FailRefused, Crash, LoopErrs, Stops, Holds
    <3>5. CASE DispatchErrs(w)
      BY <3>5, <1>b DEF DispatchErrs, Holds
    <3>6. QED
      BY <1>3, <3>1, <3>2, <3>3, <3>4, <3>5 DEF Dispatch, Fault
  <2>2. \A v \in Workers : buffer'[v] \cup {cur'[v]} \subseteq Holds(v) \cup {NoClaim}
    BY <2>1 DEF Holds
  <2>3. QED
    BY <2>2, <1>2
<1>4. CASE UNCHANGED <<buffer, cur>>
  BY <1>4, <1>2 DEF Holds
<1>5. QED
  BY <1>1, <1>3, <1>4 DEF Next, Operator, workerVars, LeaseExpires, vars, Step

-----------------------------------------------------------------------------
(* Rows and budgets.                                                       *)

NoNewJobs == \A i \in JobId : Live(i)' => Live(i)

\* What the proofs below use of the state they start from, and of the step.
RowsPre == Agreement /\ RowsOK /\ JobsAge /\ QueueTypeOK'

\* The budget of an event not written to, while no job is enqueued for it.
LEMMA BudgetKept ==
  ASSUME RowsPre, NEW e \in EventId, event'[e] = event[e],
         \A i \in JobId : Live(i)' /\ job'[i].event = e => Live(i)
  PROVE  RowOK(event'[e]) /\ BudgetFits(e)'
<1>1. ASSUME NEW j \in JobId, Live(j)', job'[j].event = e
      PROVE  event'[e].attempt_count <= job'[j].attempts
  <2>1. Live(j) /\ job[j].event = e /\ job[j].attempts <= job'[j].attempts
    BY <1>1 DEF RowsPre, JobsAge, Live, LiveState
  <2>2. event[e].attempt_count <= job[j].attempts
    BY <2>1 DEF RowsPre, RowsOK, BudgetFits
  <2>3. event[e].attempt_count \in Nat /\ job[j].attempts \in Nat /\ job'[j].attempts \in Nat
    BY DEF RowsPre, Agreement, TypeOK, InboxTypeOK, EventRow, QueueTypeOK, JobRow
  <2>4. QED
    BY <2>1, <2>2, <2>3
<1>2. QED
  BY <1>1 DEF RowsPre, RowsOK, BudgetFits

\* No event is written to and no job enqueued.
LEMMA RowsIfKept ==
  ASSUME RowsPre, UNCHANGED event, NoNewJobs
  PROVE  RowsOK'
BY BudgetKept DEF NoNewJobs, RowsOK, RowOK

\* One event is written to; no job of another event is enqueued.
LEMMA RowsIfWritten ==
  ASSUME RowsPre, NEW e \in EventId, NEW row, RowOK(row), event' = [event EXCEPT ![e] = row],
         \A i \in JobId : Live(i)' /\ job'[i].event # e => Live(i),
         \A i \in JobId : Live(i)' /\ job'[i].event = e => row.attempt_count <= job'[i].attempts
  PROVE  RowsOK'
<1>1. event \in [EventId -> EventRow]
  BY DEF RowsPre, Agreement, TypeOK, InboxTypeOK
<1>2. RowOK(event'[e]) /\ BudgetFits(e)'
  BY <1>1 DEF BudgetFits
<1>3. ASSUME NEW f \in EventId \ {e}
      PROVE  RowOK(event'[f]) /\ BudgetFits(f)'
  BY <1>1, BudgetKept
<1>4. QED
  BY <1>2, <1>3 DEF RowsOK, RowOK

\* A job settled with its event: the event has no live job left to be compared with.
LEMMA RowsIfSettled ==
  ASSUME RowsPre, NEW w \in Workers, NEW c \in Claim, HoldsLease(w, c.job),
         NEW row, RowOK(row), event' = [event EXCEPT ![EventOf(c)] = row],
         job' = Acked(job, c.job) \/ job' = Failed(job, c.job)
  PROVE  RowsOK'
<1>1. c.job \in JobId /\ Live(c.job)
  BY HeldIsLive DEF Claim
<1>2. SettlesJob(c.job) /\ EventOf(c) \in EventId
  BY <1>1, SettleEffect, LiveJobsOfStored DEF RowsPre, Agreement, TypeOK, EventOf
<1>3. \A i \in JobId : Live(i)' /\ job'[i].event = EventOf(c) => FALSE
  BY <1>1, <1>2 DEF RowsPre, Agreement, QueueAgrees, OneLiveJob, SettlesJob, SameEvents, EventOf
<1>4. \A i \in JobId : Live(i)' => Live(i)
  BY <1>2 DEF SettlesJob
<1>5. QED
  BY <1>2, <1>3, <1>4, RowsIfWritten

\* replay, requeue, replay_delivery, and the first insertion: both counters start at 0.
LEMMA RowsIfRenewed ==
  ASSUME RowsPre, NEW e \in EventId, RenewsJob(e), NEW row, RowOK(row),
         row.attempt_count = 0, event' = [event EXCEPT ![e] = row]
  PROVE  RowsOK'
<1>1. \A i \in JobId : Live(i)' /\ job'[i].event # e => Live(i)
  BY DEF RenewsJob
<1>2. \A i \in JobId : job'[i].attempts \in Nat
  BY DEF RowsPre, QueueTypeOK, JobRow
<1>3. \A i \in JobId : 0 <= job'[i].attempts
  BY <1>2
<1>4. QED
  BY <1>1, <1>3, RowsIfWritten

\* A reactivated event starts with its columns reset and its budget whole.
LEMMA ReactivateRows ==
  ASSUME RowsPre, NEW e \in EventId, NEW d \in Nat, Reactivate(e, d)
  PROVE  RowsOK'
<1>1. RenewsJob(e)
  BY RenewEffect DEF RowsPre, Agreement, TypeOK, Reactivate
<1>2. RowOK(ResetEvent(event[e])) /\ ResetEvent(event[e]).attempt_count = 0
  BY DEF RowsPre, Agreement, TypeOK, InboxTypeOK, EventRow, ResetEvent, RowOK
<1>3. event' = [event EXCEPT ![e] = ResetEvent(event[e])]
  BY DEF Reactivate
<1>4. QED
  BY <1>1, <1>2, <1>3, RowsIfRenewed

\* An operator's call keeps columns and budgets.
LEMMA OperatorRows ==
  ASSUME RowsPre, InboxNext
  PROVE  RowsOK'
<1>a. QueueTypeOK /\ event \in [EventId -> EventRow] /\ Agreement /\ RowsOK
  BY DEF RowsPre, Agreement, TypeOK, InboxTypeOK
<1>b. UNCHANGED <<event, job>> => RowsOK'
  BY RowsIfKept DEF NoNewJobs, Live
<1>1. CASE \E n \in Endpoints, enabled \in BOOLEAN : EndpointUpsert(n, enabled)
  BY <1>1, <1>b DEF EndpointUpsert
<1>2. ASSUME NEW n \in Endpoints, NEW k \in Keys \cup {NoKey}, NEW t \in Kinds, Ingest(n, k, t)
      PROVE  RowsOK'
  <2>1. CASE IngestInvalid(n, k, t) \/ IngestDuplicate(n, k, t)
    BY <2>1, <1>b DEF IngestInvalid, IngestDuplicate
  <2>2. CASE IngestNew(n, k, t)
    <3> DEFINE row == [Empty("received") EXCEPT !.endpoint = n, !.key = k, !.kind = t]
    <3>1. PICK e \in EventId, j \in JobId :
            /\ NextEventId(e) /\ NextJobId(j)
            /\ event' = [event EXCEPT ![e] = row]
            /\ job' = Enqueued(job, j, e, NoRef)
      BY <2>2 DEF IngestNew
    <3>2. \A i \in JobId : Live(i) => job[i].event # e
      BY <1>a, <3>1 DEF NextEventId, Agreement, QueueAgrees, FinishedIsNotQueued
    <3>3. RenewsJob(e)
      BY <1>a, <3>1, <3>2, EnqueueEffect
    <3>4. RowOK(row) /\ row.attempt_count = 0
      BY DEF RowOK, Empty
    <3> HIDE DEF row
    <3>5. QED
      BY <3>1, <3>3, <3>4, RowsIfRenewed
  <2>3. QED
    BY <1>2, <2>1, <2>2 DEF Ingest
<1>3. ASSUME NEW e \in EventId, Ignore(e)
      PROVE  RowsOK'
  <2>1. RowOK(MarkIgnored(event[e]))
    BY <1>3, <1>a DEF Ignore, MarkIgnored, RowsOK, RowOK, EventRow
  <2>2. MarkIgnored(event[e]).attempt_count = event[e].attempt_count
    BY <1>a DEF MarkIgnored, EventRow
  <2>3. \A i \in JobId : Live(i) /\ job[i].event = e => event[e].attempt_count <= job[i].attempts
    BY <1>a DEF RowsOK, BudgetFits
  <2>4. job' = job /\ event' = [event EXCEPT ![e] = MarkIgnored(event[e])]
    BY <1>3 DEF Ignore
  <2>5. QED
    BY <2>1, <2>2, <2>3, <2>4, RowsIfWritten DEF Live
<1>4. ASSUME NEW e \in EventId, Replay(e) \/ Requeue(e)
      PROVE  RowsOK'
  BY <1>4, ReactivateRows DEF Replay, Requeue, NoRef
<1>5. ASSUME NEW d \in DeliveryId, ReplayDelivery(d)
      PROVE  RowsOK'
  BY <1>5, ReactivateRows DEF ReplayDelivery, Exists, DeliveryId
<1>6. ASSUME NEW S \in PruneStatuses, NEW c, NEW n, PruneEvents(S, c, n)
      PROVE  RowsOK'
  <2>1. PICK E \in SUBSET EventId :
          /\ job' = WithoutLiveJobs(E, "pruned")
          /\ event' = [e \in EventId |-> IF e \in E THEN Empty("pruned") ELSE event[e]]
    BY <1>6 DEF PruneEvents, Oldest
  <2>2. DropsJobs(E)
    BY <1>a, <2>1, DropEffect DEF GoneState
  <2>3. ASSUME NEW e \in E
        PROVE  RowOK(event'[e]) /\ BudgetFits(e)'
    <3>1. \A i \in JobId : Live(i)' => job'[i].event # e
      BY <2>2 DEF DropsJobs, SameEvents
    <3>2. RowOK(event'[e])
      BY <2>1 DEF RowOK, Empty
    <3>3. QED
      BY <3>1, <3>2 DEF BudgetFits
  <2>4. ASSUME NEW e \in EventId \ E
        PROVE  RowOK(event'[e]) /\ BudgetFits(e)'
    BY <2>1, <2>2, BudgetKept DEF DropsJobs
  <2>5. QED
    BY <2>3, <2>4 DEF RowsOK, RowOK
<1>7. ASSUME NEW c, NEW n, PruneOrphanDeliveries(c, n)
      PROVE  RowsOK'
  BY <1>7, <1>b DEF PruneOrphanDeliveries
<1>8. QED
  BY <1>1, <1>2, <1>3, <1>4, <1>5, <1>6, <1>7 DEF InboxNext

\* The rows a worker writes fit what their status says.
LEMMA WorkerRows ==
  ASSUME NEW row \in EventRow, RowOK(row), NEW n \in Nat, NEW t \in BOOLEAN
  PROVE  /\ RowOK(MarkHandled(MarkProcessing(row, n)))
         /\ row.status # "handled" /\ (t \/ n < MaxAttempts) => RowOK(MarkFailed(row, n, t))
         /\ MarkFailed(row, n, t).attempt_count = n
<1>1. RowOK(MarkHandled(MarkProcessing(row, n)))
  BY DEF EventRow, RowOK, MarkHandled, MarkProcessing
<1>2. row.status # "handled" /\ (t \/ n < MaxAttempts) => RowOK(MarkFailed(row, n, t))
  BY DEF EventRow, RowOK, MarkFailed, FailedOutcome
<1>3. MarkFailed(row, n, t).attempt_count = n
  BY DEF EventRow, MarkFailed
<1>4. QED
  BY <1>1, <1>2, <1>3

\* A worker's step keeps columns and budgets.
LEMMA StepRows ==
  ASSUME RowsPre, ClaimsFit, NEW w \in Workers, Step(w) \/ Fault(w)
  PROVE  RowsOK'
<1>a. QueueTypeOK /\ event \in [EventId -> EventRow] /\ Agreement /\ RowsOK /\ TypeOK
  BY DEF RowsPre, Agreement, TypeOK, InboxTypeOK
<1>b. UNCHANGED <<event, job>> => RowsOK'
  BY RowsIfKept DEF NoNewJobs, Live
<1>1. CASE ClaimBatch(w)
  <2>1. PICK S \in SUBSET JobId :
          /\ \A j \in S : Claimable(j)
          /\ job' = [j \in JobId |-> IF j \in S THEN Claimed(job[j], w) ELSE job[j]]
    BY <1>1 DEF ClaimBatch
  <2>2. NoNewJobs
    BY <2>1 DEF NoNewJobs, Live, LiveState, Claimable
  <2>3. QED
    BY <1>1, <2>2, RowsIfKept DEF ClaimBatch
<1>2. ASSUME NEW c \in buffer[w], Drain(w, c)
      PROVE  RowsOK'
  <2>1. NoNewJobs
    <3>1. CASE HoldsLease(w, c.job)
      BY <1>2, <1>a, <3>1, ClaimTypes, HeldIsLive, SettleEffect DEF Drain, NoNewJobs, SettlesJob
    <3>2. CASE ~HoldsLease(w, c.job)
      BY <1>2, <3>2 DEF Drain, NoNewJobs, Live
    <3>3. QED
      BY <3>1, <3>2
  <2>2. QED
    BY <1>2, <2>1, RowsIfKept DEF Drain
<1>3. ASSUME NEW c \in buffer[w], DeadLetter(w, c)
      PROVE  RowsOK'
  <2>1. c \in Claim /\ c.attempts \in Nat
    BY <1>a, ClaimTypes DEF Claim
  <2>2. HoldsLease(w, c.job) /\ Live(c.job) /\ c.job \in JobId
    BY <1>3, <2>1, HeldIsLive DEF DeadLetter, Claim
  <2>3. EventOf(c) \in EventId /\ event[EventOf(c)].status # "handled"
    BY <1>a, <2>2 DEF Agreement, QueueAgrees, FinishedIsNotQueued, EventOf
  <2>4. RowOK(MarkFailed(event[EventOf(c)], c.attempts, TRUE))
    BY <1>a, <2>1, <2>3, WorkerRows DEF RowsOK
  <2>5. event' = [event EXCEPT ![EventOf(c)] = MarkFailed(event[EventOf(c)], c.attempts, TRUE)]
    BY <1>3 DEF DeadLetter
  <2>6. QED
    BY <1>3, <2>1, <2>2, <2>4, <2>5, RowsIfSettled DEF DeadLetter
<1>4. ASSUME NEW c \in buffer[w], DeadLetterRefused(w, c) \/ BeginHandling(w, c)
      PROVE  RowsOK'
  BY <1>4, <1>b DEF DeadLetterRefused, BeginHandling, inboxVars
<1>5. CASE CommitHandled(w)
  <2> DEFINE row == MarkHandled(MarkProcessing(event[EventOf(cur[w])], cur[w].attempts))
  <2>1. cur[w] \in Claim /\ cur[w].attempts \in Nat
    BY <1>5, <1>a, ClaimTypes DEF CommitHandled, HandlerReturns, Claim
  <2>2. HoldsLease(w, cur[w].job) /\ job' = Acked(job, cur[w].job) /\ Live(cur[w].job)
    BY <1>5, HeldIsLive DEF CommitHandled
  <2>3. EventOf(cur[w]) \in EventId
    BY <1>a, <2>1, <2>2, LiveJobsOfStored DEF EventOf, Claim
  <2>4. RowOK(row)
    BY <1>a, <2>1, <2>3, WorkerRows DEF RowsOK
  <2>5. event' = [event EXCEPT ![EventOf(cur[w])] = row]
    BY <1>5 DEF CommitHandled
  <2> HIDE DEF row
  <2>6. QED
    BY <2>1, <2>2, <2>4, <2>5, RowsIfSettled
<1>6. CASE FailJob(w)
  <2> DEFINE c == cur[w]
             t == Terminal(c)
             row == MarkFailed(event[EventOf(c)], c.attempts, t)
  <2>1. c \in Claim /\ c.attempts \in Nat /\ c.job \in JobId
    BY <1>6, <1>a, ClaimTypes DEF FailJob, Claim
  <2>2. HoldsLease(w, c.job) /\ Live(c.job)
    BY <1>6, HeldIsLive DEF FailJob, FailAccepted
  <2>3. EventOf(c) \in EventId /\ event[EventOf(c)].status # "handled"
    BY <1>a, <2>1, <2>2 DEF Agreement, QueueAgrees, FinishedIsNotQueued, EventOf
  <2>4. t \in BOOLEAN /\ (t \/ c.attempts < MaxAttempts)
    BY <2>1, ClaimsAssumption DEF Terminal
  <2>5. RowOK(row) /\ row.attempt_count = c.attempts
    BY <1>a, <2>1, <2>3, <2>4, WorkerRows DEF RowsOK
  <2>6. /\ event' = [event EXCEPT ![EventOf(c)] = row]
        /\ job' = IF t THEN Failed(job, c.job) ELSE Retried(job, c.job)
    BY <1>6 DEF FailJob
  <2>7. c.attempts <= job[c.job].attempts
    BY <2>1, <2>2 DEF ClaimsFit, Holds
  <2> HIDE DEF row, t, c
  <2>8. CASE t
    BY <2>1, <2>2, <2>5, <2>6, <2>8, RowsIfSettled
  <2>9. CASE ~t
    <3>1. KeepsJobs
      BY <1>a, <2>1, <2>2, <2>6, <2>9, RetryEffect
    <3>2. \A i \in JobId : Live(i)' /\ job'[i].event = EventOf(c) => i = c.job
      BY <1>a, <2>1, <2>2, <3>1
         DEF Agreement, QueueAgrees, OneLiveJob, KeepsJobs, SameEvents, EventOf
    <3>3. job'[c.job].attempts = job[c.job].attempts
      BY <1>a, <2>1, <2>6, <2>9 DEF Retried, Released, QueueTypeOK, JobRow
    <3>4. \A i \in JobId : Live(i)' /\ job'[i].event = EventOf(c) =>
            row.attempt_count <= job'[i].attempts
      BY <2>5, <2>7, <3>2, <3>3
    <3>5. QED
      BY <2>3, <2>5, <2>6, <3>1, <3>4, RowsIfWritten DEF KeepsJobs
  <2>10. QED
    BY <2>8, <2>9
<1>7. CASE AckRefused(w) \/ HandlerRaises(w) \/ FailRefused(w) \/ Restart(w) \/ Fault(w)
  BY <1>7, <1>b DEF AckRefused, HandlerRaises, FailRefused, Restart, Fault, Crash, LoopErrs,
                    DispatchErrs, inboxVars
<1>8. QED
  BY <1>1, <1>2, <1>3, <1>4, <1>5, <1>6, <1>7 DEF Step, Dispatch

\* Every step keeps columns and budgets.
LEMMA RowsStep ==
  ASSUME Agreement, ClaimsFit, RowsOK, [Next]_vars
  PROVE  RowsOK'
<1>1. RowsPre
  BY AgeStep, TypeStep DEF RowsPre, Agreement, TypeOK
<1>2. CASE Operator
  BY <1>1, <1>2, OperatorRows DEF Operator
<1>3. ASSUME NEW w \in Workers, Step(w) \/ Fault(w)
      PROVE  RowsOK'
  BY <1>1, <1>3, StepRows
<1>4. ASSUME NEW j \in JobId, LeaseExpires(j)
      PROVE  RowsOK'
  <2>1. NoNewJobs
    BY <1>4 DEF LeaseExpires, NoNewJobs, Live, Agreement, TypeOK, QueueTypeOK, JobRow
  <2>2. QED
    BY <1>1, <1>4, <2>1, RowsIfKept DEF LeaseExpires
<1>5. CASE UNCHANGED vars
  BY <1>1, <1>5, RowsIfKept DEF vars, NoNewJobs, Live
<1>6. QED
  BY <1>2, <1>3, <1>4, <1>5 DEF Next

-----------------------------------------------------------------------------
(* The invariant, and what follows from it.                                *)

OutcomeInv == Agreement /\ ClaimsFit /\ RowsOK

\* All of it holds of the empty inbox.
LEMMA OutcomeInit == Init => OutcomeInv
<1>1. Init => ClaimsFit
  BY DEF Init, WorkerInit, ClaimsFit, Holds, NoClaim, NoRef, JobId
<1>2. Init => RowsOK
  BY DEF Init, InboxInit, QueueInit, RowsOK, RowOK, BudgetFits, Live, LiveState, UnusedJob, Empty
<1>3. QED
  BY <1>1, <1>2, AgreementInit DEF OutcomeInv

\* All of it holds throughout.
LEMMA OutcomeInvariant == Spec => []OutcomeInv
<1>1. OutcomeInv /\ [Next]_vars => OutcomeInv'
  BY AgreementStep, ClaimsStep, RowsStep DEF OutcomeInv
<1>2. QED
  BY <1>1, OutcomeInit, PTL DEF Spec

\* The attempt_count of mark_failed stays below max_attempts until the event is dead,
\* and never exceeds what the live job has used: a stale batch, a refused retry or a
\* replay between two attempts never makes the row run ahead of the queue.
THEOREM BudgetKeeps == Spec => []AttemptBudget
<1>1. OutcomeInv => AttemptBudget
  BY DEF OutcomeInv, RowsOK, RowOK, BudgetFits, AttemptBudget
<1>2. QED
  BY <1>1, OutcomeInvariant, PTL

\* mark_handled, mark_failed, ignore and the reset of replay and requeue leave handled_at
\* and last_error saying what the status says, in every order they can come in.
THEOREM ColumnsKeep == Spec => []ColumnsAgree
<1>1. OutcomeInv => ColumnsAgree
  BY DEF OutcomeInv, RowsOK, RowOK, ColumnsAgree
<1>2. QED
  BY <1>1, OutcomeInvariant, PTL

-----------------------------------------------------------------------------
(* Commits.                                                                *)

\* The commit of a handler acks a live job; nothing else records a handled attempt.
LEMMA PaidStep ==
  ASSUME Agreement, CommitsArePaidFor, [Next]_vars
  PROVE  CommitsArePaidFor'
<1>a. TypeOK /\ TablesOK /\ JobsAge /\ attempts \in [EventId -> [Outcome -> Nat]]
  BY AgeStep DEF Agreement, TypeOK, TablesOK, InboxTypeOK
<1>1. ASSUME NEW w \in Workers, CommitHandled(w)
      PROVE  CommitsArePaidFor'
  <2>1. cur[w].job \in JobId /\ Live(cur[w].job)
    BY <1>1, <1>a, ClaimTypes, HeldIsLive DEF CommitHandled, HandlerReturns, Claim
  <2>2. QED
    BY <1>1, <1>a, <2>1, PaidIfAcked DEF CommitHandled, EventOf
<1>2. CASE UNCHANGED attempts
  BY <1>a, <1>2, PaidIfNoCommit DEF NoCommit
<1>3. CASE \E e, o : o \in {"failed", "dead", "ignored"} /\ attempts' = WithAttempt(e, o)
  BY <1>a, <1>3, PaidIfNoCommit DEF NoCommit, WithAttempt, Outcome
<1>4. CASE InboxNext
  BY <1>a, <1>4, OperatorPays
<1>5. ASSUME NEW w \in Workers, Step(w) \/ Fault(w)
      PROVE  CommitsArePaidFor'
  <2>1. CASE FailJob(w) \/ \E c \in buffer[w] : DeadLetter(w, c)
    BY <1>3, <2>1 DEF FailJob, DeadLetter, FailedOutcome
  <2>2. QED
    BY <1>1, <1>2, <1>5, <2>1
       DEF Step, Dispatch, ClaimBatch, Drain, DeadLetterRefused, BeginHandling, AckRefused,
           HandlerRaises, FailRefused, Restart, Fault, Crash, LoopErrs, DispatchErrs, inboxVars
<1>6. QED
  BY <1>2, <1>4, <1>5 DEF Next, Operator, LeaseExpires, vars

\* What a handler writes commits with its handled row, and each such commit has an acked
\* job of its own: whatever leases run out, batches go stale or processes die, one
\* honker_enqueue never makes a handler count twice.
THEOREM CommitsPaid == Spec => []CommitsArePaidFor
<1>1. Init => CommitsArePaidFor
  BY PaidInit DEF Init
<1>2. Agreement /\ CommitsArePaidFor /\ [Next]_vars => CommitsArePaidFor'
  BY PaidStep
<1>3. QED
  BY <1>1, <1>2, AgreementInvariant, PTL DEF Spec

-----------------------------------------------------------------------------
(* Settled events.                                                         *)

\* A worker writes to an event only while it holds the lease on a job of it, and an
\* event with a live job is neither handled nor dead.
LEMMA WorkerReopensNone ==
  ASSUME Agreement, NEW w \in Workers, Step(w) \/ Fault(w)
  PROVE  OperatorsReopen
<1>a. TypeOK /\ event \in [EventId -> EventRow]
  BY DEF Agreement, TypeOK, InboxTypeOK
<1>b. UNCHANGED event => OperatorsReopen
  BY DEF OperatorsReopen
<1>c. ASSUME NEW c \in Claim, HoldsLease(w, c.job)
      PROVE  EventOf(c) \in EventId /\ event[EventOf(c)].status \notin {"handled", "dead"}
  BY <1>c, HeldIsLive DEF Agreement, QueueAgrees, FinishedIsNotQueued, EventOf, Claim
<1>1. ASSUME NEW c \in buffer[w], DeadLetter(w, c)
      PROVE  OperatorsReopen
  <2>1. EventOf(c) \in EventId /\ event[EventOf(c)].status \notin {"handled", "dead"}
    BY <1>1, <1>a, <1>c, ClaimTypes DEF DeadLetter
  <2>2. QED
    BY <1>1, <1>a, <2>1, ReopenOne DEF DeadLetter
<1>2. CASE CommitHandled(w) \/ FailJob(w)
  <2>1. EventOf(cur[w]) \in EventId /\ event[EventOf(cur[w])].status \notin {"handled", "dead"}
    BY <1>2, <1>a, <1>c, ClaimTypes DEF CommitHandled, HandlerReturns, FailJob, FailAccepted
  <2>2. QED
    BY <1>2, <1>a, <2>1, ReopenOne DEF CommitHandled, FailJob
<1>3. QED
  BY <1>b, <1>1, <1>2
     DEF Step, Dispatch, ClaimBatch, Drain, DeadLetterRefused, BeginHandling, AckRefused,
         HandlerRaises, FailRefused, Restart, Fault, Crash, LoopErrs, DispatchErrs, inboxVars

\* Only an operator's replay, requeue, ignore or prune moves an event out of handled or
\* dead: a worker whose claim outlived its lease, or that dispatches a batch claimed long
\* ago, never reopens what another has settled.
THEOREM SettledStays == Spec => SettledUntilOperator
<1>1. Agreement /\ [Next]_vars => [OperatorsReopen]_vars
  <2>1. SUFFICES ASSUME Agreement, [Next]_vars
                 PROVE  OperatorsReopen \/ UNCHANGED vars
    OBVIOUS
  <2>2. CASE Operator
    BY <2>1, <2>2, OperatorReopens DEF Operator, Agreement, TypeOK, TablesOK
  <2>3. CASE \E w \in Workers : Step(w) \/ Fault(w)
    BY <2>1, <2>3, WorkerReopensNone
  <2>4. CASE \E j \in JobId : LeaseExpires(j)
    BY <2>4 DEF LeaseExpires, OperatorsReopen
  <2>5. QED
    BY <2>1, <2>2, <2>3, <2>4 DEF Next
<1>2. QED
  BY <1>1, AgreementInvariant, PTL DEF Spec, SettledUntilOperator

-----------------------------------------------------------------------------
(* The event lifecycle, which the inbox and its workers implement.         *)

\* At most one worker is inside a dispatch transaction, and what it decided at the
\* start of it is still so.
OneWriter ==
  /\ \A v, w \in Workers : pc[v] = "handling" /\ pc[w] = "handling" => v = w
  /\ \A w \in Workers : pc[w] = "handling" => ~ShortCircuits(cur[w])

LifeInv == Agreement /\ OneWriter

-----------------------------------------------------------------------------
(* One writer at a time.                                                   *)

\* At first nobody writes.
LEMMA OneWriterInit == Init => OneWriter
BY DEF Init, WorkerInit, OneWriter

\* A step that starts no dispatch and writes no event, whatever workers it stops.
LEMMA OneWriterKept ==
  ASSUME OneWriter,
         UNCHANGED event, SameEvents(JobId),
         \A v \in Workers : pc'[v] = "handling" => pc[v] = "handling" /\ cur'[v] = cur[v],
         \A v \in Workers : pc[v] = "handling" => cur[v].job \in JobId
  PROVE  OneWriter'
<1>1. \A v, w \in Workers : pc'[v] = "handling" /\ pc'[w] = "handling" => v = w
  BY DEF OneWriter
<1>2. ASSUME NEW w \in Workers, pc'[w] = "handling"
      PROVE  ~ShortCircuits(cur[w])'
  <2>1. EventOf(cur[w])' = EventOf(cur[w])
    BY <1>2 DEF EventOf, SameEvents
  <2>2. ~ShortCircuits(cur[w])
    BY <1>2 DEF OneWriter
  <2>3. QED
    BY <2>1, <2>2 DEF ShortCircuits, Exists
<1>3. QED
  BY <1>1, <1>2 DEF OneWriter

\* A step after which no worker is in a dispatch transaction.
LEMMA OneWriterFree ==
  ASSUME \A v \in Workers : pc'[v] # "handling"
  PROVE  OneWriter'
BY DEF OneWriter

\* A transaction that has begun keeps the others out.
LEMMA OneWriterStep ==
  ASSUME LifeInv, [Next]_vars
  PROVE  OneWriter'
<1>a. TypeOK /\ OneWriter
  BY DEF LifeInv, Agreement
<1>b. pc \in [Workers -> WorkerPc] /\ cur \in [Workers -> Claim \cup {NoClaim}]
      /\ QueueTypeOK
  BY <1>a DEF TypeOK, WorkerTypeOK
<1>c. \A v \in Workers : pc[v] = "handling" => cur[v].job \in JobId
  BY <1>a, ClaimTypes DEF Claim
<1>1. CASE Operator
  BY <1>1, OneWriterFree DEF Operator, WriterFree, workerVars
<1>2. ASSUME NEW w \in Workers, Step(w) \/ Fault(w)
      PROVE  OneWriter'
  <2>1. CASE ClaimBatch(w) \/ FailJob(w) \/ FailRefused(w)
    BY <2>1, <1>b, OneWriterFree DEF ClaimBatch, FailJob, FailRefused, Stops, WriterFree
  <2>2. ASSUME NEW c \in buffer[w], Drain(w, c) \/ DeadLetter(w, c) \/ DeadLetterRefused(w, c)
        PROVE  OneWriter'
    BY <2>2, <1>b, OneWriterFree DEF Drain, DeadLetter, DeadLetterRefused, NoHandler, Stops,
       Ready, WriterFree
  <2>3. ASSUME NEW c \in buffer[w], BeginHandling(w, c)
        PROVE  OneWriter'
    <3>1. /\ \A v \in Workers : pc'[v] = "handling" => v = w
          /\ cur'[w] = c /\ UNCHANGED <<event, job>>
      BY <2>3, <1>b DEF BeginHandling, Ready, WriterFree, inboxVars
    <3>2. ~ShortCircuits(c)'
      BY <2>3, <3>1 DEF BeginHandling, ShortCircuits, EventOf, Exists
    <3>3. ~ShortCircuits(cur[w])'
      BY <3>1, <3>2 DEF ShortCircuits, EventOf
    <3>4. QED
      BY <3>1, <3>3 DEF OneWriter
  <2>4. CASE CommitHandled(w) \/ AckRefused(w) \/ HandlerRaises(w)
    <3>1. pc[w] = "handling"
      BY <2>4 DEF CommitHandled, AckRefused, HandlerRaises, HandlerReturns
    <3>2. \A v \in Workers : pc'[v] # "handling"
      BY <2>4, <3>1, <1>a, <1>b DEF CommitHandled, AckRefused, HandlerRaises, Stops, OneWriter
    <3>3. QED
      BY <3>2, OneWriterFree
  <2>5. CASE Restart(w) \/ Fault(w)
    <3>1. /\ \A v \in Workers : pc'[v] = "handling" => pc[v] = "handling" /\ cur'[v] = cur[v]
          /\ UNCHANGED <<event, job>>
      BY <2>5, <1>b DEF Restart, Fault, Crash, LoopErrs, DispatchErrs, Stops, inboxVars
    <3>2. QED
      BY <3>1, <1>a, <1>c, OneWriterKept DEF SameEvents
  <2>6. QED
    BY <1>2, <2>1, <2>2, <2>3, <2>4, <2>5 DEF Step, Dispatch
<1>3. ASSUME NEW j \in JobId, LeaseExpires(j)
      PROVE  OneWriter'
  <2>1. SameEvents(JobId)
    BY <1>3, <1>b DEF LeaseExpires, QueueTypeOK, JobRow, SameEvents
  <2>2. UNCHANGED <<event, pc, cur>>
    BY <1>3 DEF LeaseExpires
  <2>3. QED
    BY <2>1, <2>2, <1>a, <1>c, OneWriterKept
<1>4. CASE UNCHANGED vars
  BY <1>4, <1>a, <1>c, OneWriterKept DEF vars, SameEvents
<1>5. QED
  BY <1>1, <1>2, <1>3, <1>4 DEF Next

\* The invariant the mapping rests on.
THEOREM LifeInvariant == Spec => []LifeInv
<1>1. Init => LifeInv
  BY AgreementInit, OneWriterInit DEF LifeInv
<1>2. LifeInv /\ [Next]_vars => LifeInv'
  BY AgreementStep, OneWriterStep DEF LifeInv
<1>3. QED
  BY <1>1, <1>2, PTL DEF Spec

-----------------------------------------------------------------------------
(* Every step is a step of the lifecycle, or none.                         *)

\* Workers' steps: Commit, FailOnce, Die, Forgive, or nothing.
LEMMA LifeWorker ==
  ASSUME LifeInv, NEW w \in Workers, Step(w) \/ Fault(w)
  PROVE  LifeStep
<1>a. TypeOK /\ OneWriter /\ TablesAgree /\ QueueAgrees /\ QueueTypeOK /\ InboxTypeOK
  BY AgreementOfTables DEF LifeInv, Agreement, TypeOK
<1>b. UNCHANGED inboxVars => LifeStep
  BY LifeStutter DEF inboxVars, KeepsJobs, SameEvents, Live
<1>1. CASE ClaimBatch(w)
  BY <1>1, <1>a, ClaimEffect, LifeStutter DEF ClaimBatch
<1>2. ASSUME NEW c \in buffer[w], Drain(w, c)
      PROVE  LifeStep
  <2>1. CASE HoldsLease(w, c.job)
    <3> DEFINE e == EventOf(c)
    <3>1. c.job \in JobId /\ Live(c.job)
      BY <2>1, <1>a, ClaimTypes, HeldIsLive
    <3>2. /\ e \in EventId /\ LifeOwed[e] /\ LifeOwed' = [LifeOwed EXCEPT ![e] = FALSE]
          /\ LifeStatus[e] = event[e].status
      BY <1>2, <1>a, <2>1, <3>1, SettleEffect, OwedIfSettled, OwedIfLive DEF Drain, EventOf
    <3>3. event[e].status = "ignored"
      BY <1>2, <1>a, <3>1, LiveIsStored DEF Drain, ShortCircuits, EventOf
    <3>4. LifeStatus' = LifeStatus /\ LifeCommits' = LifeCommits
      BY <1>2 DEF Drain, LifeStatus, LifeCommits
    <3> HIDE DEF e
    <3>5. Lifecycle!Forgive(e)
      BY <3>2, <3>3, <3>4 DEF Lifecycle!Forgive
    <3>6. QED
      BY <3>2, <3>5 DEF LifeStep, Lifecycle!LifeNext
  <2>2. CASE ~HoldsLease(w, c.job)
    BY <1>2, <1>b, <2>2 DEF Drain, inboxVars
  <2>3. QED
    BY <2>1, <2>2
<1>c. ASSUME NEW c \in Claim, HoldsLease(w, c.job)
      PROVE  /\ c.job \in JobId /\ Live(c.job) /\ c.attempts \in Nat
             /\ EventOf(c) = job[c.job].event /\ event[EventOf(c)] \in EventRow
  BY <1>a, <1>c, HeldIsLive, LiveIsStored DEF Claim, EventOf, InboxTypeOK
<1>3. ASSUME NEW c \in Claim, HoldsLease(w, c.job), NEW t \in BOOLEAN,
             event' = [event EXCEPT ![EventOf(c)] = MarkFailed(@, c.attempts, t)],
             attempts' = WithAttempt(EventOf(c), FailedOutcome(t)),
             job' = IF t THEN Failed(job, c.job) ELSE Retried(job, c.job)
      PROVE  LifeStep
  <2> DEFINE row == MarkFailed(event[EventOf(c)], c.attempts, t)
  <2>1. row.status = FailedOutcome(t)
    BY <1>3, <1>c, OutcomeStatus
  <2>2. event' = [event EXCEPT ![job[c.job].event] = row]
    BY <1>3, <1>c
  <2> HIDE DEF row
  <2>3. QED
    BY <1>3, <1>a, <1>c, <2>1, <2>2, LifeFailure
<1>4. ASSUME NEW c \in buffer[w], DeadLetter(w, c)
      PROVE  LifeStep
  BY <1>4, <1>a, <1>3, ClaimTypes DEF DeadLetter, FailedOutcome
<1>5. ASSUME NEW c \in buffer[w], DeadLetterRefused(w, c) \/ BeginHandling(w, c)
      PROVE  LifeStep
  BY <1>5, <1>b DEF DeadLetterRefused, BeginHandling
<1>6. CASE CommitHandled(w)
  <2> DEFINE c == cur[w]
             row == MarkHandled(MarkProcessing(event[EventOf(c)], c.attempts))
  <2>1. c \in Claim /\ HoldsLease(w, c.job)
    BY <1>6, <1>a, ClaimTypes DEF CommitHandled, HandlerReturns
  <2>2. row.status = "handled"
    BY <1>c, <2>1, OutcomeStatus
  <2>3. /\ event' = [event EXCEPT ![job[c.job].event] = row]
        /\ attempts' = WithAttempt(job[c.job].event, "handled") /\ job' = Acked(job, c.job)
    BY <1>6, <1>c, <2>1 DEF CommitHandled
  <2>4. event[job[c.job].event].status # "ignored"
    BY <1>6, <1>a, <1>c, <2>1 DEF CommitHandled, HandlerReturns, OneWriter, ShortCircuits
  <2> HIDE DEF row
  <2>5. QED
    BY <1>a, <1>c, <2>1, <2>2, <2>3, <2>4, LifeCommit
<1>7. CASE FailJob(w)
  <2>1. Terminal(cur[w]) \in BOOLEAN
    BY DEF Terminal
  <2>2. QED
    BY <1>7, <1>a, <1>3, <2>1, ClaimTypes DEF FailJob, FailAccepted
<1>8. CASE AckRefused(w) \/ HandlerRaises(w) \/ FailRefused(w) \/ Restart(w) \/ Fault(w)
  BY <1>8, <1>b DEF AckRefused, HandlerRaises, FailRefused, Restart, Fault, Crash, LoopErrs,
                    DispatchErrs
<1>9. QED
  BY <1>1, <1>2, <1>4, <1>5, <1>6, <1>7, <1>8 DEF Step, Dispatch

\* The inbox and its workers (ingest, the operators' calls, _dispatch_job and _fail_job,
\* with batches, leases, refused acks and crashes) implement the event lifecycle: a run is
\* owed from acceptance or reopening until the event is handled or dead, and a handler's
\* writes commit only against such a debt and never on an ignored event.
THEOREM RefinesLifecycle == Spec => ImplementsLifecycle
<1>1. Init => Lifecycle!LifeInit
  BY LifeStart DEF Init
<1>2. LifeInv /\ [Next]_vars => [Lifecycle!LifeNext]_(Lifecycle!lifeVars)
  <2>1. SUFFICES ASSUME LifeInv, [Next]_vars PROVE LifeStep
    BY DEF LifeStep
  <2>a. QueueTypeOK /\ TablesAgree
    BY <2>1, AgreementOfTables DEF LifeInv, Agreement, TypeOK
  <2>2. CASE Operator
    BY <2>a, <2>2, LifeOperator DEF Operator
  <2>3. CASE \E w \in Workers : Step(w) \/ Fault(w)
    BY <2>1, <2>3, LifeWorker
  <2>4. ASSUME NEW j \in JobId, LeaseExpires(j)
        PROVE  LifeStep
    <3>1. KeepsJobs
      BY <2>4, <2>a DEF LeaseExpires, KeepsJobs, SameEvents, Live, QueueTypeOK, JobRow
    <3>2. QED
      BY <2>4, <3>1, LifeStutter DEF LeaseExpires
  <2>5. CASE UNCHANGED vars
    BY <2>5, LifeStutter DEF vars, KeepsJobs, SameEvents, Live
  <2>6. QED
    BY <2>1, <2>2, <2>3, <2>4, <2>5 DEF Next
<1>3. QED
  BY <1>1, <1>2, LifeInvariant, PTL DEF Spec, ImplementsLifecycle, Lifecycle!LifeSpec
=============================================================================
