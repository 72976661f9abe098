---------------------------- MODULE InboxLemmas ----------------------------
(***************************************************************************)
(* What can be said of the inbox and its operations whichever workers      *)
(* serve it: types, what a step does to the live jobs as seen from the     *)
(* events, how jobs age, what a commit is paid with, and the links between *)
(* deliveries, events and jobs.  The proofs about the Python worker, the   *)
(* other bindings and the receivers rest on these lemmas.                  *)
(*                                                                         *)
(* A lemma assumes of the state before the step no more than it needs: the *)
(* types of the tables, or with them the agreement of queue and inbox, or  *)
(* the links.                                                              *)
(***************************************************************************)
EXTENDS InboxProperties, FiniteSetTheorems, TLAPS

-----------------------------------------------------------------------------
(* Types of the operators on rows.                                         *)

\* The transitions of an event row yield event rows (knocker_ops.rs, mark_* and reset_event).
LEMMA EventRowTypes ==
  ASSUME NEW row \in EventRow, NEW n \in Nat, NEW t \in BOOLEAN
  PROVE  /\ MarkProcessing(row, n) \in EventRow
         /\ MarkHandled(row) \in EventRow
         /\ MarkFailed(row, n, t) \in EventRow
         /\ MarkIgnored(row) \in EventRow
         /\ ResetEvent(row) \in EventRow
BY DEF EventRow, Status, MarkProcessing, MarkHandled, MarkFailed, FailedOutcome,
       MarkIgnored, ResetEvent

\* A row without content is an event row.
LEMMA EmptyTypes ==
  ASSUME NEW what \in NoRow \cup Status
  PROVE  Empty(what) \in EventRow
BY DEF Empty, EventRow

\* What the queue does to a job row yields a job row.
LEMMA JobRowTypes ==
  ASSUME NEW row \in JobRow, NEW how \in GoneState, NEW w \in Workers
  PROVE  /\ Retired(row, how) \in JobRow
         /\ Claimed(row, w) \in JobRow
         /\ Released(row) \in JobRow
<1>1. Retired(row, how) \in JobRow
  BY DEF JobRow, LiveState, GoneState, Retired
<1>2. Claimed(row, w) \in JobRow
  <2>1. row.attempts + 1 \in Nat
    BY DEF JobRow
  <2>2. QED
    BY <2>1 DEF JobRow, LiveState, Claimed
<1>3. Released(row) \in JobRow
  BY DEF JobRow, LiveState, Released
<1>4. QED
  BY <1>1, <1>2, <1>3

\* Tables of jobs stay tables of jobs under enqueue, ack, fail, retry and delete.
LEMMA QueueTypes ==
  ASSUME NEW jobs \in [JobId -> JobRow], NEW j \in JobId, NEW e \in Nat, NEW d \in Nat
  PROVE  /\ Enqueued(jobs, j, e, d) \in [JobId -> JobRow]
         /\ Acked(jobs, j) \in [JobId -> JobRow]
         /\ Failed(jobs, j) \in [JobId -> JobRow]
         /\ Retried(jobs, j) \in [JobId -> JobRow]
<1>1. Enqueued(jobs, j, e, d) \in [JobId -> JobRow]
  BY DEF Enqueued, UnusedJob, JobRow, LiveState
<1>2. \A row \in JobRow : Retired(row, "acked") \in JobRow /\ Retired(row, "dead") \in JobRow
                          /\ Released(row) \in JobRow
  BY DEF JobRow, LiveState, GoneState, Retired, Released
<1>3. QED
  BY <1>1, <1>2 DEF Acked, Failed, Retried

\* delete_live_jobs_for_event and its batched form leave a table of jobs.
LEMMA DeletionTypes ==
  ASSUME QueueTypeOK, NEW E, NEW how \in GoneState
  PROVE  WithoutLiveJobs(E, how) \in [JobId -> JobRow]
<1>1. \A row \in JobRow : Retired(row, how) \in JobRow
  BY DEF JobRow, LiveState, GoneState, Retired
<1>2. QED
  BY <1>1 DEF QueueTypeOK, WithoutLiveJobs

\* There are finitely many attempt rows.
LEMMA AttemptRowsFinite ==
  ASSUME attempts \in [EventId -> [Outcome -> Nat]], NEW E \in SUBSET EventId
  PROVE  IsFiniteSet(AttemptRows(E))
<1> DEFINE Rows(e, o) == {<<e, o, n>> : n \in 1..attempts[e][o]}
           Sets == {Rows(e, o) : e \in E, o \in Outcome}
<1>1. IsFiniteSet(E \X Outcome)
  <2>1. IsFiniteSet(EventId)
    BY InboxAssumption, FS_Interval DEF EventId
  <2>2. IsFiniteSet(Outcome)
    <3>1. Outcome = {} \cup {"handled"} \cup {"failed"} \cup {"dead"} \cup {"ignored"}
      BY DEF Outcome
    <3>2. QED
      BY <3>1, FS_EmptySet, FS_AddElement
  <2>3. QED
    BY <2>1, <2>2, FS_Subset, FS_Product
<1>2. ASSUME NEW e \in E, NEW o \in Outcome
      PROVE  IsFiniteSet(Rows(e, o))
  <2> DEFINE f == [n \in 1..attempts[e][o] |-> <<e, o, n>>]
  <2>1. f \in Surjection(1..attempts[e][o], Rows(e, o))
    BY DEF Surjection
  <2>2. IsFiniteSet(1..attempts[e][o])
    BY FS_Interval
  <2>3. QED
    BY <2>1, <2>2, FS_Surjection
<1>3. IsFiniteSet(Sets)
  <2> DEFINE g == [x \in E \X Outcome |-> Rows(x[1], x[2])]
  <2> HIDE DEF Rows
  <2>1. \A e \in E, o \in Outcome : g[<<e, o>>] = Rows(e, o)
    OBVIOUS
  <2>2. g \in [E \X Outcome -> Sets]
    OBVIOUS
  <2> HIDE DEF g
  <2>3. ASSUME NEW T \in Sets
        PROVE  \E x \in E \X Outcome : g[x] = T
    <3>1. PICK e \in E, o \in Outcome : T = Rows(e, o)
      OBVIOUS
    <3>2. <<e, o>> \in E \X Outcome /\ g[<<e, o>>] = T
      BY <2>1, <3>1
    <3>3. QED
      BY <3>2
  <2> HIDE DEF Sets
  <2>4. g \in Surjection(E \X Outcome, Sets)
    BY <2>2, <2>3 DEF Surjection
  <2>5. QED
    BY <1>1, <2>4, FS_Surjection
<1>4. \A T \in Sets : IsFiniteSet(T)
  BY <1>2
<1>5. AttemptRows(E) = UNION Sets
  BY DEF AttemptRows
<1> HIDE DEF Sets
<1>6. QED
  BY <1>3, <1>4, <1>5, FS_UNION

\* Counting the rows of a prune gives a number.
LEMMA PrunedCounts ==
  ASSUME attempts \in [EventId -> [Outcome -> Nat]]
  PROVE  /\ \A E \in SUBSET EventId :
              Cardinality(E) \in Nat /\ Cardinality(AttemptRows(E)) \in Nat
         /\ \A D \in SUBSET DeliveryId : Cardinality(D) \in Nat
         /\ \A J \in SUBSET JobId : Cardinality(J) \in Nat
<1>1. IsFiniteSet(EventId) /\ IsFiniteSet(DeliveryId) /\ IsFiniteSet(JobId)
  BY InboxAssumption, MaxJobsAssumption, FS_Interval DEF EventId, DeliveryId, JobId
<1>2. QED
  BY <1>1, AttemptRowsFinite, FS_Subset, FS_CardinalityType

-----------------------------------------------------------------------------
(* Type correctness.                                                       *)

\* The types of the tables, which every operation on them keeps.
TablesOK == QueueTypeOK /\ InboxTypeOK

\* The empty database has its types (bootstrap).
LEMMA TablesInit == InboxInit => TablesOK
<1>1. SUFFICES ASSUME InboxInit PROVE TablesOK
  OBVIOUS
<1>2. QueueTypeOK
  BY <1>1 DEF InboxInit, QueueInit, QueueTypeOK, UnusedJob, JobRow, NoRef
<1>3. Empty("absent") \in EventRow /\ EmptyDelivery("absent") \in DeliveryRow
  BY EmptyTypes DEF NoRow, EmptyDelivery, DeliveryRow, NoRef
<1>4. InboxTypeOK
  BY <1>1, <1>3 DEF InboxInit, InboxTypeOK, NoAttempts, AuditRow
<1>5. QED
  BY <1>2, <1>4 DEF TablesOK

\* Inserting a delivery keeps the deliveries' type (knocker_ops.rs, insert_delivery).
LEMMA DeliveryTypes ==
  ASSUME InboxTypeOK, NEW n \in Endpoints, NEW e \in Nat,
         NEW k \in Keys \cup {NoKey}, NEW t \in Kinds, InsertDelivery(n, e, k, t)
  PROVE  delivery' \in [DeliveryId -> DeliveryRow]
BY DEF InboxTypeOK, InsertDelivery, DeliveryRow

\* knocker_ingest keeps the tables' types.
LEMMA IngestTypes ==
  ASSUME TablesOK, NEW n \in Endpoints, NEW k \in Keys \cup {NoKey}, NEW t \in Kinds,
         Ingest(n, k, t)
  PROVE  TablesOK'
<1>1. CASE IngestInvalid(n, k, t)
  <2>1. delivery' \in [DeliveryId -> DeliveryRow]
    BY <1>1, DeliveryTypes DEF TablesOK, IngestInvalid, NoRef
  <2>2. QED
    BY <1>1, <2>1 DEF TablesOK, QueueTypeOK, InboxTypeOK, IngestInvalid
<1>2. CASE IngestDuplicate(n, k, t)
  <2>1. delivery' \in [DeliveryId -> DeliveryRow]
    BY <1>2, DeliveryTypes DEF TablesOK, IngestDuplicate, FindExisting, EventId
  <2>2. QED
    BY <1>2, <2>1 DEF TablesOK, QueueTypeOK, InboxTypeOK, IngestDuplicate
<1>3. CASE IngestNew(n, k, t)
  <2>1. PICK e \in EventId, j \in JobId :
          /\ event' = [event EXCEPT ![e] = [Empty("received") EXCEPT !.endpoint = n,
                                                                     !.key = k, !.kind = t]]
          /\ InsertDelivery(n, e, k, t)
          /\ job' = Enqueued(job, j, e, NoRef)
    BY <1>3 DEF IngestNew
  <2>2. delivery' \in [DeliveryId -> DeliveryRow]
    BY <2>1, DeliveryTypes DEF TablesOK, EventId
  <2>3. QueueTypeOK'
    <3>1. job \in [JobId -> JobRow] /\ e \in Nat /\ NoRef \in Nat
      BY DEF TablesOK, QueueTypeOK, EventId, NoRef
    <3>2. Enqueued(job, j, e, NoRef) \in [JobId -> JobRow]
      BY <3>1, QueueTypes
    <3>3. QED
      BY <2>1, <3>2 DEF QueueTypeOK
  <2>4. event' \in [EventId -> EventRow]
    <3>1. Empty("received") \in EventRow
      BY EmptyTypes DEF Status
    <3>2. [Empty("received") EXCEPT !.endpoint = n, !.key = k, !.kind = t] \in EventRow
      BY <3>1 DEF EventRow
    <3>3. QED
      BY <2>1, <3>2 DEF TablesOK, InboxTypeOK
  <2>5. QED
    BY <1>3, <2>2, <2>3, <2>4 DEF TablesOK, InboxTypeOK, IngestNew
<1>4. QED
  BY <1>1, <1>2, <1>3 DEF Ingest

\* Reopening an event keeps the tables' types (replay, requeue, replay_delivery).
LEMMA ReactivateTypes ==
  ASSUME TablesOK, NEW e \in EventId, NEW d \in Nat, Reactivate(e, d)
  PROVE  TablesOK'
<1>1. QueueTypeOK'
  <2>1. PICK j \in JobId : job' = Enqueued(WithoutLiveJobs({e}, "deleted"), j, e, d)
    BY DEF Reactivate
  <2>2. WithoutLiveJobs({e}, "deleted") \in [JobId -> JobRow]
    BY DeletionTypes DEF TablesOK, GoneState
  <2>3. e \in Nat
    BY DEF EventId
  <2>4. Enqueued(WithoutLiveJobs({e}, "deleted"), j, e, d) \in [JobId -> JobRow]
    BY <2>2, <2>3, QueueTypes
  <2>5. QED
    BY <2>1, <2>4 DEF QueueTypeOK
<1>2. event' \in [EventId -> EventRow]
  <2>1. ResetEvent(event[e]) \in EventRow
    BY EventRowTypes DEF TablesOK, InboxTypeOK
  <2>2. QED
    BY <2>1 DEF TablesOK, InboxTypeOK, Reactivate
<1>3. QED
  BY <1>1, <1>2 DEF TablesOK, InboxTypeOK, Reactivate

\* Both prunes keep the tables' types (knocker_prune_events, knocker_prune_orphan_deliveries).
LEMMA PruneTypes ==
  ASSUME TablesOK, NEW S, NEW c, NEW n, PruneEvents(S, c, n) \/ PruneOrphanDeliveries(c, n)
  PROVE  TablesOK'
<1> USE DEF TablesOK
<1>1. /\ \A E \in SUBSET EventId, D \in SUBSET DeliveryId, J \in SUBSET JobId :
           Audited(E, D, J) \in AuditRow
      /\ Empty("pruned") \in EventRow
      /\ EmptyDelivery("pruned") \in DeliveryRow
  <2>1. \A E \in SUBSET EventId, D \in SUBSET DeliveryId, J \in SUBSET JobId :
           Audited(E, D, J) \in AuditRow
    <3>1. SUFFICES ASSUME NEW E \in SUBSET EventId, NEW D \in SUBSET DeliveryId,
                          NEW J \in SUBSET JobId
                   PROVE  Audited(E, D, J) \in AuditRow
      OBVIOUS
    <3>2. /\ Cardinality(E) \in Nat /\ Cardinality(AttemptRows(E)) \in Nat
          /\ Cardinality(D) \in Nat /\ Cardinality(J) \in Nat
      BY PrunedCounts DEF InboxTypeOK
    <3>3. /\ audit.rows + 1 \in Nat
          /\ audit.events + Cardinality(E) \in Nat
          /\ audit.deliveries + Cardinality(D) \in Nat
          /\ audit.attempts + Cardinality(AttemptRows(E)) \in Nat
          /\ audit.jobs + Cardinality(J) \in Nat
      BY <3>2 DEF InboxTypeOK, AuditRow
    <3>4. QED
      BY <3>3 DEF Audited, AuditRow
  <2>2. QED
    BY <2>1, EmptyTypes DEF NoRow, EmptyDelivery, DeliveryRow, NoRef
<1>2. CASE PruneEvents(S, c, n)
  <2>1. PICK E \in SUBSET EventId, D \in SUBSET DeliveryId, J \in SUBSET JobId :
          /\ job' = WithoutLiveJobs(E, "pruned")
          /\ delivery' = [d \in DeliveryId |-> IF d \in D THEN EmptyDelivery("pruned")
                                                          ELSE delivery[d]]
          /\ event' = [e \in EventId |-> IF e \in E THEN Empty("pruned") ELSE event[e]]
          /\ audit' = Audited(E, D, J)
          /\ UNCHANGED <<endpoint, attempts>>
    BY <1>2 DEF PruneEvents, Oldest
  <2>2. QueueTypeOK'
    BY <2>1, DeletionTypes DEF QueueTypeOK, GoneState
  <2>3. QED
    BY <1>1, <2>1, <2>2 DEF InboxTypeOK
<1>3. CASE PruneOrphanDeliveries(c, n)
  <2>1. PICK D \in SUBSET DeliveryId :
          /\ delivery' = [d \in DeliveryId |-> IF d \in D THEN EmptyDelivery("pruned")
                                                          ELSE delivery[d]]
          /\ audit' = Audited({}, D, {})
          /\ UNCHANGED <<endpoint, event, attempts, job>>
    BY <1>3 DEF PruneOrphanDeliveries, Oldest, OrphanCandidates
  <2>2. QED
    BY <1>1, <2>1 DEF InboxTypeOK, QueueTypeOK
<1>4. QED
  BY <1>2, <1>3

\* An operator's call keeps the tables' types.
LEMMA OperatorTypes ==
  ASSUME TablesOK, InboxNext
  PROVE  TablesOK'
<1>1. CASE \E n \in Endpoints, enabled \in BOOLEAN : EndpointUpsert(n, enabled)
  BY <1>1 DEF TablesOK, QueueTypeOK, InboxTypeOK, EndpointUpsert
<1>2. CASE \E n \in Endpoints, k \in Keys \cup {NoKey}, t \in Kinds : Ingest(n, k, t)
  BY <1>2, IngestTypes
<1>3. CASE \E e \in EventId : Ignore(e)
  <2>1. PICK e \in EventId : Ignore(e)
    BY <1>3
  <2>2. MarkIgnored(event[e]) \in EventRow
    BY EventRowTypes DEF TablesOK, InboxTypeOK
  <2>3. WithAttempt(e, "ignored") \in [EventId -> [Outcome -> Nat]]
    BY DEF TablesOK, InboxTypeOK, WithAttempt, Outcome
  <2>4. QED
    BY <2>1, <2>2, <2>3 DEF TablesOK, QueueTypeOK, InboxTypeOK, Ignore
<1>4. CASE \E e \in EventId : Replay(e) \/ Requeue(e)
  BY <1>4, ReactivateTypes DEF Replay, Requeue, NoRef
<1>5. CASE \E d \in DeliveryId : ReplayDelivery(d)
  BY <1>5, ReactivateTypes DEF ReplayDelivery, Exists, DeliveryId
<1>6. CASE \E S \in PruneStatuses, c \in 1..MaxEvents + 1, n \in 1..MaxEvents :
             PruneEvents(S, c, n)
  BY <1>6, PruneTypes
<1>7. CASE \E c \in 1..MaxDeliveries + 1, n \in 1..MaxDeliveries : PruneOrphanDeliveries(c, n)
  BY <1>7, PruneTypes
<1>8. QED
  BY <1>1, <1>2, <1>3, <1>4, <1>5, <1>6, <1>7 DEF InboxNext

\* What a worker writes when it is done with job j has its type: the queue after a claim,
\* an ack, a failure or a retry, the event and the attempts after an outcome.
LEMMA OutcomeTypes ==
  ASSUME TablesOK, NEW j \in JobId, NEW n \in Nat, NEW e
  PROVE  /\ Acked(job, j) \in [JobId -> JobRow]
         /\ Failed(job, j) \in [JobId -> JobRow]
         /\ Retried(job, j) \in [JobId -> JobRow]
         /\ [event EXCEPT ![e] = MarkHandled(MarkProcessing(@, n))] \in [EventId -> EventRow]
         /\ \A t \in BOOLEAN : [event EXCEPT ![e] = MarkFailed(@, n, t)] \in [EventId -> EventRow]
         /\ \A o \in Outcome : WithAttempt(e, o) \in [EventId -> [Outcome -> Nat]]
<1>1. job \in [JobId -> JobRow] /\ event \in [EventId -> EventRow]
      /\ attempts \in [EventId -> [Outcome -> Nat]]
  BY DEF TablesOK, QueueTypeOK, InboxTypeOK
<1>2. /\ Acked(job, j) \in [JobId -> JobRow]
      /\ Failed(job, j) \in [JobId -> JobRow]
      /\ Retried(job, j) \in [JobId -> JobRow]
  BY <1>1, QueueTypes DEF NoRef
<1>3. [event EXCEPT ![e] = MarkHandled(MarkProcessing(@, n))] \in [EventId -> EventRow]
  <2>1. \A row \in EventRow : MarkHandled(MarkProcessing(row, n)) \in EventRow
    BY EventRowTypes
  <2>2. QED
    BY <1>1, <2>1
<1>4. ASSUME NEW t \in BOOLEAN
      PROVE  [event EXCEPT ![e] = MarkFailed(@, n, t)] \in [EventId -> EventRow]
  <2>1. \A row \in EventRow : MarkFailed(row, n, t) \in EventRow
    BY EventRowTypes
  <2>2. QED
    BY <1>1, <2>1
<1>5. \A o \in Outcome : WithAttempt(e, o) \in [EventId -> [Outcome -> Nat]]
  <2>1. \A f \in [Outcome -> Nat], o \in Outcome : [f EXCEPT ![o] = @ + 1] \in [Outcome -> Nat]
    OBVIOUS
  <2>2. QED
    BY <1>1, <2>1 DEF WithAttempt
<1>6. QED
  BY <1>2, <1>3, <1>4, <1>5

-----------------------------------------------------------------------------
(* What a step does to the live jobs, seen from the events.                *)

SameEvents(J) == \A i \in J : job'[i].event = job[i].event

\* Claims, retries and leases: no job enters or leaves the queue.
KeepsJobs == SameEvents(JobId) /\ \A i \in JobId : Live(i)' <=> Live(i)

\* An ack or a failure: exactly job j leaves.
SettlesJob(j) ==
  /\ Live(j)
  /\ SameEvents(JobId)
  /\ \A i \in JobId : Live(i)' <=> Live(i) /\ i # j

\* Deleting the live jobs of the events of E.
DropsJobs(E) ==
  /\ SameEvents(JobId)
  /\ \A i \in JobId : Live(i)' <=> Live(i) /\ job[i].event \notin E

\* The live jobs of e, if any, make way for one fresh job.
RenewsJob(e) ==
  \E j \in JobId :
    /\ ~Live(j) /\ Live(j)' /\ job'[j].event = e
    /\ SameEvents(JobId \ {j})
    /\ \A i \in JobId \ {j} : Live(i)' <=> Live(i) /\ job[i].event # e

\* honker_ack and honker_fail take one job out of the queue.
LEMMA SettleEffect ==
  ASSUME QueueTypeOK, NEW j \in JobId, Live(j), job' = Acked(job, j) \/ job' = Failed(job, j)
  PROVE  SettlesJob(j)
<1>1. PICK how \in GoneState : job' = [job EXCEPT ![j] = Retired(@, how)]
  BY DEF Acked, Failed, GoneState
<1>2. job'[j].event = job[j].event /\ job'[j].state = how
  BY <1>1 DEF QueueTypeOK, JobRow, Retired
<1>3. \A i \in JobId \ {j} : job'[i] = job[i]
  BY <1>1 DEF QueueTypeOK
<1>4. ~Live(j)'
  BY <1>2 DEF Live, LiveState, GoneState
<1>5. QED
  BY <1>2, <1>3, <1>4 DEF SettlesJob, SameEvents, Live

\* honker_retry keeps the job in the queue.
LEMMA RetryEffect ==
  ASSUME QueueTypeOK, NEW j \in JobId, Live(j), job' = Retried(job, j)
  PROVE  KeepsJobs
BY DEF QueueTypeOK, KeepsJobs, SameEvents, Live, LiveState, Retried, Released, JobRow

\* honker_claim_batch hands out jobs that are in the queue and stay there.
LEMMA ClaimEffect ==
  ASSUME QueueTypeOK, NEW w, NEW S, \A j \in S : Claimable(j),
         job' = [j \in JobId |-> IF j \in S THEN Claimed(job[j], w) ELSE job[j]]
  PROVE  KeepsJobs
<1>1. \A j \in S : Live(j)
  BY DEF Claimable, Live, LiveState
<1>2. \A j \in JobId : Claimed(job[j], w).event = job[j].event
                       /\ Claimed(job[j], w).state = "claimed"
  BY DEF QueueTypeOK, JobRow, Claimed
<1>3. QED
  BY <1>1, <1>2 DEF KeepsJobs, SameEvents, Live, LiveState

\* delete_live_jobs takes out the jobs of the events it is given, and no other.
LEMMA DropEffect ==
  ASSUME QueueTypeOK, NEW E, NEW how \in GoneState, job' = WithoutLiveJobs(E, how)
  PROVE  DropsJobs(E)
<1>1. \A i \in JobId : job'[i] = IF Live(i) /\ job[i].event \in E
                                 THEN Retired(job[i], how) ELSE job[i]
  BY DEF WithoutLiveJobs
<1>2. \A i \in JobId : Retired(job[i], how).event = job[i].event
                       /\ Retired(job[i], how).state = how
  BY DEF QueueTypeOK, JobRow, Retired
<1>3. QED
  BY <1>1, <1>2 DEF DropsJobs, SameEvents, Live, LiveState, GoneState

\* Deleting the live jobs of e and enqueueing a job leaves exactly the new one.
LEMMA RenewEffect ==
  ASSUME QueueTypeOK, NEW e \in EventId, NEW d \in Nat, NEW j \in JobId, NextJobId(j),
         job' = Enqueued(WithoutLiveJobs({e}, "deleted"), j, e, d)
  PROVE  RenewsJob(e)
<1>1. WithoutLiveJobs({e}, "deleted") \in [JobId -> JobRow]
  BY DeletionTypes DEF GoneState
<1>2. \A i \in JobId \ {j} : job'[i] = IF Live(i) /\ job[i].event = e
                                       THEN Retired(job[i], "deleted") ELSE job[i]
  BY <1>1 DEF Enqueued, WithoutLiveJobs
<1>3. job'[j].event = e /\ job'[j].state = "pending"
  BY <1>1 DEF Enqueued, UnusedJob
<1>4. ~Live(j) /\ Live(j)'
  BY <1>3 DEF NextJobId, Live, LiveState
<1>5. \A i \in JobId : Retired(job[i], "deleted").event = job[i].event
                       /\ Retired(job[i], "deleted").state = "deleted"
  BY DEF QueueTypeOK, JobRow, Retired
<1>6. SameEvents(JobId \ {j})
  BY <1>2, <1>5 DEF SameEvents
<1>7. \A i \in JobId \ {j} : Live(i)' <=> Live(i) /\ job[i].event # e
  BY <1>2, <1>5 DEF Live, LiveState
<1>8. QED
  BY <1>3, <1>4, <1>6, <1>7 DEF RenewsJob

\* A first job for an event that has none.
LEMMA EnqueueEffect ==
  ASSUME QueueTypeOK, NEW e \in EventId, NEW j \in JobId, NextJobId(j),
         \A i \in JobId : Live(i) => job[i].event # e,
         job' = Enqueued(job, j, e, NoRef)
  PROVE  RenewsJob(e)
<1>1. job'[j].event = e /\ job'[j].state = "pending"
  BY DEF QueueTypeOK, Enqueued, UnusedJob
<1>2. ~Live(j) /\ Live(j)'
  BY <1>1 DEF NextJobId, Live, LiveState
<1>3. \A i \in JobId \ {j} : job'[i] = job[i]
  BY DEF QueueTypeOK, Enqueued
<1>4. QED
  BY <1>1, <1>2, <1>3 DEF RenewsJob, SameEvents, Live

-----------------------------------------------------------------------------
(* Why each effect, with what the step does to the events, keeps queue and *)
(* inbox in agreement.                                                     *)

QueueAgrees == OneLiveJob /\ UnfinishedIsQueued /\ FinishedIsNotQueued

TablesAgree == TablesOK /\ QueueAgrees

\* Only e changes its status, if any event does.
OnlyChanges(e) == \A f \in EventId \ {e} : event'[f].status = event[f].status

\* Nothing the agreement looks at changes.
LEMMA AgreesIfKept ==
  ASSUME QueueAgrees, KeepsJobs, \A e \in EventId : event'[e].status = event[e].status
  PROVE  QueueAgrees'
BY DEF QueueAgrees, OneLiveJob, UnfinishedIsQueued, FinishedIsNotQueued, KeepsJobs, SameEvents

\* A failure that leaves its job in the queue, or an ignore.
LEMMA AgreesIfOpen ==
  ASSUME QueueAgrees, KeepsJobs, NEW e \in EventId, OnlyChanges(e),
         \/ event'[e].status = "ignored"
         \/ event'[e].status = "failed" /\ \E j \in JobId : Live(j) /\ job[j].event = e
  PROVE  QueueAgrees'
BY DEF QueueAgrees, OneLiveJob, UnfinishedIsQueued, FinishedIsNotQueued, KeepsJobs,
       SameEvents, OnlyChanges

\* A job settled together with its event, or drained for an event that needs none.
LEMMA AgreesIfSettled ==
  ASSUME QueueAgrees, NEW j \in JobId, SettlesJob(j), OnlyChanges(job[j].event),
         event'[job[j].event].status \notin {"received", "failed"}
  PROVE  QueueAgrees'
<1> USE DEF SettlesJob, SameEvents
<1>1. OneLiveJob'
  BY DEF QueueAgrees, OneLiveJob
<1>2. UnfinishedIsQueued'
  BY DEF QueueAgrees, UnfinishedIsQueued, OnlyChanges
<1>3. FinishedIsNotQueued'
  BY DEF QueueAgrees, OneLiveJob, FinishedIsNotQueued, OnlyChanges
<1>4. QED
  BY <1>1, <1>2, <1>3 DEF QueueAgrees

\* A new or reopened event with its fresh job.
LEMMA AgreesIfRenewed ==
  ASSUME QueueAgrees, NEW e \in EventId, RenewsJob(e), OnlyChanges(e),
         event'[e].status = "received"
  PROVE  QueueAgrees'
BY DEF QueueAgrees, OneLiveJob, UnfinishedIsQueued, FinishedIsNotQueued, RenewsJob,
       SameEvents, OnlyChanges

\* Events pruned together with their jobs.
LEMMA AgreesIfPruned ==
  ASSUME QueueAgrees, NEW E \in SUBSET EventId, DropsJobs(E),
         \A e \in EventId \ E : event'[e].status = event[e].status,
         \A e \in E : event'[e].status = "pruned"
  PROVE  QueueAgrees'
BY DEF QueueAgrees, OneLiveJob, UnfinishedIsQueued, FinishedIsNotQueued, DropsJobs, SameEvents

\* The empty inbox agrees with the empty queue.
LEMMA AgreesInit == InboxInit => QueueAgrees
BY DEF InboxInit, QueueInit, QueueAgrees, OneLiveJob, UnfinishedIsQueued, FinishedIsNotQueued,
       Live, LiveState, UnusedJob, Empty

\* A lease is held on a live job.
LEMMA HeldIsLive ==
  ASSUME NEW w, NEW j, HoldsLease(w, j)
  PROVE  Live(j)
BY DEF HoldsLease, Live, LiveState

\* While queue and inbox agree, a live job's event is stored.
LEMMA LiveIsStored ==
  ASSUME QueueAgrees, NEW j \in JobId, Live(j)
  PROVE  job[j].event \in EventId /\ Exists(job[j].event)
BY DEF QueueAgrees, FinishedIsNotQueued, Exists, NoRow

\* replay, requeue and replay_delivery.
LEMMA ReactivateAgrees ==
  ASSUME TablesAgree, NEW e \in EventId, NEW d \in Nat, Reactivate(e, d)
  PROVE  QueueAgrees'
<1>1. RenewsJob(e)
  BY RenewEffect DEF TablesAgree, TablesOK, Reactivate
<1>2. OnlyChanges(e) /\ event'[e].status = "received"
  <2>1. event[e] \in EventRow /\ event \in [EventId -> EventRow]
    BY DEF TablesAgree, TablesOK, InboxTypeOK
  <2>2. ResetEvent(event[e]).status = "received"
    BY <2>1 DEF EventRow, ResetEvent
  <2>3. QED
    BY <2>1, <2>2 DEF Reactivate, OnlyChanges
<1>3. QED
  BY <1>1, <1>2, AgreesIfRenewed DEF TablesAgree

\* An operator's call keeps queue and inbox in agreement.
LEMMA OperatorAgrees ==
  ASSUME TablesAgree, InboxNext
  PROVE  QueueAgrees'
<1>a. QueueTypeOK /\ event \in [EventId -> EventRow] /\ QueueAgrees
  BY DEF TablesAgree, TablesOK, InboxTypeOK
<1>b. UNCHANGED <<event, job>> => QueueAgrees'
  BY <1>a, AgreesIfKept DEF KeepsJobs, SameEvents, Live
<1>1. CASE \E n \in Endpoints, enabled \in BOOLEAN : EndpointUpsert(n, enabled)
  BY <1>1, <1>b DEF EndpointUpsert
<1>2. ASSUME NEW n \in Endpoints, NEW k \in Keys \cup {NoKey}, NEW t \in Kinds, Ingest(n, k, t)
      PROVE  QueueAgrees'
  <2>1. CASE IngestInvalid(n, k, t) \/ IngestDuplicate(n, k, t)
    BY <2>1, <1>b DEF IngestInvalid, IngestDuplicate
  <2>2. CASE IngestNew(n, k, t)
    <3>1. PICK e \in EventId, j \in JobId :
            /\ NextEventId(e) /\ NextJobId(j)
            /\ event' = [event EXCEPT ![e] = [Empty("received") EXCEPT !.endpoint = n,
                                                                       !.key = k, !.kind = t]]
            /\ job' = Enqueued(job, j, e, NoRef)
      BY <2>2 DEF IngestNew
    <3>2. \A i \in JobId : Live(i) => job[i].event # e
      BY <1>a, <3>1 DEF NextEventId, QueueAgrees, FinishedIsNotQueued
    <3>3. RenewsJob(e)
      BY <1>a, <3>1, <3>2, EnqueueEffect
    <3>4. OnlyChanges(e) /\ event'[e].status = "received"
      BY <1>a, <3>1 DEF OnlyChanges, Empty
    <3>5. QED
      BY <1>a, <3>3, <3>4, AgreesIfRenewed
  <2>3. QED
    BY <1>2, <2>1, <2>2 DEF Ingest
<1>3. ASSUME NEW e \in EventId, Ignore(e)
      PROVE  QueueAgrees'
  <2>1. OnlyChanges(e) /\ event'[e].status = "ignored"
    BY <1>3, <1>a DEF Ignore, MarkIgnored, OnlyChanges, EventRow
  <2>2. KeepsJobs
    BY <1>3 DEF Ignore, KeepsJobs, SameEvents, Live
  <2>3. QED
    BY <1>a, <2>1, <2>2, AgreesIfOpen
<1>4. ASSUME NEW e \in EventId, Replay(e) \/ Requeue(e)
      PROVE  QueueAgrees'
  BY <1>4, ReactivateAgrees DEF Replay, Requeue, NoRef
<1>5. ASSUME NEW d \in DeliveryId, ReplayDelivery(d)
      PROVE  QueueAgrees'
  BY <1>5, ReactivateAgrees DEF ReplayDelivery, Exists, DeliveryId
<1>6. ASSUME NEW S \in PruneStatuses, NEW c, NEW n, PruneEvents(S, c, n)
      PROVE  QueueAgrees'
  <2>1. PICK E \in SUBSET EventId :
          /\ job' = WithoutLiveJobs(E, "pruned")
          /\ event' = [e \in EventId |-> IF e \in E THEN Empty("pruned") ELSE event[e]]
    BY <1>6 DEF PruneEvents, Oldest
  <2>2. DropsJobs(E)
    BY <1>a, <2>1, DropEffect DEF GoneState
  <2>3. /\ \A e \in EventId \ E : event'[e].status = event[e].status
        /\ \A e \in E : event'[e].status = "pruned"
    BY <2>1 DEF Empty
  <2>4. QED
    BY <1>a, <2>2, <2>3, AgreesIfPruned
<1>7. ASSUME NEW c, NEW n, PruneOrphanDeliveries(c, n)
      PROVE  QueueAgrees'
  BY <1>7, <1>b DEF PruneOrphanDeliveries
<1>8. QED
  BY <1>1, <1>2, <1>3, <1>4, <1>5, <1>6, <1>7 DEF InboxNext

\* A job settled with its event's row: by an ack after the handler, or by a failure.
LEMMA SettleAgrees ==
  ASSUME TablesAgree, NEW j \in JobId, Live(j),
         NEW row, row.status = "handled" \/ row.status = "dead",
         event' = [event EXCEPT ![job[j].event] = row],
         job' = Acked(job, j) \/ job' = Failed(job, j)
  PROVE  QueueAgrees'
<1>1. SettlesJob(j)
  BY SettleEffect DEF TablesAgree, TablesOK
<1>2. job[j].event \in EventId
  BY LiveIsStored DEF TablesAgree
<1>3. OnlyChanges(job[j].event) /\ event'[job[j].event] = row
  BY <1>2 DEF TablesAgree, TablesOK, InboxTypeOK, OnlyChanges
<1>4. QED
  BY <1>1, <1>3, AgreesIfSettled DEF TablesAgree

\* A failure that is not the last: the job goes back to the queue.
LEMMA RetryAgrees ==
  ASSUME TablesAgree, NEW j \in JobId, Live(j),
         NEW row, row.status = "failed",
         event' = [event EXCEPT ![job[j].event] = row], job' = Retried(job, j)
  PROVE  QueueAgrees'
<1>1. KeepsJobs
  BY RetryEffect DEF TablesAgree, TablesOK
<1>2. job[j].event \in EventId
  BY LiveIsStored DEF TablesAgree
<1>3. OnlyChanges(job[j].event) /\ event'[job[j].event].status = "failed"
  BY <1>2 DEF TablesAgree, TablesOK, InboxTypeOK, OnlyChanges
<1>4. QED
  BY <1>1, <1>2, <1>3, AgreesIfOpen DEF TablesAgree

\* The rows a worker writes say how the run ended.
LEMMA OutcomeStatus ==
  ASSUME NEW row \in EventRow, NEW n \in Nat, NEW t \in BOOLEAN
  PROVE  /\ MarkHandled(MarkProcessing(row, n)).status = "handled"
         /\ MarkFailed(row, n, t).status = FailedOutcome(t)
<1>1. MarkProcessing(row, n) \in EventRow
  BY EventRowTypes
<1>2. \A r \in EventRow : MarkHandled(r).status = "handled"
  BY DEF MarkHandled, EventRow
<1>3. MarkFailed(row, n, t).status = FailedOutcome(t)
  BY DEF MarkFailed, EventRow
<1>4. QED
  BY <1>1, <1>2, <1>3

-----------------------------------------------------------------------------
(* How a job's row may change.                                             *)

\* A job that has been enqueued keeps its event and stays enqueued; its attempts only
\* grow while it lives; once gone it stays gone, and acked stays acked.
JobsAge ==
  \A i \in JobId : job[i].state # "unused" =>
    /\ job'[i].state # "unused" /\ job'[i].event = job[i].event
    /\ job[i].state = "acked" => job'[i].state = "acked"
    /\ Live(i)' => Live(i) /\ job[i].attempts <= job'[i].attempts

\* A queue that does not change.
LEMMA AgeIfSame ==
  ASSUME QueueTypeOK, UNCHANGED job
  PROVE  JobsAge
BY DEF QueueTypeOK, JobRow, JobsAge, Live

\* An ack, a failure or a retry of a live job.
LEMMA AgeIfSettled ==
  ASSUME QueueTypeOK, NEW j \in JobId, Live(j),
         job' = Acked(job, j) \/ job' = Failed(job, j) \/ job' = Retried(job, j)
  PROVE  JobsAge
<1>1. \A i \in JobId \ {j} : job'[i] = job[i]
  BY DEF QueueTypeOK, Acked, Failed, Retried
<1>2. /\ job'[j].event = job[j].event
      /\ \/ job'[j].state \in {"acked", "dead"}
         \/ job'[j].state = "pending" /\ job'[j].attempts = job[j].attempts
  <2>1. job[j] \in JobRow
    BY DEF QueueTypeOK
  <2>2. \A how \in GoneState : Retired(job[j], how).event = job[j].event
                               /\ Retired(job[j], how).state = how
    BY <2>1 DEF JobRow, Retired
  <2>3. /\ Released(job[j]).event = job[j].event /\ Released(job[j]).state = "pending"
        /\ Released(job[j]).attempts = job[j].attempts
    BY <2>1 DEF JobRow, Released
  <2>4. job'[j] \in {Retired(job[j], "acked"), Retired(job[j], "dead"), Released(job[j])}
    BY DEF QueueTypeOK, Acked, Failed, Retried
  <2>5. QED
    BY <2>2, <2>3, <2>4 DEF GoneState
<1>3. job[j].state # "acked" /\ job[j].attempts \in Nat
  BY DEF Live, LiveState, QueueTypeOK, JobRow
<1>4. \A i \in JobId : job[i].attempts \in Nat
  BY DEF QueueTypeOK, JobRow
<1>5. QED
  BY <1>1, <1>2, <1>3, <1>4 DEF JobsAge, Live, LiveState

\* A deletion, alone or before an enqueue.
LEMMA AgeIfDropped ==
  ASSUME QueueTypeOK, NEW E, NEW how \in GoneState,
         \A i \in JobId : job[i].state # "unused" => job'[i] = WithoutLiveJobs(E, how)[i]
  PROVE  JobsAge
<1>1. ASSUME NEW i \in JobId, job[i].state # "unused"
      PROVE  \/ job'[i] = job[i]
             \/ Live(i) /\ job'[i].event = job[i].event /\ job'[i].state = how
  BY <1>1 DEF WithoutLiveJobs, QueueTypeOK, JobRow, Retired
<1>2. \A i \in JobId : job[i].attempts \in Nat
  BY DEF QueueTypeOK, JobRow
<1>3. QED
  BY <1>1, <1>2 DEF JobsAge, Live, LiveState, GoneState

\* A fresh job is enqueued, after the stale ones of its event are deleted.
LEMMA AgeIfRenewed ==
  ASSUME QueueTypeOK, NEW e, NEW d, NEW j \in JobId, NextJobId(j),
         \/ job' = Enqueued(WithoutLiveJobs({e}, "deleted"), j, e, d)
         \/ job' = Enqueued(job, j, e, d)
  PROVE  JobsAge
<1>1. job[j].state = "unused"
  BY DEF NextJobId
<1>2. CASE job' = Enqueued(WithoutLiveJobs({e}, "deleted"), j, e, d)
  <2>1. \A i \in JobId \ {j} : job'[i] = WithoutLiveJobs({e}, "deleted")[i]
    BY <1>2 DEF Enqueued, WithoutLiveJobs
  <2>2. QED
    BY <1>1, <2>1, AgeIfDropped DEF GoneState
<1>3. CASE job' = Enqueued(job, j, e, d)
  <2>1. \A i \in JobId \ {j} : job'[i] = job[i]
    BY <1>3 DEF Enqueued, QueueTypeOK
  <2>2. \A i \in JobId : job[i].attempts \in Nat
    BY DEF QueueTypeOK, JobRow
  <2>3. QED
    BY <1>1, <2>1, <2>2 DEF JobsAge, Live
<1>4. QED
  BY <1>2, <1>3

\* A claim uses up an attempt.
LEMMA AgeIfClaimed ==
  ASSUME QueueTypeOK, NEW w, NEW S, \A j \in S : Claimable(j),
         job' = [j \in JobId |-> IF j \in S THEN Claimed(job[j], w) ELSE job[j]]
  PROVE  JobsAge
<1>1. \A j \in JobId : /\ job[j].attempts \in Nat
                       /\ Claimed(job[j], w).event = job[j].event
                       /\ Claimed(job[j], w).state = "claimed"
                       /\ Claimed(job[j], w).attempts = job[j].attempts + 1
  BY DEF QueueTypeOK, JobRow, Claimed
<1>2. QED
  BY <1>1 DEF JobsAge, Live, LiveState, Claimable

\* A lease runs out.
LEMMA AgeIfExpired ==
  ASSUME QueueTypeOK, NEW j \in JobId, job' = [job EXCEPT ![j].expired = TRUE]
  PROVE  JobsAge /\ KeepsJobs
<1>1. \A i \in JobId : /\ job'[i].state = job[i].state /\ job'[i].event = job[i].event
                       /\ job'[i].attempts = job[i].attempts /\ job[i].attempts \in Nat
  BY DEF QueueTypeOK, JobRow
<1>2. QED
  BY <1>1 DEF JobsAge, KeepsJobs, SameEvents, Live

\* An operator's call ages the jobs so.
LEMMA OperatorAges ==
  ASSUME QueueTypeOK, InboxNext
  PROVE  JobsAge
<1>a. UNCHANGED job => JobsAge
  BY AgeIfSame
<1>1. CASE \E n \in Endpoints, enabled \in BOOLEAN : EndpointUpsert(n, enabled)
  BY <1>1, <1>a DEF EndpointUpsert
<1>2. ASSUME NEW n, NEW k, NEW t, Ingest(n, k, t)
      PROVE  JobsAge
  <2>1. CASE IngestInvalid(n, k, t) \/ IngestDuplicate(n, k, t)
    BY <2>1, <1>a DEF IngestInvalid, IngestDuplicate
  <2>2. CASE IngestNew(n, k, t)
    BY <2>2, AgeIfRenewed DEF IngestNew
  <2>3. QED
    BY <1>2, <2>1, <2>2 DEF Ingest
<1>3. ASSUME NEW e, Ignore(e)
      PROVE  JobsAge
  BY <1>3, <1>a DEF Ignore
<1>4. ASSUME NEW e, NEW d, Reactivate(e, d)
      PROVE  JobsAge
  BY <1>4, AgeIfRenewed DEF Reactivate
<1>5. ASSUME NEW S, NEW c, NEW n, PruneEvents(S, c, n)
      PROVE  JobsAge
  BY <1>5, AgeIfDropped DEF PruneEvents, GoneState
<1>6. ASSUME NEW c, NEW n, PruneOrphanDeliveries(c, n)
      PROVE  JobsAge
  BY <1>6, <1>a DEF PruneOrphanDeliveries
<1>7. QED
  BY <1>1, <1>2, <1>3, <1>4, <1>5, <1>6 DEF InboxNext, Replay, Requeue, ReplayDelivery

-----------------------------------------------------------------------------
(* Commits.                                                                *)

\* Acked jobs are never lost; there are finitely many.
LEMMA AckedJobsGrow ==
  ASSUME QueueTypeOK, JobsAge, NEW e \in EventId
  PROVE  /\ AckedJobs(e) \subseteq AckedJobs(e)'
         /\ IsFiniteSet(AckedJobs(e)) /\ IsFiniteSet(AckedJobs(e)')
         /\ Cardinality(AckedJobs(e)) \in Nat /\ Cardinality(AckedJobs(e)') \in Nat
         /\ Cardinality(AckedJobs(e)) <= Cardinality(AckedJobs(e)')
<1>1. AckedJobs(e) \subseteq AckedJobs(e)'
  BY DEF AckedJobs, JobsAge
<1>2. IsFiniteSet(JobId)
  BY FS_Interval, MaxJobsAssumption DEF JobId
<1>3. AckedJobs(e) \subseteq JobId /\ AckedJobs(e)' \subseteq JobId
  BY DEF AckedJobs
<1>4. IsFiniteSet(AckedJobs(e)) /\ IsFiniteSet(AckedJobs(e)')
  BY <1>2, <1>3, FS_Subset
<1>5. QED
  BY <1>1, <1>4, FS_Subset, FS_CardinalityType

\* A step that records no handled attempt.
NoCommit == \A e \in EventId : attempts'[e]["handled"] = attempts[e]["handled"]

\* What is paid stays paid.
LEMMA PaidIfNoCommit ==
  ASSUME TablesOK, JobsAge, CommitsArePaidFor, NoCommit
  PROVE  CommitsArePaidFor'
<1>1. ASSUME NEW e \in EventId
      PROVE  attempts'[e]["handled"] <= Cardinality(AckedJobs(e)')
  <2>1. attempts[e]["handled"] \in Nat
    BY DEF TablesOK, InboxTypeOK, Outcome
  <2>2. attempts[e]["handled"] <= Cardinality(AckedJobs(e))
    BY DEF CommitsArePaidFor
  <2>3. attempts'[e]["handled"] = attempts[e]["handled"]
    BY DEF NoCommit
  <2>4. QED
    BY <2>1, <2>2, <2>3, AckedJobsGrow DEF TablesOK
<1>2. QED
  BY <1>1 DEF CommitsArePaidFor

\* The commit of a handler acks a job that was live, so that was not counted before.
LEMMA PaidIfAcked ==
  ASSUME TablesOK, JobsAge, CommitsArePaidFor, NEW j \in JobId, Live(j),
         job' = Acked(job, j), attempts' = WithAttempt(job[j].event, "handled")
  PROVE  CommitsArePaidFor'
<1>1. job[j].state # "acked"
  BY DEF Live, LiveState
<1>2. job'[j].state = "acked" /\ job'[j].event = job[j].event
  BY DEF Acked, Retired, TablesOK, QueueTypeOK, JobRow
<1>3. attempts \in [EventId -> [Outcome -> Nat]]
  BY DEF TablesOK, InboxTypeOK
<1>4. ASSUME NEW e \in EventId
      PROVE  attempts'[e]["handled"] <= Cardinality(AckedJobs(e)')
  <2>a. /\ attempts[e]["handled"] \in Nat
        /\ attempts[e]["handled"] <= Cardinality(AckedJobs(e))
    BY <1>3 DEF CommitsArePaidFor, Outcome
  <2>1. CASE e = job[j].event
    <3>1. attempts'[e]["handled"] = attempts[e]["handled"] + 1
      BY <1>3, <2>1 DEF WithAttempt, Outcome
    <3>2. j \notin AckedJobs(e) /\ j \in AckedJobs(e)'
      BY <1>1, <1>2, <2>1 DEF AckedJobs
    <3>3. /\ Cardinality(AckedJobs(e) \cup {j}) = Cardinality(AckedJobs(e)) + 1
          /\ AckedJobs(e) \cup {j} \subseteq AckedJobs(e)'
      BY <3>2, AckedJobsGrow, FS_AddElement DEF TablesOK
    <3>4. Cardinality(AckedJobs(e) \cup {j}) <= Cardinality(AckedJobs(e)')
      BY <3>3, AckedJobsGrow, FS_Subset DEF TablesOK
    <3>5. QED
      BY <2>a, <3>1, <3>3, <3>4, AckedJobsGrow DEF TablesOK
  <2>2. CASE e # job[j].event
    <3>1. attempts'[e]["handled"] = attempts[e]["handled"]
      BY <1>3, <2>2 DEF WithAttempt
    <3>2. QED
      BY <2>a, <3>1, AckedJobsGrow DEF TablesOK
  <2>3. QED
    BY <2>1, <2>2
<1>5. QED
  BY <1>4 DEF CommitsArePaidFor

\* An operator's call commits nothing for a handler.
LEMMA OperatorPays ==
  ASSUME TablesOK, JobsAge, CommitsArePaidFor, InboxNext
  PROVE  CommitsArePaidFor'
<1>1. CASE UNCHANGED attempts
  BY <1>1, PaidIfNoCommit DEF NoCommit
<1>2. ASSUME NEW e, Ignore(e)
      PROVE  CommitsArePaidFor'
  BY <1>2, PaidIfNoCommit DEF Ignore, NoCommit, WithAttempt, Outcome, TablesOK, InboxTypeOK
<1>3. QED
  BY <1>1, <1>2
     DEF InboxNext, EndpointUpsert, Ingest, IngestInvalid, IngestDuplicate, IngestNew,
         Replay, Requeue, ReplayDelivery, Reactivate, PruneEvents, PruneOrphanDeliveries

\* At first nothing has been committed.
LEMMA PaidInit == InboxInit => CommitsArePaidFor
<1>1. SUFFICES ASSUME InboxInit, NEW e \in EventId
               PROVE  attempts[e]["handled"] <= Cardinality(AckedJobs(e))
  BY DEF CommitsArePaidFor
<1>2. AckedJobs(e) = {} /\ attempts[e]["handled"] = 0
  BY <1>1 DEF InboxInit, QueueInit, AckedJobs, UnusedJob, NoAttempts, Outcome
<1>3. QED
  BY <1>2, FS_EmptySet

-----------------------------------------------------------------------------
(* Settled events.                                                         *)

\* One event changes, in a way that settled events may.
LEMMA ReopenOne ==
  ASSUME event \in [EventId -> EventRow], NEW e \in EventId, NEW row,
         event' = [event EXCEPT ![e] = row],
         \/ event[e].status \notin {"handled", "dead"}
         \/ row.status = "received" /\ FreshJobFor(e)
         \/ event[e].status = "dead" /\ row.status = "ignored"
  PROVE  OperatorsReopen
BY DEF OperatorsReopen, SettledMove

\* A replay reopens its event with a fresh job.
LEMMA ReactivateReopens ==
  ASSUME TablesOK, NEW e \in EventId, NEW d \in Nat, Reactivate(e, d)
  PROVE  OperatorsReopen
<1>1. RenewsJob(e)
  BY RenewEffect DEF TablesOK, Reactivate
<1>2. FreshJobFor(e)
  BY <1>1 DEF RenewsJob, FreshJobFor
<1>3. event' = [event EXCEPT ![e] = ResetEvent(event[e])] /\ event \in [EventId -> EventRow]
  BY DEF Reactivate, TablesOK, InboxTypeOK
<1>4. ResetEvent(event[e]).status = "received"
  BY <1>3 DEF ResetEvent, EventRow
<1>5. QED
  BY <1>2, <1>3, <1>4, ReopenOne

\* An operator's call moves settled events in no other way.
LEMMA OperatorReopens ==
  ASSUME TablesOK, InboxNext
  PROVE  OperatorsReopen
<1>a. event \in [EventId -> EventRow]
  BY DEF TablesOK, InboxTypeOK
<1>b. UNCHANGED event => OperatorsReopen
  BY DEF OperatorsReopen
<1>1. CASE \E n \in Endpoints, enabled \in BOOLEAN : EndpointUpsert(n, enabled)
  BY <1>1, <1>b DEF EndpointUpsert
<1>2. ASSUME NEW n, NEW k, NEW t, Ingest(n, k, t)
      PROVE  OperatorsReopen
  <2>1. CASE IngestInvalid(n, k, t) \/ IngestDuplicate(n, k, t)
    BY <2>1, <1>b DEF IngestInvalid, IngestDuplicate
  <2>2. CASE IngestNew(n, k, t)
    BY <2>2, <1>a, ReopenOne DEF IngestNew, NextEventId
  <2>3. QED
    BY <1>2, <2>1, <2>2 DEF Ingest
<1>3. ASSUME NEW e \in EventId, Ignore(e)
      PROVE  OperatorsReopen
  <2>1. event' = [event EXCEPT ![e] = MarkIgnored(event[e])]
        /\ event[e].status \in {"received", "failed", "dead"}
    BY <1>3 DEF Ignore
  <2>2. MarkIgnored(event[e]).status = "ignored"
    BY <1>a DEF MarkIgnored, EventRow
  <2>3. QED
    BY <1>a, <2>1, <2>2, ReopenOne
<1>4. ASSUME NEW e \in EventId, Replay(e) \/ Requeue(e)
      PROVE  OperatorsReopen
  BY <1>4, ReactivateReopens DEF Replay, Requeue, NoRef
<1>5. ASSUME NEW d \in DeliveryId, ReplayDelivery(d)
      PROVE  OperatorsReopen
  BY <1>5, ReactivateReopens DEF ReplayDelivery, Exists, DeliveryId
<1>6. ASSUME NEW S \in PruneStatuses, NEW c, NEW n, PruneEvents(S, c, n)
      PROVE  OperatorsReopen
  <2>1. PICK E \in SUBSET EventId :
          /\ \A e \in E : event[e].status \in {"handled", "ignored"}
          /\ event' = [e \in EventId |-> IF e \in E THEN Empty("pruned") ELSE event[e]]
    BY <1>6 DEF PruneEvents, Oldest, PruneStatuses
  <2>2. Empty("pruned").status = "pruned"
    BY DEF Empty
  <2>3. QED
    BY <2>1, <2>2 DEF OperatorsReopen, SettledMove
<1>7. ASSUME NEW c, NEW n, PruneOrphanDeliveries(c, n)
      PROVE  OperatorsReopen
  BY <1>7, <1>b DEF PruneOrphanDeliveries
<1>8. QED
  BY <1>1, <1>2, <1>3, <1>4, <1>5, <1>6, <1>7 DEF InboxNext

-----------------------------------------------------------------------------
(* Links between deliveries, events and jobs.                              *)

OneEventPerKey ==
  \A e, f \in EventId :
    /\ Exists(e) /\ Exists(f)
    /\ event[e].endpoint = event[f].endpoint
    /\ event[e].key = event[f].key /\ event[e].key # NoKey
    => e = f

\* A live job's event has been inserted: its id is not handed out again.
LiveNamed == \A j \in JobId : Live(j) =>
  job[j].event \in EventId /\ event[job[j].event].status # "absent"

LinksOK == DeliveryLinkage /\ EventsKeepDeliveries /\ OneEventPerKey /\ ReplayTargetStored

LinkInv == TablesOK /\ LiveNamed /\ LinksOK /\ AuditAccounts

-----------------------------------------------------------------------------
(* What a step does to payloads, events and deliveries.                    *)

\* No payload changes, and no job comes to life.
PayloadsStay ==
  \A j \in JobId :
    job'[j].event = job[j].event /\ job'[j].delivery = job[j].delivery /\ (Live(j)' => Live(j))

\* A job that names a delivery named it before, or names one that is fit for it.
TargetsFit ==
  \A j \in JobId : Live(j)' /\ job'[j].delivery # NoRef =>
    \/ Live(j) /\ job'[j].event = job[j].event /\ job'[j].delivery = job[j].delivery
    \/ Stored(job'[j].delivery) /\ delivery[job'[j].delivery].event = job'[j].event

\* No event appears, goes, or changes what its deliveries and the index look at.
IdentitiesStay ==
  \A e \in EventId :
    /\ event'[e].endpoint = event[e].endpoint /\ event'[e].key = event[e].key
    /\ \A s \in NoRow : event'[e].status = s <=> event[e].status = s

\* What a pruned event leaves behind: the counts of its attempts, and its job's end.
AttemptsOfPrunedStay ==
  \A e \in EventId : event[e].status = "pruned" => attempts'[e] = attempts[e]

NoJobPruned == \A j \in JobId : job'[j].state = "pruned" <=> job[j].state = "pruned"

RowsStay == IdentitiesStay /\ AttemptsOfPrunedStay /\ UNCHANGED <<delivery, audit>>

\* An ack, a failure or a retry.
LEMMA PayloadsIfSettled ==
  ASSUME QueueTypeOK, NEW j \in JobId, Live(j),
         job' = Acked(job, j) \/ job' = Failed(job, j) \/ job' = Retried(job, j)
  PROVE  PayloadsStay /\ NoJobPruned
<1>1. \A i \in JobId \ {j} : job'[i] = job[i]
  BY DEF QueueTypeOK, Acked, Failed, Retried
<1>2. job'[j] \in {Retired(job[j], "acked"), Retired(job[j], "dead"), Released(job[j])}
  BY DEF QueueTypeOK, Acked, Failed, Retried
<1>3. job[j] \in JobRow
  BY DEF QueueTypeOK
<1>4. /\ job'[j].event = job[j].event /\ job'[j].delivery = job[j].delivery
      /\ job'[j].state # "pruned" /\ job[j].state # "pruned"
  BY <1>2, <1>3 DEF JobRow, Retired, Released, Live, LiveState
<1>5. QED
  BY <1>1, <1>4 DEF PayloadsStay, NoJobPruned, Live

\* A claim of some jobs that may be claimed.
LEMMA PayloadsIfClaimed ==
  ASSUME QueueTypeOK, NEW w, NEW S, \A j \in S : Claimable(j),
         job' = [j \in JobId |-> IF j \in S THEN Claimed(job[j], w) ELSE job[j]]
  PROVE  PayloadsStay /\ NoJobPruned
<1>1. ASSUME NEW j \in JobId
      PROVE  /\ job'[j].event = job[j].event /\ job'[j].delivery = job[j].delivery
             /\ job'[j].state = IF j \in S THEN "claimed" ELSE job[j].state
  BY DEF QueueTypeOK, JobRow, Claimed
<1>2. \A j \in S : Live(j)
  BY DEF Claimable, Live, LiveState
<1>3. QED
  BY <1>1, <1>2 DEF PayloadsStay, NoJobPruned, Live, LiveState

\* Deleting the live jobs of some events.
LEMMA PayloadsIfDropped ==
  ASSUME QueueTypeOK, NEW E, NEW how \in GoneState, job' = WithoutLiveJobs(E, how)
  PROVE  /\ PayloadsStay
         /\ \A j \in JobId : Live(j)' => job[j].event \notin E
         /\ how = "deleted" => NoJobPruned
         /\ how = "pruned" =>
              PrunedJobs' = PrunedJobs \cup {j \in JobId : Live(j) /\ job[j].event \in E}
<1>1. ASSUME NEW j \in JobId
      PROVE  \/ job'[j] = job[j] /\ ~(Live(j) /\ job[j].event \in E)
             \/ /\ job'[j].event = job[j].event /\ job'[j].delivery = job[j].delivery
                /\ Live(j) /\ job[j].event \in E /\ job'[j].state = how
  BY DEF WithoutLiveJobs, QueueTypeOK, JobRow, Retired
<1>2. how \notin LiveState /\ "pruned" \notin LiveState
  BY DEF GoneState, LiveState
<1>3. PayloadsStay /\ \A j \in JobId : Live(j)' => job[j].event \notin E
  BY <1>1, <1>2 DEF PayloadsStay, Live
<1>4. how = "deleted" => NoJobPruned
  BY <1>1, <1>2 DEF NoJobPruned, Live
<1>5. how = "pruned" =>
        PrunedJobs' = PrunedJobs \cup {j \in JobId : Live(j) /\ job[j].event \in E}
  BY <1>1, <1>2 DEF PrunedJobs, Live
<1>6. QED
  BY <1>3, <1>4, <1>5

\* A job whose payload stays names the delivery it named.
LEMMA StayingFit ==
  PayloadsStay => TargetsFit
BY DEF PayloadsStay, TargetsFit

\* One event's row is written: a transition of an event that is stored.
LEMMA IdentityIfWritten ==
  ASSUME event \in [EventId -> EventRow], NEW e \in EventId, Exists(e), NEW row,
         row.status \notin NoRow,
         row.endpoint = event[e].endpoint, row.key = event[e].key,
         event' = [event EXCEPT ![e] = row]
  PROVE  IdentitiesStay
BY DEF IdentitiesStay, Exists

\* The transitions keep endpoint and key, and no row they write is without an event.
LEMMA TransitionsKeepIdentity ==
  ASSUME NEW row \in EventRow, NEW n \in Nat, NEW t \in BOOLEAN
  PROVE  \A r \in {MarkHandled(MarkProcessing(row, n)), MarkFailed(row, n, t),
                   MarkIgnored(row), ResetEvent(row)} :
           r.status \notin NoRow /\ r.endpoint = row.endpoint /\ r.key = row.key
<1>1. MarkProcessing(row, n) \in EventRow /\ MarkProcessing(row, n).endpoint = row.endpoint
      /\ MarkProcessing(row, n).key = row.key
  BY DEF EventRow, Status, MarkProcessing
<1>2. \A r \in EventRow : /\ MarkHandled(r).status = "handled"
                          /\ MarkHandled(r).endpoint = r.endpoint
                          /\ MarkHandled(r).key = r.key
  BY DEF EventRow, MarkHandled
<1>3. /\ MarkFailed(row, n, t).status \in {"failed", "dead"}
      /\ MarkFailed(row, n, t).endpoint = row.endpoint
      /\ MarkFailed(row, n, t).key = row.key
  BY DEF EventRow, MarkFailed, FailedOutcome
<1>4. MarkIgnored(row).status = "ignored" /\ MarkIgnored(row).endpoint = row.endpoint
      /\ MarkIgnored(row).key = row.key
  BY DEF EventRow, MarkIgnored
<1>5. ResetEvent(row).status = "received" /\ ResetEvent(row).endpoint = row.endpoint
      /\ ResetEvent(row).key = row.key
  BY DEF EventRow, ResetEvent
<1>6. QED
  BY <1>1, <1>2, <1>3, <1>4, <1>5 DEF NoRow

-----------------------------------------------------------------------------
(* Why the links survive each effect.                                      *)

Kept == LinksOK' /\ AuditAccounts'

\* The sums stay when nothing is pruned.
LEMMA AuditIfNonePruned ==
  ASSUME AuditAccounts, UNCHANGED <<PrunedEvents, PrunedDeliveries, audit>>,
         AttemptsOfPrunedStay, NoJobPruned
  PROVE  AuditAccounts'
<1>1. PrunedJobs' = PrunedJobs
  BY DEF PrunedJobs, NoJobPruned
<1>2. \A e \in PrunedEvents : attempts'[e] = attempts[e]
  BY DEF AttemptsOfPrunedStay, PrunedEvents
<1>3. AttemptRows(PrunedEvents)' = AttemptRows(PrunedEvents)
  BY <1>2 DEF AttemptRows
<1>4. QED
  BY <1>1, <1>3 DEF AuditAccounts

\* A new attempt row is of an event that is stored.
LEMMA AttemptsIfRecorded ==
  ASSUME InboxTypeOK, NEW e \in EventId, Exists(e), NEW o, attempts' = WithAttempt(e, o)
  PROVE  AttemptsOfPrunedStay
BY DEF InboxTypeOK, WithAttempt, AttemptsOfPrunedStay, Exists, NoRow

\* No event, delivery or audit row changes what the links look at.
LEMMA KeptIfRowsStay ==
  ASSUME LinkInv, RowsStay, TargetsFit, NoJobPruned
  PROVE  Kept
<1>1. /\ \A e \in EventId : Exists(e)' <=> Exists(e)
      /\ \A d : Stored(d)' <=> Stored(d)
  BY DEF RowsStay, IdentitiesStay, Exists, Stored, NoRow
<1>2. \A e : Exists(e) \/ Exists(e)' => e \in EventId
  BY DEF Exists
<1>3. DeliveryLinkage' /\ EventsKeepDeliveries'
  BY <1>1, <1>2 DEF LinkInv, LinksOK, DeliveryLinkage, EventsKeepDeliveries, RowsStay,
                     IdentitiesStay
<1>4. OneEventPerKey'
  BY <1>1 DEF LinkInv, LinksOK, OneEventPerKey, RowsStay, IdentitiesStay
<1>5. ReplayTargetStored'
  BY <1>1 DEF LinkInv, LinksOK, ReplayTargetStored, RowsStay, TargetsFit
<1>6. AuditAccounts'
  <2>1. PrunedEvents' = PrunedEvents
    BY DEF RowsStay, IdentitiesStay, NoRow, PrunedEvents
  <2>2. PrunedDeliveries' = PrunedDeliveries
    BY DEF RowsStay, PrunedDeliveries
  <2>3. QED
    BY <2>1, <2>2, AuditIfNonePruned DEF LinkInv, RowsStay
<1>7. QED
  BY <1>3, <1>4, <1>5, <1>6 DEF Kept, LinksOK

\* A delivery of endpoint n with key k is inserted for event e, or for none.
LEMMA KeptIfInserted ==
  ASSUME LinkInv, NEW n \in Endpoints, NEW e, NEW k, NEW t, InsertDelivery(n, e, k, t),
         e # NoRef => e \in EventId /\ Exists(e) /\ event[e].endpoint = n /\ event[e].key = k,
         UNCHANGED <<event, attempts, audit, job>>
  PROVE  Kept
<1>1. PICK d \in DeliveryId :
        /\ delivery[d].state = "absent"
        /\ delivery' = [delivery EXCEPT ![d] = [state |-> "stored", endpoint |-> n,
                                                event |-> e, key |-> k, kind |-> t]]
  BY DEF InsertDelivery, NextDeliveryId
<1>2. /\ delivery'[d].state = "stored" /\ delivery'[d].event = e
      /\ delivery'[d].endpoint = n /\ delivery'[d].key = k
      /\ \A c \in DeliveryId \ {d} : delivery'[c] = delivery[c]
  BY <1>1 DEF LinkInv, TablesOK, InboxTypeOK
<1>3. \A c \in DeliveryId : Stored(c)' <=> Stored(c) \/ c = d
  BY <1>2 DEF Stored
<1>4. ~Stored(d)
  BY <1>1 DEF Stored
<1>5. \A f : Exists(f)' <=> Exists(f)
  BY DEF Exists
<1>6. DeliveryLinkage' /\ EventsKeepDeliveries'
  BY <1>2, <1>3, <1>4, <1>5 DEF LinkInv, LinksOK, DeliveryLinkage, EventsKeepDeliveries
<1>7. OneEventPerKey'
  BY <1>5 DEF LinkInv, LinksOK, OneEventPerKey
<1>8. ReplayTargetStored'
  <2>1. \A c : Stored(c) => c \in DeliveryId \ {d}
    BY <1>4 DEF Stored
  <2>2. QED
    BY <1>2, <1>3, <2>1 DEF LinkInv, LinksOK, ReplayTargetStored, Live
<1>9. AuditAccounts'
  <2>1. PrunedDeliveries' = PrunedDeliveries /\ PrunedEvents' = PrunedEvents
    BY <1>1, <1>2 DEF PrunedDeliveries, PrunedEvents
  <2>2. AttemptsOfPrunedStay /\ NoJobPruned
    BY DEF AttemptsOfPrunedStay, NoJobPruned
  <2>3. QED
    BY <2>1, <2>2, AuditIfNonePruned DEF LinkInv
<1>10. QED
  BY <1>6, <1>7, <1>8, <1>9 DEF Kept, LinksOK

\* A new event with its first delivery, under a key the index accepts.
LEMMA KeptIfNew ==
  ASSUME LinkInv, NEW n \in Endpoints, NEW k \in Keys \cup {NoKey}, NEW t \in Kinds,
         IngestNew(n, k, t)
  PROVE  Kept
<1>1. PICK e \in EventId, j \in JobId :
        /\ event[e].status = "absent" /\ NextJobId(j)
        /\ event' = [event EXCEPT ![e] = [Empty("received") EXCEPT !.endpoint = n,
                                                                   !.key = k, !.kind = t]]
        /\ InsertDelivery(n, e, k, t)
        /\ job' = Enqueued(job, j, e, NoRef)
  BY DEF IngestNew, NextEventId
<1>2. PICK d \in DeliveryId :
        /\ delivery[d].state = "absent"
        /\ delivery' = [delivery EXCEPT ![d] = [state |-> "stored", endpoint |-> n,
                                                event |-> e, key |-> k, kind |-> t]]
  BY <1>1 DEF InsertDelivery, NextDeliveryId
<1>3. /\ delivery'[d].state = "stored" /\ delivery'[d].event = e
      /\ delivery'[d].endpoint = n /\ delivery'[d].key = k
      /\ \A c \in DeliveryId \ {d} : delivery'[c] = delivery[c]
  BY <1>2 DEF LinkInv, TablesOK, InboxTypeOK
<1>4. /\ event'[e].status = "received" /\ event'[e].endpoint = n /\ event'[e].key = k
      /\ \A f \in EventId \ {e} : event'[f] = event[f]
  BY <1>1 DEF LinkInv, TablesOK, InboxTypeOK, Empty
<1>5. /\ \A c : Stored(c)' <=> Stored(c) \/ c = d
      /\ ~Stored(d)
  BY <1>2, <1>3 DEF Stored
<1>6. /\ \A f : Exists(f)' <=> Exists(f) \/ f = e
      /\ ~Exists(e) /\ e # NoRef
  BY <1>1, <1>4 DEF Exists, NoRow, EventId, NoRef
<1>7. DeliveryLinkage' /\ EventsKeepDeliveries'
  <2>1. \A c \in DeliveryId : Stored(c) => c # d
    BY <1>5
  <2>2. \A f : Exists(f) => f \in EventId \ {e}
    BY <1>6 DEF Exists
  <2>3. DeliveryLinkage'
    BY <1>3, <1>4, <1>5, <1>6, <2>1, <2>2 DEF LinkInv, LinksOK, DeliveryLinkage
  <2>4. EventsKeepDeliveries'
    BY <1>3, <1>5, <1>6, <2>1, <2>2 DEF LinkInv, LinksOK, EventsKeepDeliveries
  <2>5. QED
    BY <2>3, <2>4
<1>8. OneEventPerKey'
  <2>1. ~\E f \in EventId : k # NoKey /\ Exists(f) /\ event[f].endpoint = n /\ event[f].key = k
    BY DEF IngestNew, IndexAccepts
  <2>2. QED
    BY <1>4, <1>6, <2>1 DEF LinkInv, LinksOK, OneEventPerKey
<1>9. ReplayTargetStored'
  <2>1. \A c : Stored(c) => c \in DeliveryId \ {d}
    BY <1>5 DEF Stored
  <2>2. job'[j].delivery = NoRef /\ \A i \in JobId \ {j} : job'[i] = job[i]
    BY <1>1 DEF LinkInv, TablesOK, QueueTypeOK, Enqueued, UnusedJob
  <2>3. QED
    BY <1>3, <1>5, <2>1, <2>2 DEF LinkInv, LinksOK, ReplayTargetStored, Live
<1>10. AuditAccounts'
  <2>1. PrunedDeliveries' = PrunedDeliveries
    BY <1>2, <1>3 DEF PrunedDeliveries
  <2>2. PrunedEvents' = PrunedEvents
    BY <1>1, <1>4 DEF PrunedEvents
  <2>3. NoJobPruned
    BY <1>1 DEF LinkInv, TablesOK, QueueTypeOK, NextJobId, Enqueued, UnusedJob, NoJobPruned
  <2>4. AttemptsOfPrunedStay /\ UNCHANGED audit
    BY DEF IngestNew, AttemptsOfPrunedStay
  <2>5. QED
    BY <2>1, <2>2, <2>3, <2>4, AuditIfNonePruned DEF LinkInv
<1>11. QED
  BY <1>7, <1>8, <1>9, <1>10 DEF Kept, LinksOK

\* Adding a set of rows to the pruned ones adds up.
LEMMA CountsAdd ==
  ASSUME NEW S, IsFiniteSet(S), NEW A \in SUBSET S, NEW B \in SUBSET S, A \cap B = {}
  PROVE  Cardinality(A \cup B) = Cardinality(A) + Cardinality(B)
<1>1. IsFiniteSet(A) /\ IsFiniteSet(B)
  BY FS_Subset
<1>2. Cardinality(A) \in Nat /\ Cardinality(B) \in Nat /\ Cardinality(A \cap B) = 0
  BY <1>1, FS_CardinalityType, FS_EmptySet
<1>3. Cardinality(A \cup B) = Cardinality(A) + Cardinality(B) - Cardinality(A \cap B)
  BY <1>1, FS_Union
<1>4. QED
  BY <1>2, <1>3

\* A prune takes stored deliveries of no event that stays, and with events their
\* deliveries and live jobs.
LEMMA KeptIfPruned ==
  ASSUME LinkInv, NEW E \in SUBSET EventId, NEW D \in SUBSET DeliveryId, NEW J \in SUBSET JobId,
         \A e \in E : Exists(e),
         \A d \in D : Stored(d) /\ delivery[d].event \in E \cup {NoRef},
         \A d \in DeliveryId : Stored(d) /\ delivery[d].event \in E => d \in D,
         delivery' = [d \in DeliveryId |-> IF d \in D THEN EmptyDelivery("pruned")
                                                      ELSE delivery[d]],
         event' = [e \in EventId |-> IF e \in E THEN Empty("pruned") ELSE event[e]],
         audit' = Audited(E, D, J), UNCHANGED attempts,
         PrunedJobs' = PrunedJobs \cup J, \A j \in J : Live(j),
         PayloadsStay, \A j \in JobId : Live(j)' => job[j].event \notin E
  PROVE  Kept
<1>1. /\ \A d \in DeliveryId : d \in D => delivery'[d].state = "pruned"
      /\ \A d \in DeliveryId : d \notin D => delivery'[d] = delivery[d]
      /\ \A e \in EventId : e \in E => event'[e].status = "pruned"
      /\ \A e \in EventId : e \notin E => event'[e] = event[e]
  BY DEF Empty, EmptyDelivery
<1>2. /\ \A d : Stored(d)' <=> Stored(d) /\ d \notin D
      /\ \A d : Stored(d) => d \in DeliveryId
  BY <1>1 DEF Stored
<1>3. /\ \A e : Exists(e)' <=> Exists(e) /\ e \notin E
      /\ \A e : Exists(e) => e \in EventId /\ e # NoRef
  BY <1>1 DEF Exists, NoRow, EventId, NoRef
<1>4. DeliveryLinkage'
  <2>1. \A d \in DeliveryId : Stored(d)' => delivery'[d] = delivery[d] /\ delivery[d].event \notin E
    BY <1>1, <1>2
  <2>2. QED
    BY <1>1, <1>2, <1>3, <2>1 DEF LinkInv, LinksOK, DeliveryLinkage
<1>5. EventsKeepDeliveries'
  <2>1. ASSUME NEW e \in EventId, Exists(e)'
        PROVE  \E d \in DeliveryId : Stored(d)' /\ delivery'[d].event = e
    <3>1. PICK d \in DeliveryId : Stored(d) /\ delivery[d].event = e
      BY <1>3, <2>1 DEF LinkInv, LinksOK, EventsKeepDeliveries
    <3>2. d \notin D
      BY <1>3, <2>1, <3>1
    <3>3. QED
      BY <1>1, <1>2, <3>1, <3>2
  <2>2. QED
    BY <2>1 DEF EventsKeepDeliveries
<1>6. OneEventPerKey'
  BY <1>1, <1>3 DEF LinkInv, LinksOK, OneEventPerKey
<1>7. ReplayTargetStored'
  <2>1. ASSUME NEW j \in JobId, Live(j)', job'[j].delivery # NoRef
        PROVE  /\ Stored(job[j].delivery)'
               /\ delivery'[job'[j].delivery].event = job'[j].event
    <3>1. /\ Live(j) /\ job'[j].event = job[j].event /\ job'[j].delivery = job[j].delivery
          /\ job[j].event \notin E
      BY <2>1 DEF PayloadsStay
    <3>2. job[j].event # NoRef
      BY <3>1 DEF LinkInv, LiveNamed, EventId, NoRef
    <3>3. Stored(job[j].delivery) /\ delivery[job[j].delivery].event = job[j].event
      BY <2>1, <3>1 DEF LinkInv, LinksOK, ReplayTargetStored
    <3>4. job[j].delivery \notin D
      BY <3>1, <3>2, <3>3
    <3>5. job'[j].delivery \in DeliveryId \ D /\ Stored(job'[j].delivery)
      BY <1>2, <3>1, <3>3, <3>4
    <3>6. QED
      BY <1>1, <3>1, <3>3, <3>5 DEF Stored
  <2>2. QED
    BY <2>1 DEF ReplayTargetStored
<1>8. AuditAccounts'
  <2>1. PrunedEvents' = PrunedEvents \cup E /\ PrunedEvents \cap E = {}
    BY <1>1 DEF PrunedEvents, Exists, NoRow
  <2>2. PrunedDeliveries' = PrunedDeliveries \cup D /\ PrunedDeliveries \cap D = {}
    BY <1>1 DEF PrunedDeliveries, Stored
  <2>3. /\ IsFiniteSet(EventId) /\ IsFiniteSet(DeliveryId) /\ IsFiniteSet(JobId)
        /\ PrunedEvents \in SUBSET EventId /\ PrunedDeliveries \in SUBSET DeliveryId
        /\ PrunedJobs \in SUBSET JobId
    BY InboxAssumption, MaxJobsAssumption, FS_Interval
       DEF EventId, DeliveryId, JobId, PrunedEvents, PrunedDeliveries, PrunedJobs
  <2>4. Cardinality(PrunedEvents') = Cardinality(PrunedEvents) + Cardinality(E)
    BY <2>1, <2>3, CountsAdd
  <2>5. Cardinality(PrunedDeliveries') = Cardinality(PrunedDeliveries) + Cardinality(D)
    BY <2>2, <2>3, CountsAdd
  <2>6. Cardinality(PrunedJobs') = Cardinality(PrunedJobs) + Cardinality(J)
    <3>1. PrunedJobs \cap J = {}
      BY DEF PrunedJobs, Live, LiveState
    <3>2. QED
      BY <2>3, <3>1, CountsAdd
  <2>7. Cardinality(AttemptRows(PrunedEvents)')
          = Cardinality(AttemptRows(PrunedEvents)) + Cardinality(AttemptRows(E))
    <3>1. AttemptRows(PrunedEvents)' = AttemptRows(PrunedEvents) \cup AttemptRows(E)
      BY <2>1 DEF AttemptRows
    <3>2. AttemptRows(PrunedEvents) \cap AttemptRows(E) = {}
      BY <2>1 DEF AttemptRows
    <3>3. IsFiniteSet(AttemptRows(PrunedEvents) \cup AttemptRows(E))
      BY <2>3, AttemptRowsFinite, FS_Union DEF LinkInv, TablesOK, InboxTypeOK
    <3>4. QED
      BY <3>1, <3>2, <3>3, CountsAdd
  <2>8. /\ audit'.events = audit.events + Cardinality(E)
        /\ audit'.deliveries = audit.deliveries + Cardinality(D)
        /\ audit'.attempts = audit.attempts + Cardinality(AttemptRows(E))
        /\ audit'.jobs = audit.jobs + Cardinality(J)
    BY DEF Audited
  <2>9. QED
    BY <2>4, <2>5, <2>6, <2>7, <2>8 DEF LinkInv, AuditAccounts
<1>9. QED
  BY <1>4, <1>5, <1>6, <1>7, <1>8 DEF Kept, LinksOK

\* A replay keeps the links, and names a delivery of its own event.
LEMMA ReactivateKeeps ==
  ASSUME LinkInv, NEW e \in EventId, Exists(e), NEW d, Reactivate(e, d),
         d # NoRef => Stored(d) /\ delivery[d].event = e
  PROVE  Kept
<1>a. QueueTypeOK /\ event \in [EventId -> EventRow]
  BY DEF LinkInv, TablesOK, InboxTypeOK
<1>1. RowsStay
  <2>1. event[e] \in EventRow /\ event' = [event EXCEPT ![e] = ResetEvent(event[e])]
    BY <1>a DEF Reactivate
  <2>2. /\ ResetEvent(event[e]).status \notin NoRow
        /\ ResetEvent(event[e]).endpoint = event[e].endpoint
        /\ ResetEvent(event[e]).key = event[e].key
    BY <2>1, TransitionsKeepIdentity
  <2>3. QED
    BY <1>a, <2>1, <2>2, IdentityIfWritten DEF RowsStay, AttemptsOfPrunedStay, Reactivate
<1>2. TargetsFit /\ NoJobPruned
  <2> DEFINE left == WithoutLiveJobs({e}, "deleted")
  <2>1. PICK j \in JobId : NextJobId(j) /\ job' = Enqueued(left, j, e, d)
    BY DEF Reactivate
  <2>2. /\ job'[j].event = e /\ job'[j].delivery = d /\ job'[j].state = "pending"
        /\ \A i \in JobId \ {j} : job'[i] = left[i]
    BY <2>1 DEF Enqueued, UnusedJob, WithoutLiveJobs
  <2>3. \A i \in JobId : left[i] = job[i] \/ (Live(i) /\ left[i].state = "deleted")
    BY <1>a DEF WithoutLiveJobs, QueueTypeOK, JobRow, Retired
  <2>4. job[j].state = "unused"
    BY <2>1 DEF NextJobId
  <2> HIDE DEF left
  <2>5. QED
    BY <2>2, <2>3, <2>4 DEF TargetsFit, NoJobPruned, Live, LiveState
<1>3. QED
  BY <1>1, <1>2, KeptIfRowsStay

\* An operator's call keeps the links and the audit's sums.
LEMMA OperatorKeeps ==
  ASSUME LinkInv, InboxNext
  PROVE  Kept
<1>a. QueueTypeOK /\ event \in [EventId -> EventRow] /\ delivery \in [DeliveryId -> DeliveryRow]
  BY DEF LinkInv, TablesOK, InboxTypeOK
<1>b. UNCHANGED job => TargetsFit /\ NoJobPruned
  BY StayingFit DEF PayloadsStay, NoJobPruned, Live
<1>1. ASSUME NEW n \in Endpoints, NEW enabled \in BOOLEAN, EndpointUpsert(n, enabled)
      PROVE  Kept
  BY <1>1, <1>b, KeptIfRowsStay
     DEF EndpointUpsert, RowsStay, IdentitiesStay, AttemptsOfPrunedStay
<1>2. ASSUME NEW n \in Endpoints, NEW k \in Keys \cup {NoKey}, NEW t \in Kinds, Ingest(n, k, t)
      PROVE  Kept
  <2>1. CASE IngestInvalid(n, k, t)
    BY <2>1, KeptIfInserted DEF IngestInvalid
  <2>2. CASE IngestDuplicate(n, k, t)
    BY <2>2, KeptIfInserted DEF IngestDuplicate, FindExisting
  <2>3. CASE IngestNew(n, k, t)
    BY <2>3, KeptIfNew
  <2>4. QED
    BY <1>2, <2>1, <2>2, <2>3 DEF Ingest
<1>3. ASSUME NEW e \in EventId, Ignore(e)
      PROVE  Kept
  <2>1. event[e] \in EventRow /\ event' = [event EXCEPT ![e] = MarkIgnored(event[e])] /\ Exists(e)
    BY <1>3, <1>a DEF Ignore, Exists, NoRow
  <2>2. /\ MarkIgnored(event[e]).status \notin NoRow
        /\ MarkIgnored(event[e]).endpoint = event[e].endpoint
        /\ MarkIgnored(event[e]).key = event[e].key
    BY <2>1, TransitionsKeepIdentity
  <2>3. QED
    <3>1. AttemptsOfPrunedStay
      BY <1>3, <2>1, AttemptsIfRecorded DEF Ignore, LinkInv, TablesOK
    <3>2. RowsStay
      BY <1>3, <1>a, <2>1, <2>2, <3>1, IdentityIfWritten DEF Ignore, RowsStay
    <3>3. QED
      BY <1>3, <1>b, <3>2, KeptIfRowsStay DEF Ignore
<1>4. ASSUME NEW e \in EventId, Replay(e) \/ Requeue(e)
      PROVE  Kept
  BY <1>4, ReactivateKeeps DEF Replay, Requeue, Exists, NoRow
<1>5. ASSUME NEW d \in DeliveryId, ReplayDelivery(d)
      PROVE  Kept
  BY <1>5, ReactivateKeeps DEF ReplayDelivery, Exists
<1>6. ASSUME NEW S \in PruneStatuses, NEW c, NEW n, PruneEvents(S, c, n)
      PROVE  Kept
  <2>1. PICK E \in SUBSET EventId, D \in SUBSET DeliveryId, J \in SUBSET JobId :
          /\ \A e \in E : event[e].status \in S
          /\ D = {d \in DeliveryId : Stored(d) /\ delivery[d].event \in E}
          /\ J = {j \in JobId : Live(j) /\ job[j].event \in E}
          /\ job' = WithoutLiveJobs(E, "pruned")
          /\ delivery' = [d \in DeliveryId |-> IF d \in D THEN EmptyDelivery("pruned")
                                                          ELSE delivery[d]]
          /\ event' = [e \in EventId |-> IF e \in E THEN Empty("pruned") ELSE event[e]]
          /\ audit' = Audited(E, D, J)
    BY <1>6 DEF PruneEvents, Oldest
  <2>a. UNCHANGED attempts
    BY <1>6 DEF PruneEvents
  <2>2. \A e \in E : Exists(e)
    BY <2>1 DEF PruneStatuses, Exists, NoRow
  <2>3. /\ PayloadsStay /\ \A j \in JobId : Live(j)' => job[j].event \notin E
        /\ PrunedJobs' = PrunedJobs \cup J /\ \A j \in J : Live(j)
    BY <1>a, <2>1, PayloadsIfDropped DEF GoneState
  <2>4. QED
    BY <2>1, <2>a, <2>2, <2>3, KeptIfPruned
<1>7. ASSUME NEW c, NEW n, PruneOrphanDeliveries(c, n)
      PROVE  Kept
  <2> DEFINE D == Oldest(OrphanCandidates(c), n)
  <2>1. /\ D \in SUBSET DeliveryId
        /\ \A d \in D : Stored(d) /\ delivery[d].event = NoRef
        /\ delivery' = [d \in DeliveryId |-> IF d \in D THEN EmptyDelivery("pruned")
                                                        ELSE delivery[d]]
        /\ audit' = Audited({}, D, {})
        /\ UNCHANGED <<event, attempts, job>>
    <3>1. D \subseteq OrphanCandidates(c)
      BY DEF Oldest
    <3>2. QED
      BY <1>7, <3>1 DEF PruneOrphanDeliveries, OrphanCandidates
  <2> HIDE DEF D
  <2>2. event' = [e \in EventId |-> IF e \in {} THEN Empty("pruned") ELSE event[e]]
    BY <1>a, <2>1
  <2>3. PayloadsStay /\ PrunedJobs' = PrunedJobs \cup {}
    BY <2>1 DEF PayloadsStay, PrunedJobs, Live
  <2>4. QED
    BY <2>1, <2>2, <2>3, KeptIfPruned
<1>8. QED
  BY <1>1, <1>2, <1>3, <1>4, <1>5, <1>6, <1>7 DEF InboxNext

\* No event becomes one that was never inserted, and a job that comes to life is of one
\* that was.
LEMMA NamesIfGrown ==
  ASSUME LiveNamed,
         \A e \in EventId : event'[e].status = "absent" => event[e].status = "absent",
         \A j \in JobId : Live(j)' =>
           \/ Live(j) /\ job'[j].event = job[j].event
           \/ job'[j].event \in EventId /\ event'[job'[j].event].status # "absent"
  PROVE  LiveNamed'
BY DEF LiveNamed

\* replay, requeue and replay_delivery enqueue for an event that is there.
LEMMA ReactivateNames ==
  ASSUME TablesOK, LiveNamed, NEW e \in EventId, NEW d \in Nat, Reactivate(e, d)
  PROVE  LiveNamed'
<1>1. RenewsJob(e)
  BY RenewEffect DEF TablesOK, Reactivate
<1>2. event[e] \in EventRow /\ event' = [event EXCEPT ![e] = ResetEvent(event[e])]
  BY DEF Reactivate, TablesOK, InboxTypeOK
<1>3. ResetEvent(event[e]).status = "received"
  BY <1>2 DEF EventRow, ResetEvent
<1>4. /\ event'[e].status = "received"
      /\ \A f \in EventId \ {e} : event'[f] = event[f]
  BY <1>2, <1>3 DEF TablesOK, InboxTypeOK
<1>5. QED
  BY <1>1, <1>4, NamesIfGrown DEF RenewsJob, SameEvents

\* After an operator's call, too, every live job names an event that was inserted.
LEMMA OperatorNames ==
  ASSUME TablesOK, LiveNamed, InboxNext
  PROVE  LiveNamed'
<1>a. QueueTypeOK /\ event \in [EventId -> EventRow]
  BY DEF TablesOK, InboxTypeOK
<1>b. UNCHANGED <<event, job>> => LiveNamed'
  BY NamesIfGrown DEF Live
<1>1. CASE \E n \in Endpoints, enabled \in BOOLEAN : EndpointUpsert(n, enabled)
  BY <1>1, <1>b DEF EndpointUpsert
<1>2. ASSUME NEW n, NEW k, NEW t, Ingest(n, k, t)
      PROVE  LiveNamed'
  <2>1. CASE IngestInvalid(n, k, t) \/ IngestDuplicate(n, k, t)
    BY <2>1, <1>b DEF IngestInvalid, IngestDuplicate
  <2>2. CASE IngestNew(n, k, t)
    <3>1. PICK e \in EventId, j \in JobId :
            /\ event' = [event EXCEPT ![e] = [Empty("received") EXCEPT !.endpoint = n,
                                                                       !.key = k, !.kind = t]]
            /\ job' = Enqueued(job, j, e, NoRef)
      BY <2>2 DEF IngestNew
    <3>2. /\ event'[e].status = "received"
          /\ \A f \in EventId \ {e} : event'[f] = event[f]
      BY <1>a, <3>1 DEF Empty
    <3>3. /\ job'[j].event = e
          /\ \A i \in JobId \ {j} : job'[i] = job[i]
      BY <1>a, <3>1 DEF Enqueued, UnusedJob, QueueTypeOK
    <3>4. QED
      BY <3>2, <3>3, NamesIfGrown DEF Live
  <2>3. QED
    BY <1>2, <2>1, <2>2 DEF Ingest
<1>3. ASSUME NEW e \in EventId, Ignore(e)
      PROVE  LiveNamed'
  <2>1. \A f \in EventId : event'[f].status = "absent" => event[f].status = "absent"
    BY <1>3, <1>a DEF Ignore, MarkIgnored, EventRow
  <2>2. QED
    BY <1>3, <2>1, NamesIfGrown DEF Ignore, Live
<1>4. ASSUME NEW e \in EventId, Replay(e) \/ Requeue(e)
      PROVE  LiveNamed'
  BY <1>4, ReactivateNames DEF Replay, Requeue, NoRef
<1>5. ASSUME NEW d \in DeliveryId, ReplayDelivery(d)
      PROVE  LiveNamed'
  BY <1>5, ReactivateNames DEF ReplayDelivery, Exists, DeliveryId
<1>6. ASSUME NEW S, NEW c, NEW n, PruneEvents(S, c, n)
      PROVE  LiveNamed'
  <2>1. PICK E :
          /\ job' = WithoutLiveJobs(E, "pruned")
          /\ event' = [e \in EventId |-> IF e \in E THEN Empty("pruned") ELSE event[e]]
    BY <1>6 DEF PruneEvents
  <2>2. PayloadsStay
    BY <1>a, <2>1, PayloadsIfDropped DEF GoneState
  <2>3. \A e \in EventId : event'[e].status = "absent" => event[e].status = "absent"
    BY <2>1 DEF Empty
  <2>4. QED
    BY <2>2, <2>3, NamesIfGrown DEF PayloadsStay
<1>7. ASSUME NEW c, NEW n, PruneOrphanDeliveries(c, n)
      PROVE  LiveNamed'
  BY <1>7, <1>b DEF PruneOrphanDeliveries
<1>8. QED
  BY <1>1, <1>2, <1>3, <1>4, <1>5, <1>6, <1>7 DEF InboxNext

\* A worker ends a dispatch: it writes how the run ended to an event that is stored.
LEMMA KeptIfOutcome ==
  ASSUME LinkInv, NEW e \in EventId, Exists(e), NEW n \in Nat, NEW t \in BOOLEAN,
         \/ event' = [event EXCEPT ![e] = MarkHandled(MarkProcessing(@, n))]
         \/ event' = [event EXCEPT ![e] = MarkFailed(@, n, t)],
         NEW o, attempts' = WithAttempt(e, o),
         TargetsFit, NoJobPruned, UNCHANGED <<delivery, audit>>
  PROVE  Kept
<1>a. event \in [EventId -> EventRow] /\ event[e] \in EventRow
  BY DEF LinkInv, TablesOK, InboxTypeOK
<1>1. PICK row \in {MarkHandled(MarkProcessing(event[e], n)), MarkFailed(event[e], n, t)} :
        event' = [event EXCEPT ![e] = row]
  OBVIOUS
<1>2. row.status \notin NoRow /\ row.endpoint = event[e].endpoint /\ row.key = event[e].key
  BY <1>a, <1>1, TransitionsKeepIdentity
<1>3. IdentitiesStay
  BY <1>a, <1>1, <1>2, IdentityIfWritten
<1>4. AttemptsOfPrunedStay
  BY AttemptsIfRecorded DEF LinkInv, TablesOK
<1>5. QED
  BY <1>3, <1>4, KeptIfRowsStay DEF RowsStay

\* There is nothing to link at first.
LEMMA LinksInit == InboxInit => LiveNamed /\ LinksOK /\ AuditAccounts
<1>1. SUFFICES ASSUME InboxInit PROVE LiveNamed /\ LinksOK /\ AuditAccounts
  OBVIOUS
<1>2. LiveNamed /\ LinksOK
  BY <1>1 DEF InboxInit, QueueInit, LiveNamed, LinksOK, DeliveryLinkage, EventsKeepDeliveries,
              OneEventPerKey, ReplayTargetStored, Stored, Exists, Live, LiveState, UnusedJob,
              Empty, EmptyDelivery, NoRow
<1>3. AuditAccounts
  <2>1. PrunedEvents = {} /\ PrunedDeliveries = {} /\ PrunedJobs = {}
    BY <1>1 DEF InboxInit, QueueInit, UnusedJob, Empty, EmptyDelivery,
                PrunedEvents, PrunedDeliveries, PrunedJobs
  <2>2. AttemptRows(PrunedEvents) = {}
    BY <2>1 DEF AttemptRows
  <2>3. audit.events = 0 /\ audit.deliveries = 0 /\ audit.attempts = 0 /\ audit.jobs = 0
    BY <1>1 DEF InboxInit
  <2>4. QED
    BY <2>1, <2>2, <2>3, FS_EmptySet DEF AuditAccounts
<1>4. QED
  BY <1>2, <1>3

\* What the links say of redeliveries.
LEMMA LinksConverge == LinksOK => DedupeConverges
BY DEF LinksOK, DeliveryLinkage, OneEventPerKey, DedupeConverges, Exists

-----------------------------------------------------------------------------
(* What the effects on the queue are to the lifecycle.                     *)

\* Jobs that stay, stay owed.
LEMMA OwedIfKept ==
  ASSUME KeepsJobs
  PROVE  LifeOwed' = LifeOwed
BY DEF KeepsJobs, SameEvents, LifeOwed

\* An event's only job settles the debt to it.
LEMMA OwedIfSettled ==
  ASSUME QueueAgrees, NEW j \in JobId, SettlesJob(j)
  PROVE  /\ job[j].event \in EventId
         /\ LifeOwed[job[j].event]
         /\ LifeOwed' = [LifeOwed EXCEPT ![job[j].event] = FALSE]
<1>1. job[j].event \in EventId
  BY LiveIsStored DEF SettlesJob
<1>2. ASSUME NEW e \in EventId
      PROVE  LifeOwed'[e] = IF e = job[j].event THEN FALSE ELSE LifeOwed[e]
  <2>1. LifeOwed'[e] = \E i \in JobId : Live(i)' /\ job'[i].event = e
    BY DEF LifeOwed
  <2>2. LifeOwed[e] = \E i \in JobId : Live(i) /\ job[i].event = e
    BY DEF LifeOwed
  <2>3. CASE e = job[j].event
    BY <2>1, <2>3 DEF SettlesJob, SameEvents, QueueAgrees, OneLiveJob
  <2>4. CASE e # job[j].event
    BY <2>1, <2>2, <2>4 DEF SettlesJob, SameEvents
  <2>5. QED
    BY <2>3, <2>4
<1>3. LifeOwed' = [LifeOwed EXCEPT ![job[j].event] = FALSE]
  BY <1>2 DEF LifeOwed
<1>4. QED
  BY <1>1, <1>3 DEF SettlesJob, LifeOwed

\* A fresh job is a new debt.
LEMMA OwedIfRenewed ==
  ASSUME NEW e \in EventId, RenewsJob(e)
  PROVE  LifeOwed' = [LifeOwed EXCEPT ![e] = TRUE]
<1>1. ASSUME NEW f \in EventId
      PROVE  LifeOwed'[f] = IF f = e THEN TRUE ELSE LifeOwed[f]
  <2>1. LifeOwed'[f] = \E i \in JobId : Live(i)' /\ job'[i].event = f
    BY DEF LifeOwed
  <2>2. LifeOwed[f] = \E i \in JobId : Live(i) /\ job[i].event = f
    BY DEF LifeOwed
  <2>3. QED
    BY <2>1, <2>2 DEF RenewsJob, SameEvents
<1>2. QED
  BY <1>1 DEF LifeOwed

\* Dropped jobs are owed no longer.
LEMMA OwedIfDropped ==
  ASSUME NEW E \in SUBSET EventId, DropsJobs(E)
  PROVE  LifeOwed' = [e \in EventId |-> LifeOwed[e] /\ e \notin E]
<1>1. ASSUME NEW e \in EventId
      PROVE  LifeOwed'[e] = (LifeOwed[e] /\ e \notin E)
  <2>1. LifeOwed'[e] = \E i \in JobId : Live(i)' /\ job'[i].event = e
    BY DEF LifeOwed
  <2>2. LifeOwed[e] = \E i \in JobId : Live(i) /\ job[i].event = e
    BY DEF LifeOwed
  <2>3. QED
    BY <2>1, <2>2 DEF DropsJobs, SameEvents
<1>2. QED
  BY <1>1 DEF LifeOwed

\* A new row for one event, seen from the lifecycle.
LEMMA StatusIfWritten ==
  ASSUME InboxTypeOK, NEW e \in EventId, NEW row, event' = [event EXCEPT ![e] = row]
  PROVE  LifeStatus' = [LifeStatus EXCEPT ![e] = row.status]
BY DEF InboxTypeOK, LifeStatus

\* A recorded attempt is a commit if its outcome is handled, and nothing otherwise.
LEMMA CommitsIfRecorded ==
  ASSUME InboxTypeOK, NEW e \in EventId, NEW o \in Outcome, attempts' = WithAttempt(e, o)
  PROVE  /\ o = "handled" => LifeCommits' = [LifeCommits EXCEPT ![e] = @ + 1]
         /\ o # "handled" => LifeCommits' = LifeCommits
BY DEF InboxTypeOK, WithAttempt, LifeCommits, Outcome

-----------------------------------------------------------------------------
(* What steps are to the lifecycle.                                        *)

LifeStep == [Lifecycle!LifeNext]_(Lifecycle!lifeVars)
HeedlessStep == [Lifecycle!HeedlessNext]_(Lifecycle!lifeVars)

\* Nothing the lifecycle sees.
LEMMA LifeStutter ==
  ASSUME UNCHANGED <<event, attempts>>, KeepsJobs
  PROVE  LifeStep
BY OwedIfKept DEF LifeStep, Lifecycle!lifeVars, LifeStatus, LifeCommits

\* replay, requeue and replay_delivery are Reopen.
LEMMA LifeReopen ==
  ASSUME TablesAgree, NEW e \in EventId, NEW d \in Nat, Reactivate(e, d),
         event[e].status \in {"handled", "failed", "dead", "ignored"}
  PROVE  LifeStep
<1>a. QueueTypeOK /\ InboxTypeOK
  BY DEF TablesAgree, TablesOK
<1>1. LifeOwed' = [LifeOwed EXCEPT ![e] = TRUE]
  BY <1>a, RenewEffect, OwedIfRenewed DEF Reactivate
<1>2. ResetEvent(event[e]).status = "received"
  BY <1>a DEF InboxTypeOK, EventRow, ResetEvent
<1>3. LifeStatus' = [LifeStatus EXCEPT ![e] = "received"]
  BY <1>a, <1>2, StatusIfWritten DEF Reactivate
<1>4. LifeCommits' = LifeCommits
  BY DEF Reactivate, LifeCommits
<1>5. Lifecycle!Reopen(e)
  BY <1>1, <1>3, <1>4 DEF Lifecycle!Reopen, Lifecycle!Moves, LifeStatus
<1>6. QED
  BY <1>5 DEF LifeStep, Lifecycle!LifeNext

\* A job's event is owed a run, and is not finished.
LEMMA OwedIfLive ==
  ASSUME QueueAgrees, NEW j \in JobId, Live(j)
  PROVE  /\ job[j].event \in EventId
         /\ LifeOwed[job[j].event]
         /\ LifeStatus[job[j].event] \in {"received", "failed", "ignored"}
         /\ LifeStatus[job[j].event] = event[job[j].event].status
BY LiveIsStored DEF QueueAgrees, FinishedIsNotQueued, LifeOwed, LifeStatus

\* The handled row together with the ack is a commit of a run that was owed.
LEMMA LifeCommit ==
  ASSUME TablesAgree, NEW j \in JobId, Live(j), job' = Acked(job, j),
         NEW row, row.status = "handled", event' = [event EXCEPT ![job[j].event] = row],
         attempts' = WithAttempt(job[j].event, "handled")
  PROVE  /\ HeedlessStep
         /\ event[job[j].event].status # "ignored" => LifeStep
<1> DEFINE e == job[j].event
<1>a. QueueTypeOK /\ InboxTypeOK /\ QueueAgrees
  BY DEF TablesAgree, TablesOK
<1>1. /\ e \in EventId /\ LifeOwed[e]
      /\ LifeStatus[e] \in {"received", "failed", "ignored"} /\ LifeStatus[e] = event[e].status
  BY <1>a, OwedIfLive
<1>2. LifeOwed' = [LifeOwed EXCEPT ![e] = FALSE]
  BY <1>a, SettleEffect, OwedIfSettled
<1> HIDE DEF e
<1>3. LifeStatus' = [LifeStatus EXCEPT ![e] = "handled"]
  BY <1>a, <1>1, StatusIfWritten DEF e
<1>4. LifeCommits' = [LifeCommits EXCEPT ![e] = @ + 1]
  BY <1>a, <1>1, CommitsIfRecorded DEF Outcome, e
<1>5. CASE LifeStatus[e] = "ignored"
  <2>1. Lifecycle!CommitIgnored(e)
    BY <1>1, <1>2, <1>3, <1>4, <1>5 DEF Lifecycle!CommitIgnored, Lifecycle!Moves
  <2>2. QED
    BY <1>1, <1>5, <2>1 DEF HeedlessStep, Lifecycle!HeedlessNext, e
<1>6. CASE LifeStatus[e] # "ignored"
  <2>1. Lifecycle!Commit(e)
    BY <1>1, <1>2, <1>3, <1>4, <1>6 DEF Lifecycle!Commit, Lifecycle!Moves
  <2>2. QED
    BY <1>1, <2>1 DEF LifeStep, HeedlessStep, Lifecycle!LifeNext, Lifecycle!HeedlessNext
<1>7. QED
  BY <1>5, <1>6

\* The last failure with honker_fail is Die; one before it with honker_retry is FailOnce.
LEMMA LifeFailure ==
  ASSUME TablesAgree, NEW j \in JobId, Live(j), NEW t \in BOOLEAN,
         job' = IF t THEN Failed(job, j) ELSE Retried(job, j),
         NEW row, row.status = FailedOutcome(t), event' = [event EXCEPT ![job[j].event] = row],
         attempts' = WithAttempt(job[j].event, FailedOutcome(t))
  PROVE  LifeStep
<1> DEFINE e == job[j].event
<1>a. QueueTypeOK /\ InboxTypeOK /\ QueueAgrees
  BY DEF TablesAgree, TablesOK
<1>1. /\ e \in EventId /\ LifeOwed[e]
      /\ LifeStatus[e] \in {"received", "failed", "ignored"}
  BY <1>a, OwedIfLive
<1> HIDE DEF e
<1>2. LifeStatus' = [LifeStatus EXCEPT ![e] = FailedOutcome(t)]
  BY <1>a, <1>1, StatusIfWritten DEF e
<1>3. LifeCommits' = LifeCommits
  BY <1>a, <1>1, CommitsIfRecorded DEF FailedOutcome, Outcome, e
<1>4. CASE t
  <2>1. LifeOwed' = [LifeOwed EXCEPT ![e] = FALSE]
    BY <1>a, <1>4, SettleEffect, OwedIfSettled DEF e
  <2>2. Lifecycle!Die(e)
    BY <1>1, <1>2, <1>3, <1>4, <2>1 DEF Lifecycle!Die, Lifecycle!Moves, FailedOutcome
  <2>3. QED
    BY <1>1, <2>2 DEF LifeStep, Lifecycle!LifeNext
<1>5. CASE ~t
  <2>1. LifeOwed' = LifeOwed
    BY <1>a, <1>5, RetryEffect, OwedIfKept
  <2>2. Lifecycle!FailOnce(e)
    BY <1>1, <1>2, <1>3, <1>5, <2>1 DEF Lifecycle!FailOnce, Lifecycle!Moves, FailedOutcome
  <2>3. QED
    BY <1>1, <2>2 DEF LifeStep, Lifecycle!LifeNext
<1>6. QED
  BY <1>4, <1>5

\* Operators' calls and requests: Accept, SetAside, Reopen, Prune, or nothing.
LEMMA LifeOperator ==
  ASSUME TablesAgree, InboxNext
  PROVE  LifeStep
<1>a. QueueTypeOK /\ InboxTypeOK /\ QueueAgrees
  BY DEF TablesAgree, TablesOK
<1>b. UNCHANGED <<event, attempts, job>> => LifeStep
  BY LifeStutter DEF KeepsJobs, SameEvents, Live
<1>1. CASE \E n \in Endpoints, enabled \in BOOLEAN : EndpointUpsert(n, enabled)
  BY <1>1, <1>b DEF EndpointUpsert
<1>2. ASSUME NEW n \in Endpoints, NEW k \in Keys \cup {NoKey}, NEW t \in Kinds, Ingest(n, k, t)
      PROVE  LifeStep
  <2>1. CASE IngestInvalid(n, k, t) \/ IngestDuplicate(n, k, t)
    BY <2>1, <1>b DEF IngestInvalid, IngestDuplicate
  <2>2. CASE IngestNew(n, k, t)
    <3>1. PICK e \in EventId, j \in JobId :
            /\ NextEventId(e) /\ NextJobId(j)
            /\ event' = [event EXCEPT ![e] = [Empty("received") EXCEPT !.endpoint = n,
                                                                       !.key = k, !.kind = t]]
            /\ job' = Enqueued(job, j, e, NoRef)
      BY <2>2 DEF IngestNew
    <3>2. LifeOwed' = [LifeOwed EXCEPT ![e] = TRUE]
      <4>1. \A i \in JobId : Live(i) => job[i].event # e
        BY <1>a, <3>1 DEF NextEventId, QueueAgrees, FinishedIsNotQueued
      <4>2. QED
        BY <1>a, <3>1, <4>1, EnqueueEffect, OwedIfRenewed
    <3>3. LifeStatus' = [LifeStatus EXCEPT ![e] = "received"]
      <4>1. [Empty("received") EXCEPT !.endpoint = n, !.key = k, !.kind = t].status = "received"
        BY DEF Empty
      <4>2. QED
        BY <1>a, <3>1, <4>1, StatusIfWritten
    <3>4. LifeCommits' = LifeCommits
      BY <2>2 DEF IngestNew, LifeCommits
    <3>5. Lifecycle!Accept(e)
      BY <3>1, <3>2, <3>3, <3>4 DEF Lifecycle!Accept, Lifecycle!Moves, LifeStatus, NextEventId
    <3>6. QED
      BY <3>5 DEF LifeStep, Lifecycle!LifeNext
  <2>3. QED
    BY <1>2, <2>1, <2>2 DEF Ingest
<1>3. ASSUME NEW e \in EventId, Ignore(e)
      PROVE  LifeStep
  <2>1. MarkIgnored(event[e]).status = "ignored"
    BY <1>a DEF InboxTypeOK, EventRow, MarkIgnored
  <2>2. LifeStatus' = [LifeStatus EXCEPT ![e] = "ignored"]
    BY <1>3, <1>a, <2>1, StatusIfWritten DEF Ignore
  <2>3. LifeCommits' = LifeCommits
    BY <1>3, <1>a, CommitsIfRecorded DEF Ignore, Outcome
  <2>4. LifeOwed' = LifeOwed
    BY <1>3 DEF Ignore, LifeOwed, Live
  <2>5. Lifecycle!SetAside(e)
    BY <1>3, <2>2, <2>3, <2>4 DEF Ignore, Lifecycle!SetAside, Lifecycle!Moves, LifeStatus
  <2>6. QED
    BY <2>5 DEF LifeStep, Lifecycle!LifeNext
<1>4. ASSUME NEW e \in EventId, Replay(e) \/ Requeue(e)
      PROVE  LifeStep
  BY <1>4, LifeReopen DEF Replay, Requeue, NoRef
<1>5. ASSUME NEW d \in DeliveryId, ReplayDelivery(d)
      PROVE  LifeStep
  BY <1>5, LifeReopen DEF ReplayDelivery, Exists, DeliveryId
<1>6. ASSUME NEW S \in PruneStatuses, NEW c, NEW n, PruneEvents(S, c, n)
      PROVE  LifeStep
  <2>1. PICK E \in SUBSET EventId :
          /\ \A e \in E : event[e].status \in S
          /\ job' = WithoutLiveJobs(E, "pruned")
          /\ event' = [e \in EventId |-> IF e \in E THEN Empty("pruned") ELSE event[e]]
    BY <1>6 DEF PruneEvents, Oldest
  <2>2. LifeOwed' = [e \in EventId |-> LifeOwed[e] /\ e \notin E]
    BY <1>a, <2>1, DropEffect, OwedIfDropped DEF GoneState
  <2>3. LifeStatus' = [e \in EventId |-> IF e \in E THEN "pruned" ELSE LifeStatus[e]]
    BY <2>1 DEF LifeStatus, Empty
  <2>4. UNCHANGED LifeCommits
    BY <1>6 DEF PruneEvents, LifeCommits
  <2>5. \A e \in E : LifeStatus[e] \in {"handled", "ignored"}
    BY <2>1 DEF LifeStatus, PruneStatuses
  <2>6. Lifecycle!Prune(E)
    BY <2>2, <2>3, <2>4, <2>5 DEF Lifecycle!Prune
  <2>7. QED
    BY <2>6 DEF LifeStep, Lifecycle!LifeNext
<1>7. ASSUME NEW c, NEW n, PruneOrphanDeliveries(c, n)
      PROVE  LifeStep
  BY <1>7, <1>b DEF PruneOrphanDeliveries
<1>8. QED
  BY <1>1, <1>2, <1>3, <1>4, <1>5, <1>6, <1>7 DEF InboxNext

\* The empty inbox is the lifecycle's first state.
LEMMA LifeStart == InboxInit => Lifecycle!LifeInit
BY DEF InboxInit, QueueInit, Lifecycle!LifeInit, LifeStatus, LifeOwed, LifeCommits,
       Live, LiveState, UnusedJob, Empty, NoAttempts, Outcome
=============================================================================
