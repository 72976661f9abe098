-------------------------- MODULE InboxProperties --------------------------
(***************************************************************************)
(* What makes the shared inbox correct, whichever binding's workers serve  *)
(* it.                                                                     *)
(***************************************************************************)
EXTENDS KnockerInbox

-----------------------------------------------------------------------------
(* Types.                                                                  *)

QueueTypeOK == job \in [JobId -> JobRow]

InboxTypeOK ==
  /\ endpoint \in [Endpoints -> {"absent", "enabled", "disabled"}]
  /\ event \in [EventId -> EventRow]
  /\ delivery \in [DeliveryId -> DeliveryRow]
  /\ attempts \in [EventId -> [Outcome -> Nat]]
  /\ audit \in AuditRow

-----------------------------------------------------------------------------
(* The queue and the inbox agree.                                          *)

\* At most one live job per event, whatever replays, requeues, retries and stale
\* claims interleave: with two, its handler would be committed twice.  It is what
\* delete_live_jobs_for_event before each enqueue is for.
OneLiveJob ==
  \A i, j \in JobId : Live(i) /\ Live(j) /\ job[i].event = job[j].event => i = j

\* An event that still has to be handled is in the queue: no interleaving of
\* failures, crashes and operators strands a received or failed event.
UnfinishedIsQueued ==
  \A e \in EventId : event[e].status \in {"received", "failed"} =>
    \E j \in JobId : Live(j) /\ job[j].event = e

\* An event that is finished, pruned or not yet inserted has no live job: whoever
\* settles an event also takes its job out of the queue.  (ignore does not, so an
\* ignored event may still have one.)
FinishedIsNotQueued ==
  \A j \in JobId : Live(j) =>
    job[j].event \in EventId /\ event[job[j].event].status \in {"received", "failed", "ignored"}

\* The jobs ever enqueued for e that ended with an accepted ack.
AckedJobs(e) == {j \in JobId : job[j].state = "acked" /\ job[j].event = e}

\* A handler's business writes commit with its handled row, and every such commit
\* used up a job of its own: leases that run out, duplicate runs, crashes and stale
\* batches never make one enqueue count twice.
CommitsArePaidFor ==
  \A e \in EventId : attempts[e]["handled"] <= Cardinality(AckedJobs(e))

\* handled_at is set exactly while the event is handled, and last_error exactly while
\* it is failed or dead, through every sequence of failures, ignores and replays.
ColumnsAgree ==
  \A e \in EventId :
    /\ event[e].handled_at <=> event[e].status = "handled"
    /\ event[e].last_error <=> event[e].status \in {"failed", "dead"}

\* The delivery a replay_delivery job names is there when the job is dispatched, so
\* the RuntimeErrors of _dispatch_job are unreachable through the API.
ReplayTargetStored ==
  \A j \in JobId : Live(j) /\ job[j].delivery # NoRef =>
    Stored(job[j].delivery) /\ delivery[job[j].delivery].event = job[j].event

-----------------------------------------------------------------------------
(* Ingest and pruning.                                                     *)

\* A linked delivery belongs to a stored event of its own endpoint and dedupe key:
\* no redelivery, replay or prune leaves it pointing at nothing or at another's.
DeliveryLinkage ==
  \A d \in DeliveryId : Stored(d) /\ delivery[d].event # NoRef =>
    /\ Exists(delivery[d].event)
    /\ event[delivery[d].event].endpoint = delivery[d].endpoint
    /\ event[delivery[d].event].key = delivery[d].key

\* Redeliveries converge: two linked deliveries of one endpoint and key are of the
\* same event, across prunes of earlier events with that key.
DedupeConverges ==
  \A c, d \in DeliveryId :
    /\ Stored(c) /\ Stored(d)
    /\ delivery[c].event # NoRef /\ delivery[d].event # NoRef
    /\ delivery[c].endpoint = delivery[d].endpoint
    /\ delivery[c].key = delivery[d].key /\ delivery[c].key # NoKey
    => delivery[c].event = delivery[d].event

\* An event keeps the record of its arrival: pruning orphans, replaying deliveries and
\* redelivery never leave a stored event without any delivery of its own.
EventsKeepDeliveries ==
  \A e \in EventId : Exists(e) => \E d \in DeliveryId : Stored(d) /\ delivery[d].event = e

PrunedEvents == {e \in EventId : event[e].status = "pruned"}
PrunedDeliveries == {d \in DeliveryId : delivery[d].state = "pruned"}
PrunedJobs == {j \in JobId : job[j].state = "pruned"}

\* The audit rows account for everything pruning removed, whether a DELETE names it or a
\* cascade takes it: no event, delivery, attempt or live job goes uncounted, and none is
\* counted twice.
AuditAccounts ==
  /\ audit.events = Cardinality(PrunedEvents)
  /\ audit.deliveries = Cardinality(PrunedDeliveries)
  /\ audit.attempts = Cardinality(AttemptRows(PrunedEvents))
  /\ audit.jobs = Cardinality(PrunedJobs)

-----------------------------------------------------------------------------
(* How an event leaves handled and dead.                                   *)

\* A step reopens e with a fresh job.
FreshJobFor(e) == \E j \in JobId : ~Live(j) /\ Live(j)' /\ job'[j].event = e

SettledMove(e) ==
  \/ event'[e].status = "received" /\ FreshJobFor(e)
  \/ event[e].status = "handled" /\ event'[e].status = "pruned"
  \/ event[e].status = "dead" /\ event'[e].status = "ignored"

OperatorsReopen ==
  \A e \in EventId :
    event[e].status \in {"handled", "dead"} /\ event'[e].status # event[e].status =>
      SettledMove(e)

-----------------------------------------------------------------------------
(* The abstract view of each event.                                        *)

LifeStatus == [e \in EventId |-> event[e].status]
LifeOwed == [e \in EventId |-> \E j \in JobId : Live(j) /\ job[j].event = e]
LifeCommits == [e \in EventId |-> attempts[e]["handled"]]

\* An event is owed a run exactly while the queue holds a live job for it.
Lifecycle == INSTANCE EventLifecycle
               WITH status <- LifeStatus, owed <- LifeOwed, commits <- LifeCommits

-----------------------------------------------------------------------------
(* Progress.                                                               *)

\* Every event taken in is settled in the end: handled, dead or ignored (or pruned
\* after that), through crashes, slow handlers and refused acks.
EventuallySettled ==
  \A e \in EventId :
    event[e].status \in {"received", "failed"} ~>
      event[e].status \in {"handled", "dead", "ignored", "pruned"}
=============================================================================
