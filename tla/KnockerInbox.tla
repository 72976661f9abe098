--------------------------- MODULE KnockerInbox ---------------------------
(***************************************************************************)
(* The inbox every binding shares: the tables of knocker-core and the SQL  *)
(* functions over them (knocker_ops.rs), with the operator calls of the    *)
(* Python binding that wrap them.  Every action here is one committed      *)
(* SQLite write transaction; an operation that raises rolls back and so is *)
(* no step.                                                                *)
(*                                                                         *)
(* Ids are the AUTOINCREMENT ids.  A deleted row leaves the tombstone      *)
(* "pruned" behind, because its id is never handed out again.  The attempt *)
(* rows of a pruned event go with it, by cascade; their counts stay too,   *)
(* and nothing but the audit's property looks at them.                     *)
(* received_at grows with the id, so `received_at < older_than` is a       *)
(* cutoff among ids.                                                       *)
(*                                                                         *)
(* A definition whose comment says "fault" is a wrong variant of the one   *)
(* that follows it.  No specification uses it: it is there to show that a  *)
(* property fails when the code is wrong in that way.                      *)
(***************************************************************************)
EXTENDS HonkerQueue

CONSTANTS
  Endpoints,      \* endpoint names
  Keys,           \* dedupe keys a provider may send
  NoKey,          \* a delivery none of whose three key columns is set
  Kinds,          \* event types
  MaxEvents,      \* bound: knocker_events rows a behaviour may insert
  MaxDeliveries,  \* bound: knocker_deliveries rows a behaviour may insert
  MaxPrunes       \* bound: prune calls in a behaviour

ASSUME InboxAssumption ==
  /\ MaxEvents \in Nat /\ MaxDeliveries \in Nat /\ MaxPrunes \in Nat
  /\ NoKey \notin Keys

VARIABLES
  endpoint,   \* knocker_endpoints: name -> absent, or its enabled flag
  event,      \* knocker_events
  delivery,   \* knocker_deliveries
  attempts,   \* knocker_attempts: event -> how many rows of each outcome it has, or had
  audit       \* knocker_prune_audits: number of rows and totals of their columns

inboxVars == <<endpoint, event, delivery, attempts, audit, job>>

EventId == 1..MaxEvents
DeliveryId == 1..MaxDeliveries

NoRow == {"absent", "pruned"}
Status == {"received", "processing", "handled", "failed", "dead", "ignored"}
Outcome == {"handled", "failed", "dead", "ignored"}

\* handled_at and last_error are modelled by whether they are set.
EventRow == [status : NoRow \cup Status, endpoint : Endpoints \cup {NoKey},
             key : Keys \cup {NoKey}, kind : Kinds \cup {NoKey},
             attempt_count : Nat, handled_at : BOOLEAN, last_error : BOOLEAN]

DeliveryRow == [state : NoRow \cup {"stored"}, endpoint : Endpoints \cup {NoKey},
                event : Nat, key : Keys \cup {NoKey}, kind : Kinds \cup {NoKey}]

AuditRow == [rows : Nat, events : Nat, deliveries : Nat, attempts : Nat, jobs : Nat]

Empty(what) == [status |-> what, endpoint |-> NoKey, key |-> NoKey, kind |-> NoKey,
                attempt_count |-> 0, handled_at |-> FALSE, last_error |-> FALSE]

EmptyDelivery(what) == [state |-> what, endpoint |-> NoKey, event |-> NoRef,
                        key |-> NoKey, kind |-> NoKey]

NoAttempts == [o \in Outcome |-> 0]

InboxInit ==
  /\ QueueInit
  /\ endpoint = [n \in Endpoints |-> "absent"]
  /\ event = [e \in EventId |-> Empty("absent")]
  /\ delivery = [d \in DeliveryId |-> EmptyDelivery("absent")]
  /\ attempts = [e \in EventId |-> NoAttempts]
  /\ audit = [rows |-> 0, events |-> 0, deliveries |-> 0, attempts |-> 0, jobs |-> 0]

-----------------------------------------------------------------------------
(* Rows.                                                                   *)

Exists(e) == e \in EventId /\ event[e].status \notin NoRow
Stored(d) == d \in DeliveryId /\ delivery[d].state = "stored"

NextEventId(e) ==
  /\ e \in EventId
  /\ event[e].status = "absent"
  /\ \A f \in EventId : f < e => event[f].status # "absent"

NextDeliveryId(d) ==
  /\ d \in DeliveryId
  /\ delivery[d].state = "absent"
  /\ \A c \in DeliveryId : c < d => delivery[c].state # "absent"

\* The transitions of one event row.  None of them looks at the old status.
MarkProcessing(row, n) ==
  [row EXCEPT !.status = "processing", !.attempt_count = n, !.last_error = FALSE]
MarkHandled(row) == [row EXCEPT !.status = "handled", !.handled_at = TRUE, !.last_error = FALSE]
FailedOutcome(terminal) == IF terminal THEN "dead" ELSE "failed"
MarkFailed(row, n, terminal) ==
  [row EXCEPT !.status = FailedOutcome(terminal), !.attempt_count = n, !.last_error = TRUE]
MarkIgnored(row) == [row EXCEPT !.status = "ignored", !.last_error = FALSE]
ResetKeepingHandledAt(row) ==   \* fault: handled_at survives the reset
  [row EXCEPT !.status = "received", !.attempt_count = 0, !.last_error = FALSE]
ResetEvent(row) ==
  [row EXCEPT !.status = "received", !.attempt_count = 0,
              !.handled_at = FALSE, !.last_error = FALSE]

\* The INSERT INTO knocker_attempts that ends every mark_* but mark_processing.
WithAttempt(e, outcome) == [attempts EXCEPT ![e][outcome] = @ + 1]

\* The attempt rows of the events E, which have no other identity here.
AttemptRows(E) == UNION {{<<e, o, n>> : n \in 1..attempts[e][o]} : e \in E, o \in Outcome}

FindOnAnyEndpoint(n, k) ==       \* fault: the lookup forgets the endpoint
  {e \in EventId : Exists(e) /\ k # NoKey /\ event[e].key = k}

\* The event a keyed delivery repeats: the unique index allows one at most.
FindExisting(n, k) ==
  {e \in EventId : Exists(e) /\ k # NoKey /\ event[e].endpoint = n /\ event[e].key = k}

\* Whether the unique index (endpoint_id, dedupe_key) accepts another such row.
IndexAccepts(n, k) ==
  k = NoKey \/ ~\E e \in EventId : Exists(e) /\ event[e].endpoint = n /\ event[e].key = k

LeavesLiveJobs(E, how) == job    \* fault: the jobs of pruned or reset events stay

\* The queue without the live jobs whose payload names an event of E.  `how` says which
\* deletion took them: "deleted" before an enqueue, "pruned" with their events.
WithoutLiveJobs(E, how) ==
  [j \in JobId |-> IF Live(j) /\ job[j].event \in E THEN Retired(job[j], how) ELSE job[j]]

-----------------------------------------------------------------------------
(* knocker_endpoint_upsert.                                                *)

EndpointUpsert(n, enabled) ==
  /\ endpoint' = [endpoint EXCEPT ![n] = IF enabled THEN "enabled" ELSE "disabled"]
  /\ UNCHANGED <<event, delivery, attempts, audit, job>>

-----------------------------------------------------------------------------
(* knocker_ingest: a request for endpoint n with dedupe key k and event    *)
(* type t.  A delivery row is written in every case.                       *)

InsertDelivery(n, e, k, t) ==
  \E d \in DeliveryId :
    /\ NextDeliveryId(d)
    /\ delivery' = [delivery EXCEPT ![d] = [state |-> "stored", endpoint |-> n,
                                            event |-> e, key |-> k, kind |-> t]]

\* signature_valid = 0: an orphan delivery, and a 401.
IngestInvalid(n, k, t) ==
  /\ endpoint[n] = "enabled"
  /\ InsertDelivery(n, NoRef, k, t)
  /\ UNCHANGED <<endpoint, event, attempts, audit, job>>

\* A redelivery: recorded against the event it repeats, nothing enqueued.
IngestDuplicate(n, k, t) ==
  /\ endpoint[n] = "enabled"
  /\ \E e \in FindExisting(n, k) : InsertDelivery(n, e, k, t)
  /\ UNCHANGED <<endpoint, event, attempts, audit, job>>

IngestNewForgettingKey(n, k, t) ==   \* fault: insert_event drops dedupe_key
  /\ endpoint[n] = "enabled"
  /\ FindExisting(n, k) = {}
  /\ \E e \in EventId, j \in JobId :
       /\ NextEventId(e) /\ NextJobId(j)
       /\ event' = [event EXCEPT ![e] = [Empty("received") EXCEPT !.endpoint = n, !.kind = t]]
       /\ InsertDelivery(n, e, k, t)
       /\ job' = Enqueued(job, j, e, NoRef)
  /\ UNCHANGED <<endpoint, attempts, audit>>

IngestNew(n, k, t) ==
  /\ endpoint[n] = "enabled"
  /\ FindExisting(n, k) = {}
  /\ IndexAccepts(n, k)
  /\ \E e \in EventId, j \in JobId :
       /\ NextEventId(e) /\ NextJobId(j)
       /\ event' = [event EXCEPT ![e] = [Empty("received") EXCEPT !.endpoint = n,
                                                                  !.key = k, !.kind = t]]
       /\ InsertDelivery(n, e, k, t)
       /\ job' = Enqueued(job, j, e, NoRef)
  /\ UNCHANGED <<endpoint, attempts, audit>>

Ingest(n, k, t) == IngestInvalid(n, k, t) \/ IngestDuplicate(n, k, t) \/ IngestNew(n, k, t)

-----------------------------------------------------------------------------
(* Operator actions on one event.                                          *)

\* Knocker.ignore.  A live job of the event stays in the queue.
Ignore(e) ==
  /\ event[e].status \in {"received", "failed", "dead"}
  /\ event' = [event EXCEPT ![e] = MarkIgnored(@)]
  /\ attempts' = WithAttempt(e, "ignored")
  /\ UNCHANGED <<endpoint, delivery, audit, job>>

ReactivateEnqueueFirst(e, d) ==   \* fault: the stale jobs are deleted after the enqueue
  /\ \E i \in JobId :
       /\ NextJobId(i)
       /\ job' = [j \in JobId |-> IF j = i THEN Retired(Enqueued(job, i, e, d)[i], "deleted")
                                           ELSE WithoutLiveJobs({e}, "deleted")[j]]
  /\ event' = [event EXCEPT ![e] = ResetEvent(@)]
  /\ UNCHANGED <<endpoint, delivery, attempts, audit>>

ReactivateKeepingJobs(e, d) ==    \* fault: the stale jobs are not deleted
  /\ \E j \in JobId : NextJobId(j) /\ job' = Enqueued(job, j, e, d)
  /\ event' = [event EXCEPT ![e] = ResetEvent(@)]
  /\ UNCHANGED <<endpoint, delivery, attempts, audit>>

\* What replay, requeue and replay_delivery share: exactly one fresh job.
Reactivate(e, d) ==
  /\ \E j \in JobId : NextJobId(j) /\ job' = Enqueued(WithoutLiveJobs({e}, "deleted"), j, e, d)
  /\ event' = [event EXCEPT ![e] = ResetEvent(@)]
  /\ UNCHANGED <<endpoint, delivery, attempts, audit>>

Replay(e) == event[e].status \in {"handled", "failed", "dead", "ignored"} /\ Reactivate(e, NoRef)

Requeue(e) == event[e].status \in {"failed", "dead", "ignored"} /\ Reactivate(e, NoRef)

\* Knocker.replay_delivery: the fresh job carries the delivery to hand the handler.
ReplayDelivery(d) ==
  /\ Stored(d)
  /\ Exists(delivery[d].event)
  /\ event[delivery[d].event].status \in {"handled", "failed", "dead", "ignored"}
  /\ Reactivate(delivery[d].event, d)

-----------------------------------------------------------------------------
(* Pruning.                                                                *)

\* ORDER BY received_at, id LIMIT n
Oldest(S, n) == {x \in S : Cardinality({y \in S : y < x}) < n}

AuditedWithoutCascade(E, D, J) ==   \* fault: the rows that go by cascade are not counted
  [audit EXCEPT !.rows = @ + 1, !.events = @ + Cardinality(E),
                !.deliveries = @ + Cardinality(D), !.jobs = @ + Cardinality(J)]

\* The audit row of a call that prunes events E with their attempts, deliveries D and
\* live jobs J.
Audited(E, D, J) ==
  [rows |-> audit.rows + 1, events |-> audit.events + Cardinality(E),
   deliveries |-> audit.deliveries + Cardinality(D),
   attempts |-> audit.attempts + Cardinality(AttemptRows(E)),
   jobs |-> audit.jobs + Cardinality(J)]

PruneEvents(statuses, older_than, limit) ==
  LET E == Oldest({e \in EventId : e < older_than /\ event[e].status \in statuses}, limit)
      D == {d \in DeliveryId : Stored(d) /\ delivery[d].event \in E}
      J == {j \in JobId : Live(j) /\ job[j].event \in E}
  IN  /\ audit.rows < MaxPrunes
      /\ job' = WithoutLiveJobs(E, "pruned")
      /\ delivery' = [d \in DeliveryId |-> IF d \in D THEN EmptyDelivery("pruned")
                                                      ELSE delivery[d]]
      /\ event' = [e \in EventId |-> IF e \in E THEN Empty("pruned") ELSE event[e]]
      /\ audit' = Audited(E, D, J)
      /\ UNCHANGED <<endpoint, attempts>>

OrphansAndLinked(older_than) ==  \* fault: event_id IS NULL is missing
  {d \in DeliveryId : d < older_than /\ Stored(d)}
OrphanCandidates(older_than) ==
  {d \in DeliveryId : d < older_than /\ Stored(d) /\ delivery[d].event = NoRef}

PruneOrphanDeliveries(older_than, limit) ==
  LET D == Oldest(OrphanCandidates(older_than), limit)
  IN  /\ audit.rows < MaxPrunes
      /\ delivery' = [d \in DeliveryId |-> IF d \in D THEN EmptyDelivery("pruned")
                                                      ELSE delivery[d]]
      /\ audit' = Audited({}, D, {})
      /\ UNCHANGED <<endpoint, event, attempts, job>>

PruneStatuses == SUBSET {"handled", "ignored"} \ {{}}

-----------------------------------------------------------------------------
InboxNext ==
  \/ \E n \in Endpoints, enabled \in BOOLEAN : EndpointUpsert(n, enabled)
  \/ \E n \in Endpoints, k \in Keys \cup {NoKey}, t \in Kinds : Ingest(n, k, t)
  \/ \E e \in EventId : Ignore(e) \/ Replay(e) \/ Requeue(e)
  \/ \E d \in DeliveryId : ReplayDelivery(d)
  \/ \E S \in PruneStatuses, c \in 1..MaxEvents + 1, n \in 1..MaxEvents : PruneEvents(S, c, n)
  \/ \E c \in 1..MaxDeliveries + 1, n \in 1..MaxDeliveries : PruneOrphanDeliveries(c, n)
=============================================================================
