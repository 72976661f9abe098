# Knocker in TLA+

Knocker is a webhook inbox embedded in an application: requests of providers are verified,
deduplicated and stored in SQLite, and workers hand the stored events to the application's
handlers through the Honker job queue, which lives in the same database. This directory
holds a model of that system in TLA+, the TLC configurations that check it on small
instances, and proofs checked by TLAPS that hold for every instance.

Paths below are relative to the repository's root, without the leading `src/`.

## The system

| Part | State | Operations | Where |
|---|---|---|---|
| Inbox tables | endpoints, events, deliveries, attempts, prune audits; a unique index on (endpoint, dedupe key) | `endpoint_upsert`, `ingest`, `mark_processing/handled/failed/ignored`, `replay`, `requeue`, `reset_event`, `prune_events`, `prune_orphan_deliveries`, `run_retention_pass` as SQL functions | `knocker-core/src/lib.rs`, `knocker_ops.rs` |
| Honker queue (external) | `_honker_live`: pending and claimed jobs with worker, lease, attempts | enqueue, claim_batch, ack, retry, fail | a dependency; calls in `queue.py`, `knocker_ops.rs` |
| Python binding | handlers, endpoint configuration, worker states | `ingest`, `ignore`, `replay`, `requeue`, `replay_delivery`, prunes | `packages/knocker/python/knocker/_knocker.py` |
| Python worker | the batch it has claimed, the job in hand, its claim task, the host's stop event | `run_worker`, `_dispatch_job`, `_fail_job`, the iterator `_WorkerQueueIter` | `_knocker.py`, `queue.py` |
| Native transaction | the single writer connection, whether a transaction is open | `__enter__`, `__exit__`, `Drop` | `packages/knocker/src/lib.rs` |
| Retention automation | a schedule with a lock, a queue of its own, a scheduler task in each process | `run_retention`, the scheduler loop, `run_retention_pass` | `_knocker.py`, `knocker_ops.rs` |
| Other bindings | a retention timer in each process | `run_worker_once`, `runRetention` and operator calls in Node, Bun, Go, Ruby, Elixir | `packages/knocker-*` |
| Provider verification | each process's endpoint configuration: provider, secrets, options, extractors | `add_endpoint`, `receive`, and one verifier per provider, in Rust and again in Python | `knocker_ops.rs`, `verifiers.py`, `providers.py`, `_builtin_*.py` |
| Schema bootstrap, extension, provider fixtures, benchmarks, site | | | `knocker-core/src/lib.rs`, `knocker-extension`, `providers`, `bench`, `site` |

How they interact. Everything shared is in one SQLite file, and every write is a
transaction under `BEGIN IMMEDIATE`, so writers are serialised and a step of the system is
one committed transaction. A provider's request becomes a delivery row always, an event row
and a job unless it is rejected or a repeat. A worker claims up to ten jobs, keeps them in
memory, and for each runs one transaction: it reads the event, marks it processing, calls
the handler with the open transaction, marks the event handled and acks the job. A handler
that raises rolls that transaction back, and a second one records the failure and retries
the job or gives it up. Operators ignore, replay, requeue and prune at any time.

Two Python calls are loops over a queue, `run_worker` and `run_retention`. Both wait for a claim
task and a stop event at once, and their host may cancel them. `run_retention` also runs a
Honker scheduler in a task of its own: among all processes one holds the scheduler lock and
enqueues a job per interval, and whoever claims the job runs the pass and its ack in one
transaction. The other bindings have no schedule: each process runs a pass per interval.

### What is hard here

* **Leases.** A claim is valid for `visibility_timeout_s`. Time passes while a handler runs
  and while claimed jobs wait in the batch, so every use of a claim may come too late.
* **The gap after a failed handler.** Between the rollback and the transaction that records
  the failure, any other writer may come first, an operator's ignore among them.
* **Two stores that must agree.** An event's status and its job change together or the event
  is stranded, or run twice. `ignore` alone leaves a job behind, by design.
* **Stale claims.** Replays, requeues and prunes delete jobs that workers hold in memory.
* **Crashes.** A worker may die anywhere; only the lease brings its jobs back.
* **Stop, cancellation and the claim under way.** A stop, a cancellation, an error and a claim
  that has just succeeded may all be there when `asyncio.wait` returns, or come between two jobs
  of a batch. Each way out of the loop must account for the claims the loop still has.
* **A schedule shared by processes.** The leader may stop, fail, die, or lose its lease in the
  middle of a pass, and its successor must neither repeat a pass nor skip one.
* **Redelivery.** Providers repeat requests, also of events already pruned.
* **Two verifiers, many processes.** Python checks requests with code of its own, every other
  binding with the Rust core; each process has its own copy of the secrets; and which field of
  a request becomes the dedupe key is decided provider by provider.

PROJECT.json lists each of these at the line where it bites, with the properties about it.

### What makes the parts correct

* Queue and inbox agree: one live job per event at most, one for each unfinished event, none
  for a settled one.
* Each commit of a handler is paid for by a job of its own, and attempts stay in their budget.
* Redeliveries converge on one event; a stored event keeps a delivery; linked deliveries point
  at a stored event of their own endpoint and key; the prune audit accounts for every event,
  delivery, attempt and job that is gone, cascades included.
* Handled and dead events are reopened by operators only; a worker that still holds its claim
  is never ended by an ignore or a prune of others; every event is settled in the end.
* A loop keeps a claim until it is dealt with, also when it is told to stop; a stop ends it;
  nothing is claimed for a call that is over; jobs left behind are found again.
* There are never more retention passes than intervals, none is lost without an exception, a call
  that is over leaves no scheduler behind, and an interval is served whoever leads.
* A genuine request in time is accepted by whichever process it reaches, also during a rotation
  of secrets; all bindings take it for the same event, and a retry never makes another.

## The modules

```
                        HonkerQueue
                             |
                        KnockerInbox
                             |
              +--------------+---------------+
              |                              |
         WorkerClaims                 InboxProperties
              |                              |
     +--------+---------+                    |
     |                  |                    |
KnockerWorker     BindingWorker              |
     |                  |                    |
     | <----------------|--------------------+
     |                  | <------------------+
WorkerProperties   BindingProperties
     |                  |
     +-- MCWorker       +-- MCBinding
     +-- IgnoreOverride +-- BindingReplay -- MCReplay

  InboxProperties .. EventLifecycle      an instance: the abstract view of each event
  InboxProperties -- InboxLemmas         the lemmas on the inbox, for all of:
  WorkerProperties -- QueueProofs -- OutcomeProofs       the Python worker
  BindingReplay -- BindingProofs                         the other bindings
  VerifiedIngress -- IngressProofs                       the receivers

  InboxProperties   ProviderSchemes            HonkerQueue
          |               |                         |
          +-------+-------+                     ClaimLoop
                  |                                 |
           VerifiedIngress           +--------------+---------------+
              |       |              |              |               |
        MCIngress  IngressProofs  WorkerLoop  ClaimLoopProofs   Retention
                                     |              |               |
                                     +------+-------+------+--------+--- RetentionTimers
                                            |              |
                                    WorkerLoopProofs  RetentionProofs
```

`HonkerQueue` is the queue as Knocker uses it. A row of the table is a record; a row that has
left `_honker_live` stays under a state that says how it left (acked, dead, deleted before a
replay, pruned with its event), which the code does not keep but the properties ask about. A lease has a deadline in the code; here
it has a flag that a step may set. `HoldsLease` is the condition under which ack, retry and
fail succeed. Which of the claimable jobs a batch takes, and the order in which a batch is
dispatched, are left open: Honker orders them by priority and time, and no property depends
on it.

`KnockerInbox` holds the five tables and all SQL functions over them, wrapped in the status
guards of the Python calls. One action is one committed transaction. Calls that raise roll back and are no step;
so is `ignore` of an event that is ignored already. `received_at` is taken to grow with the
id, so a prune's cutoff is a cutoff among ids. Headers, bodies and error texts are left out,
`handled_at` and `last_error` are kept as set or not set, and the attempts table as the number
of rows of each outcome. A prune leaves tombstones: events, deliveries and jobs go to a state
`pruned`, and the counts of attempts stay with the pruned event; no action reads them, only the
property that compares them with the audit rows. The three key columns of a request are one key, or `NoKey`;
`VerifiedIngress` says where it comes from.

`KnockerWorker` adds any number of Python workers. `pc` says where a worker is:

| `pc` | In the code |
|---|---|
| `idle` | in `run_worker`, between dispatches; `buffer` is `_WorkerQueueIter._buffer` |
| `handling` | in `_dispatch_job`, transaction open; it is the only writer until it leaves |
| `raised` | rolled back, before `_fail_job`'s transaction |
| `stopped` | `run_worker` has re-raised, or the process is dead |

`mark_processing` is inside the transaction that also marks the event handled, so no other
connection ever sees `processing`, and the model's event never has it between steps: `CommitHandled` composes
both row updates. A dispatch that ends before the handler (the event gone or ignored, or no
handler) is one step. Four things are faults, bounded by `MaxFaults`: a crash (`Crash`); a
database error in the claim, or in BEGIN or COMMIT of `_fail_job`, which ends the loop
(`LoopErrs`); one in a dispatch before its handler runs, or in the COMMIT of a dispatch that runs
none, which goes to `_fail_job` as if a handler had raised (`DispatchErrs`; later in a dispatch it
is `HandlerRaises`); and a lease that runs out while its claim is still in use. A lease whose
claim nobody holds any more runs out freely.

`WorkerClaims` is what a worker of any binding keeps of a job it has claimed, and
`InboxProperties` what must hold of the inbox whoever serves it. `WorkerProperties` adds what
is said of Python workers. `EventLifecycle` is the abstract view of one event:
it is owed a run from acceptance or reopening until it is handled or dead, and a commit uses
the debt up. `InboxProperties` instantiates it: an event is owed a run exactly while it has a
live job. `WorkerProperties` claims its `LifeSpec` of Python workers (`ImplementsLifecycle`), and
`BindingProperties` its `HeedlessSpec` of the others (`UndisturbedLifecycle`): the same, with commits
of a run owed to an event that is ignored by now (`CommitIgnored`). `MCWorker` adds what only TLC needs, the symmetry. `IgnoreOverride` adds a history
variable for one question.

`BindingWorker` is `run_worker_once` of the five other bindings. They differ from Python in
four ways: one job per claim; event and delivery read before the transaction; the status
`ignored` not looked at; and of the queue's answers only the ack's is looked at, and only by
Node. `ChecksAck` is the set of workers that do, so a fleet may mix bindings.

| `pc` | In the code |
|---|---|
| `idle` | between calls of `run_worker_once` |
| `claimed` | `honker_claim_batch` has committed; reads, handler lookup |
| `handling` | between BEGIN IMMEDIATE and COMMIT or ROLLBACK; the only writer |
| `raised` | rolled back, before `recordFailedClaim`'s transaction |

What a worker reads before its transaction (endpoint, event type, body) never changes while
the rows are there, so each read is part of the step that uses it. A call that raises ends at
`idle`, where its claim is forgotten; the crash of the process, and a BEGIN that gives up
waiting, are `Crash`. Every claim carries the job's `max_attempts`. `MaxClaims` bounds the claims
of one job; only a job whose event is gone gets there, which the bindings never take out of
the queue.

`BindingReplay` is about two calls of these bindings, `replay` and `requeue`. Python wraps
`SELECT knocker_replay(...)` in a transaction; the others run it in autocommit, where the outer
SELECT writes nothing and SQLite therefore commits each statement of the function when it
ends. So a call is four steps (`Accept`, `ClearStale`, `Reset`, `Enqueue`) of a caller, `call`
says how far it is, and it may die at any of them. The `replay_delivery` of every binding, and
Python's calls, stay single steps.

`ClaimLoop` is the asyncio loop that `run_worker` and `run_retention` share: a call, its claim
task, its stop event and its iterator's buffer. A step is what one task does between two awaits.

| `phase` | In the code |
|---|---|
| `running` | between awaits: at the head of the loop, or in `_dispatch_job`, `_run_retention_job` |
| `waiting` | in `asyncio.wait` for the claim task and the stop, or in `await claim_task` |
| `cancelling` | has cancelled the claim task and awaits its end |
| `reporting` | awaits `on_error`, before it raises again |
| `returned`, `failed`, `cancelled`, `dead` | over: by the stop, an exception, the host, the end of the process |

`task` is the claim task: `ready` to call `claim_batch` when it runs next, `asleep` in the
`wait_for` of an idle queue, `cancelled` but not yet run, `done` or `raised`; `none` when there is
none. `hand` is the job `__anext__` has returned. The task runs whether or not anybody waits for
it, and what it finds out is looked at only when the call runs again; so a claim may succeed
between a stop and the look at it, and then wins. `Stoppable` is the set of calls that were given
a stop event: `asyncio.wait` shields the claim task from a cancellation of the call, a plain
`await` does not, so `Cancel` leaves a task behind for them only. `SetStop` may come at any time.

`WorkerLoop` makes of it `run_worker`, with a dispatch as one step of any outcome, for
`KnockerWorker` looks inside it; the batch of `KnockerWorker` in turn is the loop here without
its tasks. `Retention` makes of it `run_retention`: `sched` is a call's scheduler task (`trying`,
`leading`, `raised`, `off`), `due` and `ticks` are the schedule, and passes are counted, for which
rows a pass prunes is in `KnockerInbox`. `Finally` is the `finally` block, a step after the loop has
ended, for it awaits. `RetentionTimers` is the loop of the other bindings over the same tables.

`ProviderSchemes` is a table of the 21 curated providers, once as the core's `verify_*` functions
and once as the Python classes see them: the fields looked at for an event id and a delivery id, in
which order; what is asked of a timestamp; which of several proofs in a header are tried; which
irregular requests can pass. A proof is simply made with a secret or not, and every kind of
secret is alike. What providers send (`Carries`, `ShapesSent`) is external and read off
the fixtures. `standard_webhooks` stands for its alias `svix` too. With them stand five endpoints that
only Python has: `stripe_legacy`, `stripe_hmac`, `github_hmac` and `acme_hmac` are registered
by the old `verification={...}` configuration, with or without a preset of a known provider and
keys of the endpoint's own, and `acme` by an application's provider class. `PythonScheme`
merges preset, provider and the endpoint's own extractors in the order of
`_verify_and_extract`. Such endpoints reach Python processes only (`Serves`).

`VerifiedIngress` puts `receive()` before the inbox. `Receive` is one call: the verdict of the
receiver's scheme, the dedupe key, and the ingest of `KnockerInbox` with both. `secrets` is what
the last `add_endpoint` of a process left in its `_endpoint_configs` (or, in another binding,
its endpoint map). The provider is modelled with it: it sends an event again as often as it
likes, with a new time and proof; what it sent may arrive any number of times, at any process,
late. `SwitchSecret` and `Configure` are a rotation as ROADMAP.md sketches it, "an overlap window":
all processes know both secrets before the provider uses the new one, and a process forgets the old
one when nothing signed with it is under way. `origin` is a history variable: which event the provider meant.

A definition marked "fault" is a wrong variant of the one after it, of the kind a slip in the
code would be. No specification uses them; they show that each property can fail.

## The runs

| Run | Bounds | Question | States |
|---|---|---|---|
| `lifecycle` | 2 workers, 2 events of 2 types, one without handler, 2 jobs, batch 2, 2 attempts, 1 fault | types; one live job, none stranded; attempts; columns; paid commits; settled events; does the whole implement `EventLifecycle`; is every event settled, under fairness | 336,724 |
| `dedupe` | 2 endpoints, 1 key and none, 2 events, 3 deliveries, 1 prune | linkage, convergence, last deliveries, replay of one delivery, all four columns of the audit, jobs of pruned events, what ends a worker when its event is ignored, pruned or replayed | 453,758 |
| `worker_loop` | 2 calls, one with a stop event, 3 jobs, batch 2, 2 attempts, 1 fault | types; are claims kept until dealt with; is anything claimed late; is a stop honoured and every job settled, under fairness | 179,178 |
| `retention` | 2 processes, 2 intervals, 2 faults | types; passes against intervals; lost passes; schedulers left behind, intervals left unserved, under fairness | 158,894 |
| `retention_timers` | 2 processes, 2 intervals | the guide's promise about several processes, for the other bindings | violated |
| `ignore_override` | 1 worker, 1 event, 2 attempts | the runbook's promise about ignored events | violated |
| `binding_undisturbed` | a worker that checks and one that does not, 1 event of 2 types, 3 jobs, 1 crash, 1 prune | queue agreement, paid commits, settled events, does it implement `EventLifecycle` but for ignored events, progress, if nothing disturbs a claim | 246,968 |
| `binding_calls` | 2 Node workers, 1 caller, 2 jobs, 2 attempts, 1 fault, 1 prune | types; is a replay in four statements safe if nobody else enqueues meanwhile; no unpaid commit | 321,848 |
| `binding_outcomes` | 2 workers that do not check, 1 event, 1 fault | the changelog's promise about refused transitions | violated |
| `binding_torn` | 1 worker, 1 caller, 1 event, 1 fault | the runbook's meaning of `received` | violated |
| `receipts` | 21 providers and 5 endpoints of Python's own, 2 processes, 2 events, 3 requests, 3 deliveries, 3 instants | types; does a rotation lose requests; do the bindings agree; do retries converge | 1,233,342 |
| `distinct_events` | Clerk, 2 events of one user | the guide's promise about `event_key` | violated |

Why the bounds suffice. Two workers are the fewest for a claim to be lost to someone else, and
batches of two the smallest in which a claim waits behind another. One fault makes a lease run
out, the database fail or a worker die at every point of a dispatch; a third claimant adds no new relation, for a job is
claimed by one worker at a time. Two attempts give both a retry and a give-up. In `lifecycle` a
replay uses the second job while a claim of the first may still be in a buffer; the claim is then
stale in every way it can be. Prunes are left to `dedupe` and to the proofs, which have no bounds: with one, `lifecycle` takes
longer than a run should. So the property about what ends a worker is in `dedupe`, where an event may be
ignored and pruned, or replayed, between the rollback of its handler and `_fail_job`; that run has no
faults, so there a claim is lost to a replay or a prune only, and that a lease may run out as well
is in the proof. Two endpoints are
the fewest on which one key may collide, and three deliveries let a key arrive, repeat and
arrive again after a prune. Workers and endpoints of `dedupe` are symmetric; runs with liveness, or
whose elements differ, use no symmetry. One event is
enough for the runs of the other bindings, whose workers hold one claim at a time. In `worker_loop` three
jobs are a batch and one more, for the other call or for the task a cancelled call left behind; the
fault is a cancellation, a crash, an error of claim or dispatch, or a lease that runs out under a
handler. `retention` has two faults, so that a leader may be lost and then its successor, or a
scheduler and a lease; of `ticks` passed at once one job is made, so two intervals give one
job, two, or one after the other. Three requests let one event be sent twice, under two
secrets, and another between; three instants, with a tolerance of one, make a request fresh, on the
edge, and late; the two processes are one of each implementation, for no others differ.

A quiescent system may stop: with the bounded ids used up and all events settled, nothing is
left to do. So deadlock is not checked.

**Fairness.** `FairSpec` assumes that a running worker keeps taking steps (a handler returns or
raises, the loop goes on; a dead worker is started again by its supervisor, which the operator
runbook asks for) and that the lease of an abandoned claim runs out, as it does by the clock.
It assumes nothing of providers or operators, and no handler is assumed to succeed.

The `FairSpec` of `WorkerLoop` and `Retention` assumes that the event loop runs every task that can
run (calls, claim tasks, schedulers, each for itself), that timers fire (an idle claim task wakes by
its poll or by the deadline of the next lease), that handlers end, and that the lease of a claim
nobody keeps runs out. Nothing makes anybody enqueue, stop a call, or an interval pass. The lock of
a leader that is gone is free: Honker's lapses by the clock. Here calls that are over stay over,
so `JobsSettle` and `IntervalsServed` speak of the time while one is up.

`binding_undisturbed` runs under `UndisturbedSpec`: the same fairness, and in place of the
checks the bindings leave out, the conditions that make them unnecessary. No lease runs out
while its worker is at work (a handler is faster than the 60 s of visibility), operators
neither ignore nor reactivate the event of a claim in use, and their replays are whole. Crashes
and prunes still happen. Under these the five bindings keep the queue and the inbox in
agreement, and implement the lifecycle of an event but for `CommitIgnored`; with the `LifeSpec`
that Python's workers implement, the run fails at once, on a job whose event was ignored before
the claim. The violated runs show what happens without the conditions.

**The findings.** Each is a run that TLC refutes.

* `ignore_override` refutes "If a queued job for the event is claimed later, the
  worker short-circuits it without invoking the handler" (operator runbook, "Event should not
  run"). The handler raises and is rolled back; an operator ignores the event; `_fail_job` sets
  it to failed without looking at its status and retries the job; the handler runs again. The
  abstract lifecycle records this in `FailOnce` and `Die`, which accept an ignored event; that a
  *commit* never happens on an ignored event does hold, for Python workers.
* `binding_outcomes`: Bun, Go, Ruby and Elixir commit the handled event although `honker_ack`
  said that the claim is gone. The job stays, and the handler runs and commits again. The
  changelog promises that refused transitions abort the transaction.
* `binding_torn`: a replay outside a transaction that dies after the reset leaves the event
  received without a job, which the runbook describes as "waiting for a worker". It cannot be
  replayed or requeued, only ignored first.
* `retention_timers`: the retention guide promises, of all bindings, that processes on one file run
  "without duplicate prune runs". That holds of Python, by the schedule (`retention`); in the other
  bindings every process runs a pass, with its audit row, in every interval.
* `distinct_events`: the guide to verified ingress says that the `event_key` built-in providers fill
  in "identifies one upstream business event". For Clerk it is the user's id, which both
  implementations take from `data.id`: what happens to one user twice is stored once, and
  handled once. The other providers with a key of this kind are listed in `ObjectFields`.

Where Python and the core differ. `BindingsAgree` is about requests as the providers document
them. The two tables of `ProviderSchemes` also record what they do with others: the core takes a
GitHub request without delivery id, and stores it without a key; only Python takes an
Intercom signature without its prefix; only the core takes Twilio forms with blank parameters and
bodies of SendGrid, HubSpot and Linear that are not JSON; of several `h1` in a Paddle header the
core tries the last, Python all. Of Zendesk and Linear both
look at the time only if there is one they can read. Meta's requests get no key from either, so
every retry is a new event; `RetriesConverge` says nothing of requests without a key.

What the models also show, in runs not kept because they would repeat these. With
`ChecksAck = Workers` (Node), `OutcomesFollowQueue` still fails: the refused ack is rolled back
and then recorded as a failure, without a look at the answer to retry or fail; an event another
worker has handled becomes failed, keeps its `handled_at`, and has no job. With two callers and
no fault, `OneLiveJob` fails under `ReplaySpec`: between the statements of one replay another
one enqueues. The five bindings run the handler of an ignored event at once (`BeginHandling` has
no condition on the status). And since `mark_processing` commits only together with its
outcome, no reader ever sees `processing`, which the runbook explains as "currently claimed".
A job whose event is gone is claimed again for ever by the other bindings, where Python drains it.
A `run_worker` with a stop event that is cancelled leaves its claim task behind, which may claim one
more batch that only the lease brings back (hence the `cancelled` in `ClaimsKept`, and its absence
from `NoClaimAfterEnd`); and a scheduler task that dies of an exception is noticed at the end of
`run_retention` only, so `IntervalsServed` excepts it.

## The proofs

The proofs assume only the named assumptions of the modules: bounds are natural numbers,
`NoWorker` is no worker and `NoKey` no key, `MaxAttempts` and `BatchSize` are positive; for
retention, that there are finitely many processes, all with a stop event, which claim one job at a
time, as `run_retention` does; for verification, that the two secrets differ and the providers are
among those of `ProviderSchemes`, that the model is of one endpoint, and that a key can be any id
a request can carry.

* `InboxLemmas` says of the inbox and its operations what all proofs need, whichever workers serve
  it, and each lemma asks only for what it uses. A step is seen through its effect: on the live jobs
  (none, one settled, those of some events dropped, one event's renewed; a retry is none), on how
  jobs age (`JobsAge`: attempts only grow while a job lives, gone stays gone, acked stays acked), on
  what is linked to what (rows stay, a delivery is inserted, an event is inserted with its first
  delivery, rows are pruned). Each effect keeps each invariant, once and for all; that an operation
  has the effect is shown by operation.
* `QueueProofs`, `TypeCorrect`: `Spec => []TypeOK`. `TypeOK` is inductive because it includes
  that a worker has a current claim exactly while `handling` or `raised`; without it nothing
  says that what a dispatch reads through its claim is a job.
* `QueueProofs`, further: `NoSecondJob`, `NothingStranded` and `NothingLeftOver` for `OneLiveJob`,
  `UnfinishedIsQueued` and `FinishedIsNotQueued`. None of the three is inductive alone. Acking
  the job of a handled event leaves the event without a live job only if it had one
  job; the fresh job of a new event is its only one only if no job names an id not yet used;
  and a worker may write to a job's event because the event of a live job is stored. The
  conjunction with `TypeOK` (`Agreement`) is inductive. `OnlyRefusalsStop`, for
  `OnlyLostClaimsStopWorkers`, is about single steps, those of crashes and database errors apart: a
  worker with its lease has a live job, so the event is stored, so `_fail_job` cannot be refused.
* `QueueProofs`, links: `LinksHold`, `RedeliveriesMeet`, `ArrivalsStay`, `TargetsStay` and `AuditsAddUp`
  for `DeliveryLinkage`, `DedupeConverges`, `EventsKeepDeliveries`, `ReplayTargetStored` and
  `AuditAccounts`. The invariant (`InboxInv`) adds `OneEventPerKey`, what the unique index
  keeps: with linkage it gives convergence. A delivery named by a job is never pruned: a prune takes
  the live jobs with the events, and a live job's delivery is linked to the job's event. This does not need
  the agreement of queue and inbox, only that a live job names an event that was inserted
  (`LiveNamed`), so it holds of the other bindings too. The audit is a count of disjoint sets
  that are added up, one for each column: the attempts of a pruned event are those it had, for
  nothing is recorded for an event that is gone, and no job but those of a prune becomes `pruned`.
* `OutcomeProofs`: `BudgetKeeps`, `ColumnsKeep`, `CommitsPaid` and `SettledStays` for
  `AttemptBudget`, `ColumnsAgree`, `CommitsArePaidFor` and `SettledUntilOperator`. The first two
  compare a row with a job, but a worker writes to the row what its *claim* says, a copy that
  may be old. So the invariant (`OutcomeInv`) adds `ClaimsFit`: a held claim is of a job that
  has been enqueued, and if that job is still live it has used at least the attempts the claim
  remembers. That in turn rests on `JobsAge`, which also gives that the acked
  jobs of an event only grow; a commit adds one to them because the job it acks was live.
  `SettledStays` follows from `Agreement` alone: a worker writes only to the event of a live
  job, and such an event is neither handled nor dead.
* `OutcomeProofs`, `RefinesLifecycle`: `Spec => ImplementsLifecycle`. Every action is shown to
  be one abstract step or none, by its effect on the live jobs. The mapping needs one more
  fact, that the event a handler runs for is not ignored when its transaction commits. The
  worker looked when it began; that this still holds is because it is the only writer, so the
  invariant (`LifeInv`) adds `OneWriter`: at most one worker is inside a dispatch, and what it
  decided at the start of it is still so. What operators' calls, an acked outcome and a recorded
  failure are to the lifecycle is said in `InboxLemmas` (`LifeOperator`, `LifeCommit`,
  `LifeFailure`), and `BindingProofs` uses the same.
* `BindingProofs`, the workers without checks. Every step of theirs is a step of the queue alone or writes
  an outcome, and takes the job along only if the claim still stands (`OnlyQueue`, `Records`). Each
  specification has an invariant of its own, because each promises something else:
  `BindingTypes` and `BindingLinks` for `BindingTypeOK` and the five link invariants, under `ReplaySpec`,
  so with replays torn by crashes and by each other: what keeps the tables together does not depend on
  the queue. `UntriedIsQueued` for `ReceivedIsQueued` and `OneLiveJob`, under `Spec`: an outcome without
  its job leaves `received`, and only a fresh job leads there. `SoloOneLiveJob` and
  `SoloReceivedWaits` for `OneLiveJob` and `ReceivedWaits`, under `SoloSpec`: the invariant (`SoloInv`) says
  between which statements which event has no job, or has none yet. `CheckedCommitsPaid` for
  `CommitsArePaidFor`, under `ReplaySpec` (`SoloCommitsPaid`: `SoloSpec`), if all workers look at the ack, as Node's do;
  a configuration that has others violates it. And under `UndisturbedSpec`, for all bindings:
  `UndisturbedQueued`, `UndisturbedCleared`, `UndisturbedPaid` and `UndisturbedSettles` for `UnfinishedIsQueued`,
  `FinishedIsNotQueued`, `CommitsArePaidFor` and `UndisturbedSettled`, and the refinement,
  `UndisturbedFollows` for `UndisturbedLifecycle`. There the invariant adds
  `ClaimsStand`: the claim of a worker that is not idle is held, or the prune that took its event took its
  job too, and then there is no event to write to. The fairness of that specification is not used.
* `ClaimLoopProofs` and `WorkerLoopProofs`: `LoopTypes`, `ClaimsAreKept` and `NothingClaimedLate` for
  `LoopTypeOK`, `ClaimsKept` and `NoClaimAfterEnd`. The first holds the lemmas about the loop as
  such, which `RetentionProofs` uses too. `ClaimsKept` needs `TaskFits`: a loop that waits for its
  claim task has nothing in its hand or buffer, or else a claim would overwrite what is there; and
  one that awaits the end of a task has cancelled it, or else it could return over a claim just made.
* `RetentionProofs`: `RetentionTypes`, `NoPassTwice` and `NoPassLostUnseen` for `RetentionTypeOK`,
  `NoDuplicateRuns` and `LostPassesAreSeen`. They count along the queue: there are no more passes than
  acked jobs, no more used jobs and due intervals than intervals that have passed, no more dead jobs
  than calls that are over (`Counted`). The schedule moves by one everywhere: `Fire` turns the due
  interval into a used job, `Pass` adds a pass and an acked job. Who leads plays no part in it.
* `IngressProofs`: `RotationIsSafe` and `BothAgree` for `RotationLosesNothing` and `BindingsAgree`.
  The invariant (`IngressInv`) adds `RotationOrder`: once the provider signs with the new secret
  every serving process knows it, what is under way with it was signed after that, and a process
  has forgotten the old one only when the provider and everything under way have. So some proof a
  scheme reads is always known. For the agreement, both sides ask the same of the time of a
  request (`SameClock`), and the keys agree because what a preset of Python adds to the fields of
  its verifier is there already (`MergedLists`). The lemmas about schemes go through the 21
  curated providers and the Python-only ones; no request needs to be enumerated.
  `IngressTypesHold` and `RetriesMeet`, for `IngressTypeOK` and `RetriesConverge`: the invariant
  (`Receipts`) remembers for each stored delivery a request it may have come from, whose key it has,
  under the fields of Python, as the other bindings read the same; an event is sent in one shape, so
  its requests have one key; and deliveries of one key are of one event (`InboxLemmas`).

What is model-checked only is liveness under fairness (`EventuallySettled`, `StopHonoured`,
`JobsSettle`, `NoOrphanScheduler`, `IntervalsServed`): every safety property of a passing run is proved.

## Plan

1. Done: `HonkerQueue`, `KnockerInbox`, `KnockerWorker`, their properties and abstract
   lifecycle; types, queue agreement, the refinement, and the outcome of events proved.
2. Done: `BindingWorker`, `BindingProperties`, `BindingReplay`.
3. Done: `Retention` and `RetentionTimers`, with proofs.
4. Done: `ClaimLoop` and `WorkerLoop`, with proofs.
5. Done: `ProviderSchemes`, `VerifiedIngress`, with the endpoints only Python has.
6. Done: the properties of deliveries, dedupe and audit, what ends a worker, and what verification
   owes a rotation, proved.
7. Done: the other bindings proved, under each of the conditions their runs state, with a
   refinement of their own.
8. Left: a configuration of an endpoint that changes while it is served.

## Not modelled, and why

* The native transaction and database handle (`packages/knocker/src/lib.rs`). It holds one writer
  connection in a mutex and moves it into the transaction, so that Rust's ownership, rather than an
  interleaving of its own, says that it is released once. What it provides is in `KnockerWorker`:
  one writer at a time, all or nothing. Where BEGIN or COMMIT fails, the worker has a step for the
  exception (`HandlerRaises`, `DispatchErrs`, `LoopErrs`).
* A handler that calls its own Knocker: it would wait for the writer its transaction holds, for ever.
  Handlers here have no calls; the hazard is listed.
* Connections shared among goroutines, Ruby threads or Elixir processes. What a statement meets there is
  decided by drivers (`database/sql`'s pool, `sqlite3`'s locking, Exqlite's processes) that are not in
  the repository; a model would be of them. Transactions left open by Elixir without a handler, and by
  Go after a failed COMMIT, belong here.
* A registration that changes the provider or the extractors of an endpoint in service.
* `worker_states`, `on_error` and `last_error` of a worker: local and informative. That errors of the
  claim bypass them is listed as a hazard.
* Schema bootstrap (runs once, before anything else), the extension's entry point (registers
  functions), reads and listings (change nothing), fixtures, benchmarks and the site.

Assumed rather than modelled: worker ids are distinct, as the default uuid makes them (the
code accepts any id from the caller); a process registers an endpoint, with secrets, before
it serves it (Python accepts everything for an endpoint it does not know), and all give it the
same tolerance; all processes use one `max_attempts` and one set of
handlers; every worker and caller has a database connection of its own; the clock does not run backwards, so `received_at` grows with the id.
