----------------------------- MODULE ClaimLoop -----------------------------
(***************************************************************************)
(* The asyncio loop around claiming that Knocker.run_worker and            *)
(* Knocker.run_retention share, over the queue iterator of queue.py: a     *)
(* claim task that sleeps until there may be work, a stop event, and a     *)
(* host that may cancel the call.                                          *)
(*                                                                         *)
(* A loop is one call, and its worker id is its own.  A step is what one   *)
(* task does between two awaits; the loops may be in one process or in     *)
(* several.  What a loop does with a job is left to the modules that       *)
(* extend this one.                                                        *)
(***************************************************************************)
EXTENDS HonkerQueue

CONSTANTS
  BatchSize,   \* claim_batch_size of the iterators
  Stoppable,   \* the loops that were given a stop_event
  MaxFaults    \* bound: cancellations, crashes, errors and leases that run out while held

ASSUME LoopAssumption ==
  BatchSize \in Nat \ {0} /\ MaxFaults \in Nat /\ Stoppable \subseteq Workers

VARIABLES
  phase,    \* loop -> where the call is
  task,     \* loop -> its claim task
  hand,     \* loop -> the job __anext__ has returned, until it is dealt with
  buffer,   \* loop -> the iterator's _buffer
  stop,     \* loop -> stop_event.is_set()
  faults    \* faults so far

loopVars == <<phase, task, hand, buffer, stop, faults>>

\* running: between awaits.  waiting: in asyncio.wait, or in `await claim_task`.
\* cancelling: awaits the claim task it has cancelled.  reporting: awaits on_error.
Up == {"running", "waiting", "cancelling"}
Ended == {"returned", "failed", "cancelled", "dead"}
Phase == Up \cup {"reporting"} \cup Ended

\* ready: will call claim_batch when it runs next.  asleep: in wait_for.
\* cancelled: will raise CancelledError when it runs next.
TaskState == {"none", "ready", "asleep", "cancelled", "done", "raised"}

LoopInit ==
  /\ QueueInit
  /\ phase = [w \in Workers |-> "running"]
  /\ task = [w \in Workers |-> "none"]
  /\ hand = [w \in Workers |-> NoRef]
  /\ buffer = [w \in Workers |-> {}]
  /\ stop = [w \in Workers |-> FALSE]
  /\ faults = 0

\* The claims the iterator of a loop still keeps, or the loop is dealing with.
Keeps(w, j) == phase[w] \in Up /\ (j = hand[w] \/ j \in buffer[w])

\* A claim no loop keeps any more.
Stranded(j) == job[j].state = "claimed" /\ ~Keeps(job[j].worker, j)

\* The call leaves its loop, as `how`, and with its claim task in state t.
Leaves(w, how, t) ==
  /\ phase' = [phase EXCEPT ![w] = how]
  /\ task' = [task EXCEPT ![w] = t]
  /\ hand' = [hand EXCEPT ![w] = NoRef]
  /\ buffer' = [buffer EXCEPT ![w] = {}]

Fault == faults < MaxFaults /\ faults' = faults + 1

-----------------------------------------------------------------------------
(* The head of the loop.                                                   *)

AtHead(w) == phase[w] = "running" /\ hand[w] = NoRef

ReturnAtOnce(w) ==   \* fault: the stop is honoured before the buffer is empty
  /\ AtHead(w) /\ stop[w]
  /\ Leaves(w, "returned", "none")
  /\ UNCHANGED <<job, stop, faults>>

\* `if stop_event.is_set() and not claims.has_buffered_jobs(): return`
Return(w) ==
  /\ AtHead(w) /\ stop[w] /\ buffer[w] = {}
  /\ Leaves(w, "returned", "none")
  /\ UNCHANGED <<job, stop, faults>>

\* __anext__ with a buffered job: it returns without suspending.
TakeBuffered(w) ==
  /\ AtHead(w)
  /\ \E j \in buffer[w] :
       /\ hand' = [hand EXCEPT ![w] = j]
       /\ buffer' = [buffer EXCEPT ![w] = @ \ {j}]
  /\ UNCHANGED <<job, phase, task, stop, faults>>

\* create_task(claims.__anext__()), and the wait for it and for the stop.
StartWaiting(w) ==
  /\ AtHead(w) /\ ~stop[w] /\ buffer[w] = {}
  /\ phase' = [phase EXCEPT ![w] = "waiting"]
  /\ task' = [task EXCEPT ![w] = "ready"]
  /\ UNCHANGED <<job, hand, buffer, stop, faults>>

-----------------------------------------------------------------------------
(* The claim task: _WorkerQueueIter.__anext__ with an empty buffer.  It    *)
(* runs whether or not anybody still waits for it.                         *)

\* claim_batch found jobs: the first is the task's result, the rest are buffered.
ClaimSome(w) ==
  /\ task[w] = "ready"
  /\ \E S \in SUBSET {j \in JobId : Claimable(j)}, first \in JobId :
       /\ first \in S
       /\ \/ Cardinality(S) = BatchSize
          \/ Cardinality(S) < BatchSize /\ \A j \in JobId : Claimable(j) => j \in S
       /\ job' = [j \in JobId |-> IF j \in S THEN Claimed(job[j], w) ELSE job[j]]
       /\ hand' = [hand EXCEPT ![w] = first]
       /\ buffer' = [buffer EXCEPT ![w] = S \ {first}]
  /\ task' = [task EXCEPT ![w] = "done"]
  /\ UNCHANGED <<phase, stop, faults>>

ClaimNone(w) ==
  /\ task[w] = "ready"
  /\ \A j \in JobId : ~Claimable(j)
  /\ task' = [task EXCEPT ![w] = "asleep"]
  /\ UNCHANGED <<job, phase, hand, buffer, stop, faults>>

WakeOnUpdate(w) ==   \* fault: sleeps through the deadline of a lease
  /\ task[w] = "asleep"
  /\ \E j \in JobId : job[j].state = "pending"
  /\ task' = [task EXCEPT ![w] = "ready"]
  /\ UNCHANGED <<job, phase, hand, buffer, stop, faults>>

\* The database changed, idle_poll_s passed, or the next claim deadline did.
Wake(w) ==
  /\ task[w] = "asleep"
  /\ task' = [task EXCEPT ![w] = "ready"]
  /\ UNCHANGED <<job, phase, hand, buffer, stop, faults>>

\* claim_batch raises: the database is locked or closed.
ClaimRaises(w) ==
  /\ task[w] = "ready"
  /\ Fault
  /\ task' = [task EXCEPT ![w] = "raised"]
  /\ UNCHANGED <<job, phase, hand, buffer, stop>>

-----------------------------------------------------------------------------
(* asyncio.wait returns.  It looks at both tasks when the call runs again, *)
(* so a claim that has finished by then wins over the stop.                *)

TakeClaim(w) ==
  /\ phase[w] = "waiting" /\ task[w] = "done"
  /\ phase' = [phase EXCEPT ![w] = "running"]
  /\ task' = [task EXCEPT ![w] = "none"]
  /\ UNCHANGED <<job, hand, buffer, stop, faults>>

\* claim_task.result() raises outside the try that reports errors.
ClaimFailed(w) ==
  /\ phase[w] = "waiting" /\ task[w] = "raised"
  /\ Leaves(w, "failed", "none")
  /\ UNCHANGED <<job, stop, faults>>

StopWins(w) == phase[w] = "waiting" /\ stop[w] /\ task[w] \in {"ready", "asleep"}

HonourStopLeavingTask(w) ==   \* fault: returns without cancelling the claim task
  /\ StopWins(w)
  /\ Leaves(w, "returned", task[w])
  /\ UNCHANGED <<job, stop, faults>>

HonourStopAwaitingClaim(w) == \* fault: awaits the claim task without cancelling it
  /\ StopWins(w)
  /\ Leaves(w, "cancelling", task[w])
  /\ UNCHANGED <<job, stop, faults>>

\* claim_task.cancel(), and the await of its end.
HonourStop(w) ==
  /\ StopWins(w)
  /\ Leaves(w, "cancelling", "cancelled")
  /\ UNCHANGED <<job, stop, faults>>

ClaimCancelled(w) ==
  /\ phase[w] = "cancelling" /\ task[w] = "cancelled"
  /\ Leaves(w, "returned", "none")
  /\ UNCHANGED <<job, stop, faults>>

-----------------------------------------------------------------------------
(* on_error is awaited, then the exception raised again.                   *)

Report(w) ==
  /\ phase[w] = "reporting"
  /\ Leaves(w, "failed", "none")
  /\ UNCHANGED <<job, stop, faults>>

-----------------------------------------------------------------------------
(* The host and the environment.                                           *)

SetStop(w) ==
  /\ w \in Stoppable /\ ~stop[w]
  /\ stop' = [stop EXCEPT ![w] = TRUE]
  /\ UNCHANGED <<job, phase, task, hand, buffer, faults>>

\* The host cancels the call where it is suspended.  Inside asyncio.wait that does
\* not reach the claim task; in `await claim_task` it does.  A call that waits for
\* its cancelled claim task takes the CancelledError for the task's, and returns.
Cancel(w) ==
  /\ phase[w] \in {"waiting", "reporting"}
  /\ Fault
  /\ Leaves(w, "cancelled", IF w \in Stoppable THEN task[w] ELSE "none")
  /\ UNCHANGED <<job, stop>>

\* The process dies, and with it a claim task that outlived its call.
Crash(w) ==
  /\ phase[w] \notin Ended \/ task[w] \in {"ready", "asleep"}
  /\ Fault
  /\ Leaves(w, "dead", "none")
  /\ UNCHANGED <<job, stop>>

\* The lease of a claim nobody keeps runs out; under a slow handler, any may.
LeaseExpires(j) ==
  /\ job[j].state = "claimed" /\ ~job[j].expired
  /\ job' = [job EXCEPT ![j].expired = TRUE]
  /\ \/ Stranded(j) /\ UNCHANGED faults
     \/ ~Stranded(j) /\ Fault
  /\ UNCHANGED <<phase, task, hand, buffer, stop>>

-----------------------------------------------------------------------------
TaskStep(w) == ClaimSome(w) \/ ClaimNone(w) \/ Wake(w)

CallStep(w) ==
  \/ Return(w) \/ TakeBuffered(w) \/ StartWaiting(w)
  \/ TakeClaim(w) \/ ClaimFailed(w)
  \/ HonourStop(w) \/ ClaimCancelled(w)
  \/ Report(w)

Disturb ==
  \/ \E w \in Workers : SetStop(w) \/ ClaimRaises(w) \/ Cancel(w)
  \/ \E j \in JobId : LeaseExpires(j)

-----------------------------------------------------------------------------
(* Properties of the loop, whatever it does with its jobs.                 *)

\* Every variable keeps its type, and a call has a claim task exactly while it waits
\* for one, but for a call that was cancelled.
LoopTypeOK ==
  /\ job \in [JobId -> JobRow]
  /\ phase \in [Workers -> Phase] /\ task \in [Workers -> TaskState]
  /\ hand \in [Workers -> JobId \cup {NoRef}] /\ buffer \in [Workers -> SUBSET JobId]
  /\ stop \in [Workers -> BOOLEAN] /\ faults \in Nat
  /\ \A w \in Workers :
       phase[w] # "cancelled" => (task[w] # "none" <=> phase[w] \in {"waiting", "cancelling"})

\* A claim whose lease still runs is kept by the loop it was made for: only a call
\* that failed, was cancelled or died leaves claims to their leases.  A stop never
\* does, whether it comes before a claim, together with it, or between the jobs of a
\* batch ("drains already-claimed buffered jobs before honoring a stop signal").
ClaimsKept ==
  \A j \in JobId : job[j].state = "claimed" /\ ~job[j].expired =>
    \/ Keeps(job[j].worker, j)
    \/ phase[job[j].worker] \in {"reporting", "failed", "cancelled", "dead"}

\* A stop ends the call: no sleeping claim task, no buffered batch and no claim that
\* wins over the stop keeps it up for ever.
StopHonoured == \A w \in Workers : stop[w] ~> phase[w] \in Ended

\* Every job is settled in the end while any call is up, also one that was claimed by a
\* task nobody waits for, or that an error left in a buffer.
JobsSettle ==
  \A j \in JobId : Live(j) ~> ~Live(j) \/ \A w \in Workers : phase[w] \in Ended
=============================================================================
