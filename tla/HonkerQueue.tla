---------------------------- MODULE HonkerQueue ----------------------------
(***************************************************************************)
(* The Honker job queue, as Knocker uses it.  Honker is a dependency whose *)
(* source is not in the repository, so this module states only what        *)
(* Knocker's calls rely on: honker_enqueue, claim_batch, honker_ack,       *)
(* honker_retry, honker_fail, and plain DELETEs of _honker_live rows.      *)
(*                                                                         *)
(* A job id is never reused: a row that has left _honker_live keeps its    *)
(* payload here under a state that says how it left, so the set of ids a   *)
(* behaviour has used is part of the state.                                *)
(*                                                                         *)
(* A lease is a claim with a deadline.  Time is not a number here: a lease *)
(* is unexpired until some step lets its deadline pass.                    *)
(***************************************************************************)
EXTENDS Integers, FiniteSets

CONSTANTS
  Workers,     \* worker ids, unique per running worker (uuid4 by default)
  NoWorker,    \* worker_id of a job nobody has claimed
  MaxJobs      \* bound: how many jobs a behaviour may enqueue

ASSUME MaxJobsAssumption == MaxJobs \in Nat
ASSUME NoWorkerAssumption == NoWorker \notin Workers

VARIABLE job   \* JobId -> the _honker_live row, or how it ended

JobId == 1..MaxJobs

\* What a job's payload says: {"event_id": e} or {"event_id": e, "delivery_id": d}.
NoRef == 0

LiveState == {"pending", "claimed"}
GoneState == {"acked", "dead", "deleted", "pruned"}

JobRow == [state : {"unused"} \cup LiveState \cup GoneState,
           event : Nat, delivery : Nat,
           worker : Workers \cup {NoWorker}, attempts : Nat, expired : BOOLEAN]

UnusedJob == [state |-> "unused", event |-> NoRef, delivery |-> NoRef,
              worker |-> NoWorker, attempts |-> 0, expired |-> FALSE]

QueueInit == job = [j \in JobId |-> UnusedJob]

-----------------------------------------------------------------------------
\* A row of _honker_live.
Live(j) == job[j].state \in LiveState

\* The jobs claim_batch may hand out: never claimed, released by a retry, or
\* claimed under a lease whose deadline has passed.
Claimable(j) == job[j].state = "pending" \/ (job[j].state = "claimed" /\ job[j].expired)

\* honker_ack, honker_retry and honker_fail succeed for exactly this caller.
HoldsLease(w, j) == job[j].state = "claimed" /\ job[j].worker = w /\ ~job[j].expired

\* The id AUTOINCREMENT gives next.
NextJobId(j) ==
  /\ j \in JobId
  /\ job[j].state = "unused"
  /\ \A i \in JobId : i < j => job[i].state # "unused"

-----------------------------------------------------------------------------
(* Effects on the table.  Each maps one table to the next, so that a       *)
(* transaction can chain them.                                             *)

Enqueued(jobs, j, e, d) ==
  [jobs EXCEPT ![j] = [UnusedJob EXCEPT !.state = "pending", !.event = e, !.delivery = d]]

\* A row that leaves _honker_live, as `how`.
Retired(row, how) ==
  [row EXCEPT !.state = how, !.worker = NoWorker, !.attempts = 0, !.expired = FALSE]

\* A job claimed by w: the row counts the attempt before the handler runs.
Claimed(row, w) ==
  [row EXCEPT !.state = "claimed", !.worker = w, !.attempts = @ + 1, !.expired = FALSE]

\* A job released for another attempt, with no delay.
Released(row) == [row EXCEPT !.state = "pending", !.worker = NoWorker, !.expired = FALSE]

Acked(jobs, j)   == [jobs EXCEPT ![j] = Retired(@, "acked")]
Failed(jobs, j)  == [jobs EXCEPT ![j] = Retired(@, "dead")]
Retried(jobs, j) == [jobs EXCEPT ![j] = Released(@)]
=============================================================================
