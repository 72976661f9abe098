------------------------- MODULE WorkerProperties -------------------------
(***************************************************************************)
(* What makes the Python worker correct, beyond what InboxProperties says  *)
(* of the inbox it serves.                                                 *)
(***************************************************************************)
EXTENDS KnockerWorker, InboxProperties

-----------------------------------------------------------------------------
(* Types.                                                                  *)

WorkerTypeOK ==
  /\ pc \in [Workers -> WorkerPc]
  /\ buffer \in [Workers -> SUBSET Claim]
  /\ cur \in [Workers -> Claim \cup {NoClaim}]
  /\ faults \in Nat

\* Every variable keeps its type; a worker has a current claim exactly while it is
\* between the start of a dispatch and its end.
TypeOK ==
  /\ QueueTypeOK /\ InboxTypeOK /\ WorkerTypeOK
  /\ \A w \in Workers : cur[w] = NoClaim <=> pc[w] \in {"idle", "stopped"}

\* The counter an operator reads stays below the limit until the event is dead, and
\* never runs ahead of the attempts its job has used.
AttemptBudget ==
  \A e \in EventId :
    /\ event[e].status = "failed" => event[e].attempt_count < MaxAttempts
    /\ \A j \in JobId : Live(j) /\ job[j].event = e => event[e].attempt_count <= job[j].attempts

-----------------------------------------------------------------------------
(* What a step may never do.                                               *)

\* The settled outcomes are left only by an operator: a handled event only by a
\* replay, which enqueues a fresh job, or a prune; a dead one by a replay or an
\* ignore.  A worker with a stale claim never reopens either.
SettledUntilOperator == [][OperatorsReopen]_vars

\* Crashes and database errors apart, a worker's loop ends only because a claim in its
\* hands has been lost: the lease has run out, or a replay or a prune has deleted the
\* job.  An event that is gone without its job, or one that was ignored between the
\* rollback and _fail_job, never ends the loop of a worker that holds its lease.
OnlyLostClaimsStopWorkers ==
  [][\A w \in Workers :
       pc[w] # "stopped" /\ pc'[w] = "stopped" /\ faults' = faults =>
         \E c \in Holds(w) : c # NoClaim /\ ~HoldsLease(w, c.job)]_vars

-----------------------------------------------------------------------------
(* The abstract view.                                                      *)

\* Every step of inbox and workers is a lifecycle step or none: claims, leases, refused
\* acks, crashes, restarts and redeliveries are invisible, and a handler commits only
\* against a run still owed to an event nobody has ignored.
ImplementsLifecycle == Lifecycle!LifeSpec
=============================================================================
