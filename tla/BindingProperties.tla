------------------------- MODULE BindingProperties -------------------------
(***************************************************************************)
(* What can be relied on when the workers of Node, Bun, Go, Ruby or Elixir *)
(* serve the inbox, and a promise they do not keep.                        *)
(***************************************************************************)
EXTENDS BindingWorker, InboxProperties

\* Every variable keeps its type; a worker has a claim exactly while run_worker_once
\* is under way.
BindingTypeOK ==
  /\ QueueTypeOK /\ InboxTypeOK
  /\ pc \in [Workers -> WorkerPc]
  /\ cur \in [Workers -> Claim \cup {NoClaim}]
  /\ faults \in Nat
  /\ \A w \in Workers : cur[w] = NoClaim <=> pc[w] = "idle"

-----------------------------------------------------------------------------
(* What holds whatever lapses and whatever operators do.                   *)

\* Unchecked outcomes strand events that have been tried (see OutcomesFollowQueue), but
\* never one that has not been: a received event is in the queue, and so reaches a
\* handler or the dead letters.
ReceivedIsQueued ==
  \A e \in EventId : event[e].status = "received" =>
    \E j \in JobId : Live(j) /\ job[j].event = e

-----------------------------------------------------------------------------
(* What holds if leases outlive handlers and operators keep away from the  *)
(* events being handled.                                                   *)

\* The settled outcomes are left only by an operator.
UndisturbedSettled == [][OperatorsReopen]_vars

\* The lifecycle is kept too, but for one thing: a worker that does not look whether the
\* event was ignored before it claimed the job commits the run owed to it.
UndisturbedLifecycle == Lifecycle!HeedlessSpec

-----------------------------------------------------------------------------
(* What the docs say and the code does not do.                             *)

\* A step by which worker w is done with its claim.
Finishes(w) == pc[w] # "idle" /\ pc'[w] = "idle"

\* The changelog: a refused ack, retry or fail aborts the transaction, "so Knocker event
\* state cannot commit out of sync with queue state".  A worker whose claim does not
\* stand any more changes no event, by a commit or by recording a failure.
OutcomesFollowQueue ==
  [][\A w \in Workers : pc[w] \in {"handling", "raised"} /\ Finishes(w) /\ event' # event =>
       HoldsLease(w, cur[w].job)]_vars
=============================================================================
