-------------------------- MODULE EventLifecycle --------------------------
(***************************************************************************)
(* What the inbox promises about one event, without workers, claims,       *)
(* leases, batches or crashes: an event is owed a run from the moment it   *)
(* is taken in or reopened by an operator until it is handled or dead, and *)
(* a run that commits uses the debt up.                                    *)
(***************************************************************************)
EXTENDS Naturals

CONSTANT EventId

VARIABLES
  status,   \* event -> absent, received, handled, failed, dead, ignored, pruned
  owed,     \* event -> whether the inbox still owes it a run
  commits   \* event -> how often its handler's writes were committed

lifeVars == <<status, owed, commits>>

LifeInit ==
  /\ status = [e \in EventId |-> "absent"]
  /\ owed = [e \in EventId |-> FALSE]
  /\ commits = [e \in EventId |-> 0]

Moves(e, from, to) ==
  /\ status[e] \in from
  /\ status' = [status EXCEPT ![e] = to]

Accept(e) ==
  /\ Moves(e, {"absent"}, "received")
  /\ owed' = [owed EXCEPT ![e] = TRUE]
  /\ UNCHANGED commits

\* Never without a debt, and never on an event an operator has ignored.
Commit(e) ==
  /\ owed[e]
  /\ Moves(e, {"received", "failed"}, "handled")
  /\ owed' = [owed EXCEPT ![e] = FALSE]
  /\ commits' = [commits EXCEPT ![e] = @ + 1]

\* A run owed to an event that is ignored by now, committed all the same.
CommitIgnored(e) ==
  /\ owed[e]
  /\ Moves(e, {"ignored"}, "handled")
  /\ owed' = [owed EXCEPT ![e] = FALSE]
  /\ commits' = [commits EXCEPT ![e] = @ + 1]

\* A failed run may be recorded on an event ignored while it was being recorded.
FailOnce(e) ==
  /\ owed[e]
  /\ Moves(e, {"received", "failed", "ignored"}, "failed")
  /\ UNCHANGED <<owed, commits>>

Die(e) ==
  /\ owed[e]
  /\ Moves(e, {"received", "failed", "ignored"}, "dead")
  /\ owed' = [owed EXCEPT ![e] = FALSE]
  /\ UNCHANGED commits

SetAside(e) ==
  /\ Moves(e, {"received", "failed", "dead"}, "ignored")
  /\ UNCHANGED <<owed, commits>>

\* The run owed to an ignored event is dropped without running anything.
Forgive(e) ==
  /\ status[e] = "ignored" /\ owed[e]
  /\ owed' = [owed EXCEPT ![e] = FALSE]
  /\ UNCHANGED <<status, commits>>

Reopen(e) ==
  /\ Moves(e, {"handled", "failed", "dead", "ignored"}, "received")
  /\ owed' = [owed EXCEPT ![e] = TRUE]
  /\ UNCHANGED commits

Prune(E) ==
  /\ \A e \in E : status[e] \in {"handled", "ignored"}
  /\ status' = [e \in EventId |-> IF e \in E THEN "pruned" ELSE status[e]]
  /\ owed' = [e \in EventId |-> owed[e] /\ e \notin E]
  /\ UNCHANGED commits

LifeNext ==
  \/ \E e \in EventId :
       \/ Accept(e) \/ Commit(e) \/ FailOnce(e) \/ Die(e)
       \/ SetAside(e) \/ Forgive(e) \/ Reopen(e)
  \/ \E E \in SUBSET EventId : Prune(E)

LifeSpec == LifeInit /\ [][LifeNext]_lifeVars

\* The promise that is left where nobody looks whether an event has been ignored.
HeedlessNext == LifeNext \/ \E e \in EventId : CommitIgnored(e)

HeedlessSpec == LifeInit /\ [][HeedlessNext]_lifeVars
============================================================================
