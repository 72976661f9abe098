-------------------------- MODULE IgnoreOverride --------------------------
(***************************************************************************)
(* KnockerWorker with one history variable: the events an operator has     *)
(* ignored and not reactivated since.  It changes nothing the worker does. *)
(***************************************************************************)
EXTENDS WorkerProperties

VARIABLE setAside   \* events whose last operator action was ignore

IgnoredNow == {e \in EventId : event[e].status # "ignored" /\ event'[e].status = "ignored"}
ReactivatedNow == {e \in EventId : FreshJobFor(e)}

HInit == Init /\ setAside = {}
HNext == Next /\ setAside' = (setAside \cup IgnoredNow) \ ReactivatedNow
HSpec == HInit /\ [][HNext]_<<vars, setAside>>

\* Operator runbook, "Event should not run": after ignore(...), "if a queued job for
\* the event is claimed later, the worker short-circuits it without invoking the
\* handler".  So no handler runs for an event whose last operator action was ignore.
IgnoredNeverRuns ==
  \A w \in Workers : pc[w] = "handling" => EventOf(cur[w]) \notin setAside
============================================================================
