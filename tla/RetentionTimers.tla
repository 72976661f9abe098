-------------------------- MODULE RetentionTimers --------------------------
(***************************************************************************)
(* runRetention of the Node, Bun, Go, Ruby and Elixir bindings: a loop in  *)
(* each process that runs a pass, sleeps for the interval, and runs the    *)
(* next.  There is no schedule and no job; the pass is all it shares with  *)
(* the Python automation, and NoDuplicateRuns is asked of both.            *)
(***************************************************************************)
EXTENDS Retention

VARIABLE timer   \* process -> its interval is over, and a pass due

\* Every process has run the pass it begins with; passes are counted from here.
TimersInit == Init /\ timer = [w \in Workers |-> FALSE]

TimersTick == Tick /\ timer' = [w \in Workers |-> TRUE]

\* runRetentionOnce: BEGIN IMMEDIATE, knocker_run_retention_pass, COMMIT.
RunOnce(w) ==
  /\ timer[w]
  /\ timer' = [timer EXCEPT ![w] = FALSE]
  /\ passes' = passes + 1
  /\ UNCHANGED <<job, loopVars, sched, due, ticks>>

TimersNext == TimersTick \/ \E w \in Workers : RunOnce(w)

TimersSpec == TimersInit /\ [][TimersNext]_<<vars, timer>>
=============================================================================
