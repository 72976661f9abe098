-------------------------- MODULE ClaimLoopProofs --------------------------
(***************************************************************************)
(* The claim loop for every number of loops, jobs and faults: types, and   *)
(* claims that are kept until they are dealt with.                         *)
(*                                                                         *)
(* ClaimsKept is not inductive by itself: a claim task that claims a batch *)
(* would overwrite one the loop still has, and a call that leaves while it *)
(* has one would drop it.  TaskFits says that neither can be.              *)
(***************************************************************************)
EXTENDS ClaimLoop, TLAPS

\* A loop whose claim task has not succeeded has no claims, and a loop that waits for
\* the end of its claim task has cancelled it.
TaskFits ==
  \A w \in Workers :
    /\ phase[w] = "cancelling" => task[w] = "cancelled"
    /\ phase[w] \in {"waiting", "cancelling"} /\ task[w] # "done" =>
         hand[w] = NoRef /\ buffer[w] = {}

\* A claimed job has a worker.
ClaimantsKnown == \A j \in JobId : job[j].state = "claimed" => job[j].worker \in Workers

LoopInv == LoopTypeOK /\ ClaimsKept /\ TaskFits /\ ClaimantsKnown

-----------------------------------------------------------------------------
(* What the operations of the queue do to one row.                         *)

\* A claimed row is a row.
LEMMA ClaimedRow ==
  ASSUME NEW row \in JobRow, NEW w \in Workers
  PROVE  /\ Claimed(row, w) \in JobRow
         /\ Claimed(row, w).state = "claimed" /\ Claimed(row, w).worker = w
         /\ ~Claimed(row, w).expired
<1>1. row.attempts + 1 \in Nat
  BY DEF JobRow
<1>2. Claimed(row, w) \in JobRow
  BY <1>1 DEF JobRow, Claimed, LiveState
<1>3. /\ Claimed(row, w).state = "claimed" /\ Claimed(row, w).worker = w
      /\ ~Claimed(row, w).expired
  BY DEF JobRow, Claimed
<1>4. QED
  BY <1>2, <1>3

\* So is one that has left the queue,
LEMMA RetiredRow ==
  ASSUME NEW row \in JobRow, NEW how \in GoneState
  PROVE  Retired(row, how) \in JobRow /\ Retired(row, how).state = how
BY DEF JobRow, Retired, LiveState, GoneState

\* one released for another attempt,
LEMMA ReleasedRow ==
  ASSUME NEW row \in JobRow
  PROVE  Released(row) \in JobRow /\ Released(row).state = "pending"
BY DEF JobRow, Released, LiveState, GoneState

\* and a fresh one.
LEMMA EnqueuedRow ==
  ASSUME job \in [JobId -> JobRow], NEW j \in JobId
  PROVE  /\ Enqueued(job, j, NoRef, NoRef) \in [JobId -> JobRow]
         /\ Enqueued(job, j, NoRef, NoRef)[j].state = "pending"
         /\ \A i \in JobId \ {j} : Enqueued(job, j, NoRef, NoRef)[i] = job[i]
BY DEF JobRow, Enqueued, UnusedJob, NoRef, LiveState, GoneState

-----------------------------------------------------------------------------
\* The invariant holds at first.
LEMMA LoopStart ==
  ASSUME LoopInit
  PROVE  LoopInv
<1>1. UnusedJob \in JobRow /\ UnusedJob.state = "unused"
  BY DEF UnusedJob, JobRow, NoRef
<1>2. LoopTypeOK
  BY <1>1 DEF LoopInit, QueueInit, LoopTypeOK, Phase, Up, Ended, TaskState
<1>3. QED
  BY <1>1, <1>2 DEF LoopInit, QueueInit, LoopInv, ClaimsKept, TaskFits, ClaimantsKnown

\* A loop leaves when it has no claims, or in a way that leaves them to their leases.
LEMMA LoopLeaves ==
  ASSUME LoopInv, NEW w \in Workers, NEW how, NEW t \in TaskState,
         Leaves(w, how, t), UNCHANGED <<job, stop>>, faults' \in Nat,
         \/ how \in {"failed", "cancelled", "dead"} /\ (how # "cancelled" => t = "none")
         \/ hand[w] = NoRef /\ buffer[w] = {} /\ phase[w] \in Up /\
              \/ how = "returned" /\ t = "none"
              \/ how = "cancelling" /\ t = "cancelled"
  PROVE  LoopInv'
<1>1. /\ phase' = [phase EXCEPT ![w] = how] /\ task' = [task EXCEPT ![w] = t]
      /\ hand' = [hand EXCEPT ![w] = NoRef] /\ buffer' = [buffer EXCEPT ![w] = {}]
  BY DEF Leaves
<1>2. LoopTypeOK'
  BY <1>1 DEF LoopInv, LoopTypeOK, Phase, Up, Ended
<1>3. TaskFits'
  BY <1>1 DEF LoopInv, LoopTypeOK, TaskFits
<1>4. ClaimantsKnown'
  BY DEF LoopInv, ClaimantsKnown
<1>5. ClaimsKept'
  <2>1. SUFFICES ASSUME NEW j \in JobId, job[j].state = "claimed", ~job[j].expired
                 PROVE  \/ Keeps(job[j].worker, j)'
                        \/ phase'[job[j].worker] \in {"reporting", "failed", "cancelled", "dead"}
    BY DEF ClaimsKept
  <2>2. job[j].worker \in Workers
    BY <2>1 DEF LoopInv, ClaimantsKnown
  <2>3. CASE job[j].worker = w
    BY <1>1, <2>1, <2>3 DEF LoopInv, ClaimsKept, Keeps, LoopTypeOK, JobId, NoRef, Up
  <2>4. CASE job[j].worker # w
    BY <1>1, <2>1, <2>2, <2>4 DEF LoopInv, ClaimsKept, Keeps, LoopTypeOK
  <2>5. QED
    BY <2>3, <2>4
<1>6. QED
  BY <1>2, <1>3, <1>4, <1>5 DEF LoopInv

\* A loop goes on, with the claims it has: in another phase or with another task state,
\* or with a claim moved from its buffer to its hand.
LEMMA LoopGoesOn ==
  ASSUME LoopInv, NEW w \in Workers, UNCHANGED <<job, stop>>, faults' \in Nat,
         NEW how \in Phase, NEW t \in TaskState,
         phase' = [phase EXCEPT ![w] = how], task' = [task EXCEPT ![w] = t],
         how \notin {"cancelled", "cancelling"} => (t # "none" <=> how = "waiting"),
         how = "cancelling" => t = "cancelled",
         phase[w] \in Up => how \in Up \cup {"reporting"},
         phase[w] \notin Up => how = phase[w],
         hand' \in [Workers -> JobId \cup {NoRef}], buffer' \in [Workers -> SUBSET JobId],
         \A v \in Workers \ {w} : hand'[v] = hand[v] /\ buffer'[v] = buffer[v],
         \A j \in JobId : j = hand[w] \/ j \in buffer[w] => j = hand'[w] \/ j \in buffer'[w],
         how \in {"waiting", "cancelling"} /\ t # "done" => hand'[w] = NoRef /\ buffer'[w] = {}
  PROVE  LoopInv'
<1>1. LoopTypeOK'
  BY DEF LoopInv, LoopTypeOK
<1>2. TaskFits'
  BY DEF LoopInv, LoopTypeOK, TaskFits
<1>3. ClaimantsKnown'
  BY DEF LoopInv, ClaimantsKnown
<1>4. ClaimsKept'
  <2>1. SUFFICES ASSUME NEW j \in JobId, job[j].state = "claimed", ~job[j].expired
                 PROVE  \/ Keeps(job[j].worker, j)'
                        \/ phase'[job[j].worker] \in {"reporting", "failed", "cancelled", "dead"}
    BY DEF ClaimsKept
  <2>2. job[j].worker \in Workers
    BY <2>1 DEF LoopInv, ClaimantsKnown
  <2>3. CASE job[j].worker = w
    <3>1. phase'[w] = how /\ job'[j].worker = w
      BY <2>3 DEF LoopInv, LoopTypeOK
    <3>2. \/ phase[w] \in Up /\ (j = hand[w] \/ j \in buffer[w])
          \/ phase[w] \in {"reporting", "failed", "cancelled", "dead"}
      BY <2>1, <2>3 DEF LoopInv, ClaimsKept, Keeps
    <3>3. CASE phase[w] \in Up /\ (j = hand[w] \/ j \in buffer[w])
      BY <2>3, <3>1, <3>3 DEF Keeps
    <3>4. CASE phase[w] \in {"reporting", "failed", "cancelled", "dead"}
      BY <2>3, <3>1, <3>4 DEF Up
    <3>5. QED
      BY <3>2, <3>3, <3>4
  <2>4. CASE job[j].worker # w
    BY <2>1, <2>2, <2>4 DEF LoopInv, ClaimsKept, Keeps, LoopTypeOK
  <2>5. QED
    BY <2>3, <2>4
<1>5. QED
  BY <1>1, <1>2, <1>3, <1>4 DEF LoopInv

\* A loop deals with the job it holds: it settles or releases it, finds its claim gone,
\* or ends with an exception.
LEMMA LoopSettles ==
  ASSUME LoopInv, NEW w \in Workers, phase[w] = "running", hand[w] # NoRef,
         NEW how \in {"running", "reporting"}, phase' = [phase EXCEPT ![w] = how],
         hand' \in {hand, [hand EXCEPT ![w] = NoRef]}, how = "running" => hand' # hand,
         UNCHANGED <<task, buffer, stop>>, faults' \in Nat,
         job' \in [JobId -> JobRow], \A i \in JobId \ {hand[w]} : job'[i] = job[i],
         \/ job'[hand[w]].state # "claimed"
         \/ job' = job /\ (how = "reporting" \/ ~HoldsLease(w, hand[w]))
  PROVE  LoopInv'
<1>1. hand[w] \in JobId
  BY DEF LoopInv, LoopTypeOK
<1>2. LoopTypeOK'
  BY DEF LoopInv, LoopTypeOK, Phase, Up
<1>3. TaskFits'
  BY DEF LoopInv, LoopTypeOK, TaskFits
<1>4. ClaimantsKnown'
  BY DEF LoopInv, ClaimantsKnown
<1>5. ClaimsKept'
  <2>1. SUFFICES ASSUME NEW j \in JobId, job'[j].state = "claimed", ~job'[j].expired
                 PROVE  \/ Keeps(job[j].worker, j)'
                        \/ phase'[job'[j].worker] \in {"reporting", "failed", "cancelled", "dead"}
    BY DEF ClaimsKept
  <2>2. job'[j] = job[j] /\ (j = hand[w] => job' = job)
    BY <2>1
  <2>3. job[j].worker \in Workers
    BY <2>1, <2>2 DEF LoopInv, ClaimantsKnown
  <2>4. CASE job[j].worker = w
    <3>1. how = "reporting" \/ j # hand[w]
      BY <2>1, <2>2, <2>4 DEF HoldsLease
    <3>2. phase'[w] = how
      BY DEF LoopInv, LoopTypeOK
    <3>3. CASE how = "reporting"
      BY <2>2, <2>4, <3>2, <3>3
    <3>4. CASE how = "running" /\ j # hand[w]
      <4>1. j \in buffer[w]
        BY <2>1, <2>2, <2>4, <3>4 DEF LoopInv, ClaimsKept, Keeps
      <4>2. QED
        BY <2>2, <2>4, <3>2, <3>4, <4>1 DEF Keeps, Up
    <3>5. QED
      BY <3>1, <3>3, <3>4
  <2>5. CASE job[j].worker # w
    <3>1. \A v \in Workers \ {w} : phase'[v] = phase[v] /\ hand'[v] = hand[v]
      BY DEF LoopInv, LoopTypeOK
    <3>2. QED
      BY <2>1, <2>2, <2>3, <2>5, <3>1 DEF LoopInv, ClaimsKept, Keeps
  <2>6. QED
    BY <2>4, <2>5
<1>6. QED
  BY <1>2, <1>3, <1>4, <1>5 DEF LoopInv

\* Jobs are enqueued, or their leases run out, while the loops stay as they are.
LEMMA LoopStays ==
  ASSUME LoopInv, UNCHANGED <<phase, task, hand, buffer>>,
         stop' \in [Workers -> BOOLEAN], faults' \in Nat, job' \in [JobId -> JobRow],
         \A j \in JobId :
           \/ job'[j] = job[j]
           \/ job'[j].state # "claimed"
           \/ job'[j].expired /\ job'[j].worker \in Workers
  PROVE  LoopInv'
<1>1. LoopTypeOK'
  BY DEF LoopInv, LoopTypeOK
<1>2. TaskFits'
  BY DEF LoopInv, TaskFits
<1>3. ClaimantsKnown'
  BY DEF LoopInv, ClaimantsKnown
<1>4. ClaimsKept'
  BY DEF LoopInv, ClaimsKept, Keeps
<1>5. QED
  BY <1>1, <1>2, <1>3, <1>4 DEF LoopInv

\* A step that leaves the loop alone.
LEMMA LoopUnchanged ==
  ASSUME LoopInv, UNCHANGED <<job, loopVars>>
  PROVE  LoopInv'
BY LoopStays DEF loopVars, LoopInv, LoopTypeOK

\* claim_batch hands a batch to a loop that has no claims, or to one that was cancelled.
LEMMA LoopClaims ==
  ASSUME LoopInv, NEW w \in Workers, ClaimSome(w)
  PROVE  LoopInv'
<1>1. PICK S \in SUBSET {j \in JobId : Claimable(j)}, first \in JobId :
        /\ first \in S
        /\ job' = [j \in JobId |-> IF j \in S THEN Claimed(job[j], w) ELSE job[j]]
        /\ hand' = [hand EXCEPT ![w] = first]
        /\ buffer' = [buffer EXCEPT ![w] = S \ {first}]
  BY DEF ClaimSome
<1>2. /\ task[w] = "ready" /\ task' = [task EXCEPT ![w] = "done"]
      /\ UNCHANGED <<phase, stop, faults>>
  BY DEF ClaimSome
<1>3. (phase[w] = "waiting" /\ hand[w] = NoRef /\ buffer[w] = {}) \/ phase[w] = "cancelled"
  BY <1>2 DEF LoopInv, LoopTypeOK, TaskFits
<1>4. \A j \in JobId : job[j] \in JobRow
  BY DEF LoopInv, LoopTypeOK
<1>5. \A j \in S : /\ job'[j] \in JobRow /\ job'[j].state = "claimed"
                   /\ job'[j].worker = w
  BY <1>1, <1>4, ClaimedRow
<1>6. \A j \in JobId \ S : job'[j] = job[j]
  BY <1>1
<1>7. job' \in [JobId -> JobRow]
  BY <1>1, <1>4, <1>5
<1>8. LoopTypeOK'
  BY <1>1, <1>2, <1>3, <1>7 DEF LoopInv, LoopTypeOK, TaskState
<1>9. TaskFits'
  BY <1>1, <1>2, <1>3 DEF LoopInv, LoopTypeOK, TaskFits
<1>10. ClaimantsKnown'
  BY <1>5, <1>6 DEF LoopInv, ClaimantsKnown
<1>11. ClaimsKept'
  <2>1. SUFFICES ASSUME NEW j \in JobId, job'[j].state = "claimed", ~job'[j].expired
                 PROVE  \/ Keeps(job[j].worker, j)'
                        \/ phase'[job'[j].worker] \in {"reporting", "failed", "cancelled", "dead"}
    BY DEF ClaimsKept
  <2>2. CASE j \in S
    <3>1. j = hand'[w] \/ j \in buffer'[w]
      BY <1>1, <2>2 DEF LoopInv, LoopTypeOK
    <3>2. QED
      BY <1>2, <1>3, <1>5, <2>2, <3>1 DEF Keeps, Up
  <2>3. CASE j \notin S
    <3>1. job'[j] = job[j] /\ job[j].worker \in Workers
      BY <1>6, <2>1, <2>3 DEF LoopInv, ClaimantsKnown
    <3>2. CASE job[j].worker = w
      BY <1>2, <1>3, <2>1, <3>1, <3>2 DEF LoopInv, ClaimsKept, Keeps, JobId, NoRef
    <3>3. CASE job[j].worker # w
      <4>1. \A v \in Workers \ {w} : hand'[v] = hand[v] /\ buffer'[v] = buffer[v]
        BY <1>1 DEF LoopInv, LoopTypeOK
      <4>2. QED
        BY <1>2, <2>1, <3>1, <3>3, <4>1 DEF LoopInv, ClaimsKept, Keeps
    <3>4. QED
      BY <3>2, <3>3
  <2>4. QED
    BY <2>2, <2>3
<1>12. QED
  BY <1>8, <1>9, <1>10, <1>11 DEF LoopInv

-----------------------------------------------------------------------------
(* The steps every loop has.                                               *)

\* Steps of run_worker keep the invariant,
LEMMA LoopCall ==
  ASSUME LoopInv, NEW w \in Workers, CallStep(w)
  PROVE  LoopInv'
<1>a. LoopTypeOK /\ TaskFits
  BY DEF LoopInv
<1>b. {"none", "cancelled", "ready"} \subseteq TaskState /\ {"running", "waiting"} \subseteq Phase
  BY DEF TaskState, Phase, Up
<1>1. CASE Return(w)
  <2>1. hand[w] = NoRef /\ buffer[w] = {} /\ phase[w] \in Up /\ Leaves(w, "returned", "none")
    BY <1>1 DEF Return, AtHead, Up
  <2>2. QED
    BY <1>1, <1>a, <1>b, <2>1, LoopLeaves DEF Return, LoopTypeOK
<1>2. CASE TakeBuffered(w)
  <2>1. PICK j \in buffer[w] : /\ hand' = [hand EXCEPT ![w] = j]
                               /\ buffer' = [buffer EXCEPT ![w] = @ \ {j}]
    BY <1>2 DEF TakeBuffered
  <2>2. /\ phase[w] = "running" /\ hand[w] = NoRef
        /\ UNCHANGED <<job, phase, task, stop, faults>>
    BY <1>2 DEF TakeBuffered, AtHead
  <2>3. task[w] = "none" /\ j \in JobId
    BY <1>a, <2>2 DEF LoopTypeOK
  <2>4. /\ phase' = [phase EXCEPT ![w] = "running"] /\ task' = [task EXCEPT ![w] = "none"]
        /\ hand' \in [Workers -> JobId \cup {NoRef}] /\ buffer' \in [Workers -> SUBSET JobId]
    BY <1>a, <2>1, <2>2, <2>3 DEF LoopTypeOK
  <2>5. \A v \in Workers \ {w} : hand'[v] = hand[v] /\ buffer'[v] = buffer[v]
    BY <1>a, <2>1 DEF LoopTypeOK
  <2>6. \A i \in JobId : i = hand[w] \/ i \in buffer[w] => i = hand'[w] \/ i \in buffer'[w]
    BY <1>a, <2>1, <2>2 DEF LoopTypeOK, JobId, NoRef
  <2>7. "running" \in Phase /\ "none" \in TaskState /\ faults' \in Nat
    BY <1>a, <1>b, <2>2 DEF LoopTypeOK
  <2>8. QED
    BY <2>2, <2>4, <2>5, <2>6, <2>7, LoopGoesOn DEF Up
<1>3. CASE StartWaiting(w)
  <2>1. /\ phase[w] = "running" /\ hand[w] = NoRef /\ buffer[w] = {}
        /\ phase' = [phase EXCEPT ![w] = "waiting"] /\ task' = [task EXCEPT ![w] = "ready"]
        /\ UNCHANGED <<job, hand, buffer, stop, faults>>
    BY <1>3 DEF StartWaiting, AtHead
  <2>2. "waiting" \in Phase /\ "ready" \in TaskState /\ "waiting" \in Up
    BY <1>b DEF Up
  <2>3. QED
    BY <1>a, <2>1, <2>2, LoopGoesOn DEF LoopTypeOK, Up
<1>4. CASE TakeClaim(w)
  <2>1. /\ phase[w] = "waiting"
        /\ phase' = [phase EXCEPT ![w] = "running"] /\ task' = [task EXCEPT ![w] = "none"]
        /\ UNCHANGED <<job, hand, buffer, stop, faults>>
    BY <1>4 DEF TakeClaim
  <2>2. "running" \in Phase /\ "none" \in TaskState /\ "running" \in Up
    BY <1>b DEF Up
  <2>3. QED
    BY <1>a, <2>1, <2>2, LoopGoesOn DEF LoopTypeOK, Up
<1>5. CASE ClaimFailed(w)
  BY <1>5, <1>a, <1>b, LoopLeaves DEF ClaimFailed, LoopTypeOK
<1>6. CASE HonourStop(w)
  <2>1. hand[w] = NoRef /\ buffer[w] = {} /\ phase[w] \in Up
    BY <1>6, <1>a DEF HonourStop, StopWins, TaskFits, Up
  <2>2. QED
    BY <1>6, <1>a, <1>b, <2>1, LoopLeaves DEF HonourStop, LoopTypeOK
<1>7. CASE ClaimCancelled(w)
  <2>1. hand[w] = NoRef /\ buffer[w] = {} /\ phase[w] \in Up
    BY <1>7, <1>a DEF ClaimCancelled, TaskFits, Up
  <2>2. QED
    BY <1>7, <1>a, <1>b, <2>1, LoopLeaves DEF ClaimCancelled, LoopTypeOK
<1>8. CASE Report(w)
  BY <1>8, <1>a, <1>b, LoopLeaves DEF Report, LoopTypeOK
<1>9. QED
  BY <1>1, <1>2, <1>3, <1>4, <1>5, <1>6, <1>7, <1>8 DEF CallStep

\* The claim task fell asleep, woke up or failed.
LEMMA LoopTaskMoves ==
  ASSUME LoopInv, NEW w \in Workers, NEW t \in TaskState,
         task[w] \in {"ready", "asleep"}, t \in {"ready", "asleep", "raised"},
         task' = [task EXCEPT ![w] = t],
         UNCHANGED <<job, phase, hand, buffer, stop>>, faults' \in Nat
  PROVE  LoopInv'
<1>1. LoopTypeOK'
  BY DEF LoopInv, LoopTypeOK
<1>2. TaskFits'
  BY DEF LoopInv, LoopTypeOK, TaskFits
<1>3. ClaimantsKnown' /\ ClaimsKept'
  BY DEF LoopInv, ClaimantsKnown, ClaimsKept, Keeps
<1>4. QED
  BY <1>1, <1>2, <1>3 DEF LoopInv

\* steps of the claim task,
LEMMA LoopTask ==
  ASSUME LoopInv, NEW w \in Workers, TaskStep(w)
  PROVE  LoopInv'
<1>a. {"ready", "asleep"} \subseteq TaskState /\ faults \in Nat
  BY DEF TaskState, LoopInv, LoopTypeOK
<1>1. CASE ClaimSome(w)
  BY <1>1, LoopClaims
<1>2. CASE ClaimNone(w)
  BY <1>2, <1>a, LoopTaskMoves DEF ClaimNone
<1>3. CASE Wake(w)
  BY <1>3, <1>a, LoopTaskMoves DEF Wake
<1>4. QED
  BY <1>1, <1>2, <1>3 DEF TaskStep

\* leases that run out,
LEMMA LoopLease ==
  ASSUME LoopInv, NEW j \in JobId, LeaseExpires(j)
  PROVE  LoopInv'
<1>1. job[j] \in JobRow /\ job[j].state = "claimed" /\ job[j].worker \in Workers
  BY DEF LoopInv, LoopTypeOK, LeaseExpires, ClaimantsKnown
<1>2. job' = [job EXCEPT ![j].expired = TRUE]
  BY DEF LeaseExpires
<1>3. /\ job'[j] \in JobRow /\ job'[j].expired /\ job'[j].worker = job[j].worker
      /\ \A i \in JobId \ {j} : job'[i] = job[i]
  BY <1>1, <1>2 DEF LoopInv, LoopTypeOK, JobRow
<1>4. job' \in [JobId -> JobRow] /\ UNCHANGED <<phase, task, hand, buffer, stop>>
  BY <1>1, <1>2, <1>3 DEF LoopInv, LoopTypeOK, LeaseExpires
<1>5. faults' \in Nat
  BY DEF LeaseExpires, Fault, LoopInv, LoopTypeOK
<1>6. stop' \in [Workers -> BOOLEAN]
  BY <1>4 DEF LoopInv, LoopTypeOK
<1>7. QED
  BY <1>1, <1>3, <1>4, <1>5, <1>6, LoopStays

\* a stop, a claim that raises, a cancellation,
LEMMA LoopDisturbed ==
  ASSUME LoopInv, Disturb
  PROVE  LoopInv'
<1>a. faults \in Nat /\ faults + 1 \in Nat /\ LoopTypeOK
  BY DEF LoopInv, LoopTypeOK
<1>1. ASSUME NEW w \in Workers, SetStop(w)
      PROVE  LoopInv'
  <2>1. stop' \in [Workers -> BOOLEAN]
    BY <1>1, <1>a DEF SetStop, LoopTypeOK
  <2>2. QED
    BY <1>1, <1>a, <2>1, LoopStays DEF SetStop, LoopTypeOK
<1>2. ASSUME NEW w \in Workers, ClaimRaises(w)
      PROVE  LoopInv'
  BY <1>2, <1>a, LoopTaskMoves DEF ClaimRaises, Fault, TaskState
<1>3. ASSUME NEW w \in Workers, Cancel(w)
      PROVE  LoopInv'
  <2>1. PICK t \in TaskState : Leaves(w, "cancelled", t)
    BY <1>3, <1>a DEF Cancel, LoopTypeOK, TaskState
  <2>2. QED
    BY <1>3, <1>a, <2>1, LoopLeaves DEF Cancel, Fault
<1>4. ASSUME NEW j \in JobId, LeaseExpires(j)
      PROVE  LoopInv'
  BY <1>4, LoopLease
<1>5. QED
  BY <1>1, <1>2, <1>3, <1>4 DEF Disturb

\* and a crash.
LEMMA LoopCrash ==
  ASSUME LoopInv, NEW w \in Workers, Crash(w)
  PROVE  LoopInv'
<1>1. faults' \in Nat /\ "none" \in TaskState
  BY DEF Crash, Fault, LoopInv, LoopTypeOK, TaskState
<1>2. QED
  BY <1>1, LoopLeaves DEF Crash

\* Jobs that were just enqueued disturb nothing.
LEMMA LoopEnqueues ==
  ASSUME LoopInv, UNCHANGED loopVars, NEW j \in JobId,
         job' = Enqueued(job, j, NoRef, NoRef)
  PROVE  LoopInv'
<1>1. /\ job' \in [JobId -> JobRow] /\ job'[j].state = "pending"
      /\ \A i \in JobId \ {j} : job'[i] = job[i]
  BY EnqueuedRow DEF LoopInv, LoopTypeOK
<1>2. QED
  BY <1>1, LoopStays DEF loopVars, LoopInv, LoopTypeOK
=============================================================================
